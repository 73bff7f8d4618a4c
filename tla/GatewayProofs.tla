--------------------------- MODULE GatewayProofs ---------------------------
(***************************************************************************)
(* Proofs about Gateway, for any number of requests, owners, executors and *)
(* queue places, any waiting times and ceilings, and both modes: its       *)
(* accounts, certainty about execution, limits, wake-ups, ends and steps,  *)
(* and that it implements AdmissionContract and WaitingLine.               *)
(***************************************************************************)
EXTENDS Gateway, FiniteSetTheorems, WellFoundedInduction, TLAPS

-----------------------------------------------------------------------------
(* Slots: the effect of removing a set of jobs on the counters.            *)

\* Every set of requests is finite.
LEMMA FiniteRequests ==
    ASSUME NEW S \in SUBSET Requests
    PROVE  IsFiniteSet(S) /\ Cardinality(S) \in Nat
BY FS_Subset, FS_CardinalityType, GatewayAssumption DEF GatewayAssumption

\* Dropping the permits of gone leaves the count of those that still hold.
LEMMA FreedCounts ==
    ASSUME TypeOK, BudgetAccounting, NEW gone \in SUBSET Holding
    PROVE  /\ Freed(gone) \in [Budgets -> Nat]
           /\ \A b \in Budgets :
                Freed(gone)[b] = Cardinality((Holding \ gone) \intersect Of(b))
<1>1. ASSUME NEW b \in Budgets
      PROVE  /\ Freed(gone)[b] \in Nat
             /\ Freed(gone)[b] = Cardinality((Holding \ gone) \intersect Of(b))
    <2> DEFINE H == Holding \intersect Of(b)
    <2>1. H \in SUBSET Requests /\ H \ gone \in SUBSET Requests
        BY DEF Holding
    <2>2. Cardinality(H \ gone) = Cardinality(H) - Cardinality(H \intersect gone)
        BY <2>1, FiniteRequests, FS_Difference
    <2>3. H \intersect gone = gone \intersect Of(b)
        OBVIOUS
    <2>4. H \ gone = (Holding \ gone) \intersect Of(b)
        OBVIOUS
    <2>5. outstanding[b] = Cardinality(H)
        BY DEF BudgetAccounting
    <2>6. Freed(gone)[b] = outstanding[b] - Cardinality(gone \intersect Of(b))
        BY DEF Freed
    <2>7. Cardinality(H \ gone) \in Nat
        BY <2>1, FiniteRequests
    <2> QED
        BY <2>2, <2>3, <2>4, <2>5, <2>6, <2>7
<1> QED
    BY <1>1 DEF Freed

\* Who holds a slot, and who runs, once the jobs of gone are removed.
LEMMA RemovedHolding ==
    ASSUME TypeOK, NEW gone \in SUBSET Holding, job' = Removed(gone)
    PROVE  /\ Holding' = Holding \ gone
           /\ Running' = Running \ gone
BY DEF Holding, Running, Removed, TypeOK

\* Removing jobs and dropping their permits keeps the accounts, provided the
\* counter of executors follows.
LEMMA RemovalAccounting ==
    ASSUME TypeOK, BudgetAccounting, NEW gone \in SUBSET Holding,
           Holding' = Holding \ gone, Running' = Running \ gone,
           outstanding' = Freed(gone),
           active' = Cardinality(Running \ gone)
    PROVE  BudgetAccounting' /\ outstanding' \in [Budgets -> Nat]
BY FreedCounts DEF BudgetAccounting, Of

\* In particular for waiting jobs, which no executor runs.
LEMMA WaitingRemovalAccounting ==
    ASSUME TypeOK, BudgetAccounting, NEW gone \in SUBSET Queued,
           job' = Removed(gone), outstanding' = Freed(gone), active' = active
    PROVE  BudgetAccounting' /\ outstanding' \in [Budgets -> Nat]
<1>1. gone \in SUBSET Holding /\ Running \ gone = Running
    BY DEF Queued, Holding, Running
<1>2. Holding' = Holding \ gone /\ Running' = Running \ gone
    BY <1>1, RemovedHolding
<1> QED
    BY <1>1, <1>2, RemovalAccounting DEF BudgetAccounting

\* The same when a request that held nothing is admitted after the removal.
LEMMA AdmissionAccounting ==
    ASSUME TypeOK, BudgetAccounting, NEW gone \in SUBSET Queued,
           NEW r \in Requests, r \notin Holding,
           job' = [Removed(gone) EXCEPT ![r] = "queued"],
           outstanding' = [Freed(gone) EXCEPT ![BudgetOf[r]] = @ + 1],
           active' = active
    PROVE  BudgetAccounting' /\ outstanding' \in [Budgets -> Nat]
<1>1. /\ Holding' = (Holding \ gone) \union {r}
      /\ Running' = Running
    BY DEF Holding, Running, Queued, Removed, TypeOK
<1>2. gone \in SUBSET Holding
    BY DEF Queued, Holding
<1>3. ASSUME NEW b \in Budgets
      PROVE  /\ outstanding'[b] = Cardinality(Holding' \intersect Of(b))
             /\ outstanding'[b] \in Nat
    <2> DEFINE H == (Holding \ gone) \intersect Of(b)
    <2>1. H \in SUBSET Requests
        BY DEF Holding
    <2>2. IsFiniteSet(H) /\ Cardinality(H) \in Nat
        BY <2>1, FiniteRequests
    <2>3. Freed(gone)[b] = Cardinality(H) /\ Freed(gone) \in [Budgets -> Nat]
        BY <1>2, FreedCounts
    <2>4. CASE BudgetOf[r] = b
        <3>1. Holding' \intersect Of(b) = H \union {r}
            BY <1>1, <2>4 DEF Of
        <3>2. Cardinality(H \union {r}) = Cardinality(H) + 1
            BY <2>2, FS_AddElement
        <3>3. outstanding'[b] = Freed(gone)[b] + 1
            BY <2>3, <2>4
        <3>4. Cardinality(Holding' \intersect Of(b)) = Cardinality(H) + 1
            BY <3>1, <3>2
        <3> HIDE DEF H
        <3> QED
            BY <3>3, <3>4, <2>2, <2>3
    <2>5. CASE BudgetOf[r] # b
        <3>1. Holding' \intersect Of(b) = H
            BY <1>1, <2>5 DEF Of
        <3> QED
            BY <3>1, <2>2, <2>3, <2>5
    <2> QED
        BY <2>4, <2>5
<1>4. active' = Cardinality(Running')
    BY <1>1 DEF BudgetAccounting
<1>5. BudgetOf[r] \in Budgets
    BY GatewayAssumption DEF GatewayAssumption
<1>6. outstanding' \in [Budgets -> Nat]
    BY <1>3, <1>2, FreedCounts
<1> QED
    BY <1>3, <1>4, <1>6 DEF BudgetAccounting, Of
-----------------------------------------------------------------------------
(* Types and accounts.                                                     *)

\* Only one job is between the queues and an executor, and only at handoff.
OneSelected ==
    /\ \A r \in Requests : job[r] = "selected" => sched = "handoff"
    /\ \A r, q \in Requests :
        job[r] = "selected" /\ job[q] = "selected" => r = q

\* A preferred interactive job was chosen with the streak below its limit.
StreakBelowLimit ==
    \A r \in Requests :
        /\ job[r] = "selected"
        /\ Mode = "weighted" /\ competing /\ ClassOf(r) = "interactive"
        => streak < StreakLimit

\* A request that was not sent has no job.
IdleAbsent == \A r \in Requests : call[r] = "idle" => job[r] = "absent"

CoreInv ==
    /\ TypeOK
    /\ BudgetAccounting
    /\ OneSelected
    /\ StreakBelowLimit
    /\ IdleAbsent

\* The operators that drop waiting work stay within the types.
LEMMA HelperTypes ==
    ASSUME TypeOK, NEW gone \in SUBSET Requests, NEW what \in Replies
    PROVE  /\ Removed(gone) \in [Requests -> JobStates]
           /\ Forgotten(gone) \in [Requests -> [order : Nat, left : Nat]]
           /\ Sent(gone, what) \in [Requests -> Replies]
BY DEF TypeOK, Removed, Forgotten, Sent, JobStates, NoTicket

\* maintain removes nothing but waiting jobs.
LEMMA SweptQueued == Swept \in SUBSET Queued /\ Queued \in SUBSET Requests
BY DEF Swept, Queued

\* A fresh gateway owes no slot to anybody.
LEMMA CoreInit == Init => CoreInv
<1> SUFFICES ASSUME Init PROVE CoreInv
    OBVIOUS
<1>1. TypeOK
    <2>1. ticket \in [Requests -> [order : Nat, left : Nat]]
        BY DEF Init, NoTicket
    <2>2. /\ maximum \in [Budgets -> Nat \ {0}]
          /\ rejectOnce \in BOOLEAN
        BY GatewayAssumption DEF GatewayAssumption, Init
    <2>3. streak \in 0 .. StreakLimit /\ timer \in Nat \union {NoTimer}
        BY DEF Init, StreakLimit
    <2> QED
        BY <2>1, <2>2, <2>3 DEF Init, TypeOK, JobStates, Replies
<1>2. Holding = {} /\ Running = {}
    BY DEF Init, Holding, Running
<1>3. BudgetAccounting
    BY <1>2, FS_EmptySet DEF BudgetAccounting, Init
<1>4. OneSelected /\ StreakBelowLimit /\ IdleAbsent
    BY DEF Init, OneSelected, StreakBelowLimit, IdleAbsent
<1> QED
    BY <1>1, <1>3, <1>4 DEF CoreInv

\* A step that moves no job into or out of the queues and executors keeps the
\* accounts.
LEMMA QuietStep ==
    ASSUME TypeOK, BudgetAccounting, UNCHANGED <<job, outstanding, active>>
    PROVE  BudgetAccounting' /\ outstanding' \in [Budgets -> Nat]
BY DEF TypeOK, BudgetAccounting, Holding, Running, Of

\* Sweeping leaves the selected job alone.
LEMMA SweepKeepsSelected ==
    ASSUME TypeOK, NEW gone \in SUBSET Queued, job' = Removed(gone)
    PROVE  \A r \in Requests : job'[r] = "selected" <=> job[r] = "selected"
BY DEF TypeOK, Removed, Queued

\* Every step, whoever takes it, keeps types and accounts: each job that leaves
\* the queues or its executor gives back exactly its own slot.
LEMMA CoreStep == CoreInv /\ [Next]_vars => CoreInv'
<1> SUFFICES ASSUME CoreInv, [Next]_vars PROVE CoreInv'
    OBVIOUS
<1> USE DEF CoreInv
<1>1. ASSUME NEW r \in Requests, RejectTest(r) PROVE CoreInv'
    <2>1. TypeOK'
        BY <1>1
        DEF RejectTest, TypeOK, budgetVars, queueVars, schedVars, callVars,
            ownerVars, Replies, NotStarted, Unknown
    <2>2. UNCHANGED <<job, outstanding, active>>
        BY <1>1
        DEF RejectTest, budgetVars, queueVars, schedVars, callVars, ownerVars
    <2>3. BudgetAccounting'
        BY <2>2, QuietStep
    <2>4. OneSelected' /\ StreakBelowLimit' /\ IdleAbsent'
        BY <1>1, <2>2
        DEF RejectTest, budgetVars, queueVars, schedVars, callVars, ownerVars,
            OneSelected, StreakBelowLimit, IdleAbsent, ClassOf, LockFree
    <2> QED
        BY <2>1, <2>3, <2>4
<1>2. ASSUME NEW r \in Requests, RejectClosed(r) PROVE CoreInv'
    <2>1. TypeOK'
        BY <1>2
        DEF RejectClosed, TypeOK, budgetVars, queueVars, schedVars, callVars,
            ownerVars, Enqueues, Replies, NotStarted, Unknown
    <2>2. UNCHANGED <<job, outstanding, active>>
        BY <1>2
        DEF RejectClosed, budgetVars, queueVars, schedVars, callVars, ownerVars
    <2>3. BudgetAccounting'
        BY <2>2, QuietStep
    <2>4. OneSelected' /\ StreakBelowLimit' /\ IdleAbsent'
        BY <1>2, <2>2
        DEF RejectClosed, budgetVars, queueVars, schedVars, callVars,
            ownerVars, OneSelected, StreakBelowLimit, IdleAbsent, ClassOf,
            LockFree
    <2> QED
        BY <2>1, <2>3, <2>4
<1>3. ASSUME NEW r \in Requests, NotifyAdmission(r) PROVE CoreInv'
    <2>1. TypeOK'
        BY <1>3
        DEF NotifyAdmission, TypeOK, budgetVars, queueVars, schedVars,
            callVars, ownerVars
    <2>2. UNCHANGED <<job, outstanding, active>>
        BY <1>3
        DEF NotifyAdmission, budgetVars, queueVars, schedVars, callVars,
            ownerVars
    <2>3. BudgetAccounting'
        BY <2>2, QuietStep
    <2>4. OneSelected' /\ StreakBelowLimit' /\ IdleAbsent'
        BY <1>3, <2>2
        DEF NotifyAdmission, budgetVars, queueVars, schedVars, callVars,
            ownerVars, OneSelected, StreakBelowLimit, IdleAbsent, ClassOf,
            LockFree
    <2> QED
        BY <2>1, <2>3, <2>4
<1>4. ASSUME NEW r \in Requests, Receive(r) PROVE CoreInv'
    <2>1. TypeOK'
        BY <1>4
        DEF Receive, TypeOK, budgetVars, queueVars, schedVars, callVars,
            ownerVars
    <2>2. UNCHANGED <<job, outstanding, active>>
        BY <1>4
        DEF Receive, budgetVars, queueVars, schedVars, callVars, ownerVars
    <2>3. BudgetAccounting'
        BY <2>2, QuietStep
    <2>4. OneSelected' /\ StreakBelowLimit' /\ IdleAbsent'
        BY <1>4, <2>2
        DEF Receive, budgetVars, queueVars, schedVars, callVars, ownerVars,
            OneSelected, StreakBelowLimit, IdleAbsent, ClassOf, LockFree
    <2> QED
        BY <2>1, <2>3, <2>4
<1>5. ASSUME NEW r \in Requests, Cancel(r) PROVE CoreInv'
    <2>1. TypeOK'
        BY <1>5
        DEF Cancel, TypeOK, budgetVars, queueVars, schedVars, callVars,
            ownerVars
    <2>2. UNCHANGED <<job, outstanding, active>>
        BY <1>5
        DEF Cancel, budgetVars, queueVars, schedVars, callVars, ownerVars
    <2>3. BudgetAccounting'
        BY <2>2, QuietStep
    <2>4. OneSelected' /\ StreakBelowLimit' /\ IdleAbsent'
        BY <1>5, <2>2
        DEF Cancel, budgetVars, queueVars, schedVars, callVars, ownerVars,
            OneSelected, StreakBelowLimit, IdleAbsent, ClassOf, LockFree
    <2> QED
        BY <2>1, <2>3, <2>4
<1>6. ASSUME FillDone PROVE CoreInv'
    <2>1. TypeOK'
        BY <1>6
        DEF FillDone, TypeOK, budgetVars, queueVars, schedVars, callVars,
            ownerVars
    <2>2. UNCHANGED <<job, outstanding, active>>
        BY <1>6
        DEF FillDone, budgetVars, queueVars, schedVars, callVars, ownerVars
    <2>3. BudgetAccounting'
        BY <2>2, QuietStep
    <2>4. OneSelected' /\ StreakBelowLimit' /\ IdleAbsent'
        BY <1>6, <2>2
        DEF FillDone, budgetVars, queueVars, schedVars, callVars, ownerVars,
            OneSelected, StreakBelowLimit, IdleAbsent, ClassOf, LockFree
    <2> QED
        BY <2>1, <2>3, <2>4
<1>7. ASSUME SchedStop PROVE CoreInv'
    <2>1. TypeOK'
        BY <1>7
        DEF SchedStop, TypeOK, budgetVars, queueVars, schedVars, callVars,
            ownerVars
    <2>2. UNCHANGED <<job, outstanding, active>>
        BY <1>7
        DEF SchedStop, budgetVars, queueVars, schedVars, callVars, ownerVars
    <2>3. BudgetAccounting'
        BY <2>2, QuietStep
    <2>4. OneSelected' /\ StreakBelowLimit' /\ IdleAbsent'
        BY <1>7, <2>2
        DEF SchedStop, budgetVars, queueVars, schedVars, callVars, ownerVars,
            OneSelected, StreakBelowLimit, IdleAbsent, ClassOf, LockFree
    <2> QED
        BY <2>1, <2>3, <2>4
<1>8. ASSUME SchedSleep PROVE CoreInv'
    <2>1. TypeOK'
        BY <1>8
        DEF SchedSleep, TypeOK, budgetVars, queueVars, schedVars, callVars,
            ownerVars, NextDeadline, EarliestDeadline, Queued
    <2>2. UNCHANGED <<job, outstanding, active>>
        BY <1>8
        DEF SchedSleep, budgetVars, queueVars, schedVars, callVars, ownerVars
    <2>3. BudgetAccounting'
        BY <2>2, QuietStep
    <2>4. OneSelected' /\ StreakBelowLimit' /\ IdleAbsent'
        BY <1>8, <2>2
        DEF SchedSleep, budgetVars, queueVars, schedVars, callVars, ownerVars,
            OneSelected, StreakBelowLimit, IdleAbsent, ClassOf, LockFree
    <2> QED
        BY <2>1, <2>3, <2>4
<1>9. ASSUME WakeNotified PROVE CoreInv'
    <2>1. TypeOK'
        BY <1>9
        DEF Wakes, WakeNotified, TypeOK, budgetVars, queueVars, schedVars,
            callVars, ownerVars
    <2>2. UNCHANGED <<job, outstanding, active>>
        BY <1>9
        DEF Wakes, WakeNotified, budgetVars, queueVars, schedVars, callVars,
            ownerVars
    <2>3. BudgetAccounting'
        BY <2>2, QuietStep
    <2>4. OneSelected' /\ StreakBelowLimit' /\ IdleAbsent'
        BY <1>9, <2>2
        DEF Wakes, WakeNotified, budgetVars, queueVars, schedVars, callVars,
            ownerVars, OneSelected, StreakBelowLimit, IdleAbsent, ClassOf,
            LockFree
    <2> QED
        BY <2>1, <2>3, <2>4
<1>10. ASSUME WakeJoined PROVE CoreInv'
    <2>1. TypeOK'
        BY <1>10
        DEF Wakes, WakeJoined, TypeOK, budgetVars, queueVars, schedVars,
            callVars, ownerVars
    <2>2. UNCHANGED <<job, outstanding, active>>
        BY <1>10
        DEF Wakes, WakeJoined, budgetVars, queueVars, schedVars, callVars,
            ownerVars
    <2>3. BudgetAccounting'
        BY <2>2, QuietStep
    <2>4. OneSelected' /\ StreakBelowLimit' /\ IdleAbsent'
        BY <1>10, <2>2
        DEF Wakes, WakeJoined, budgetVars, queueVars, schedVars, callVars,
            ownerVars, OneSelected, StreakBelowLimit, IdleAbsent, ClassOf,
            LockFree
    <2> QED
        BY <2>1, <2>3, <2>4
<1>11. ASSUME WakeTimer PROVE CoreInv'
    <2>1. TypeOK'
        BY <1>11
        DEF Wakes, WakeTimer, TypeOK, budgetVars, queueVars, schedVars,
            callVars, ownerVars
    <2>2. UNCHANGED <<job, outstanding, active>>
        BY <1>11
        DEF Wakes, WakeTimer, budgetVars, queueVars, schedVars, callVars,
            ownerVars
    <2>3. BudgetAccounting'
        BY <2>2, QuietStep
    <2>4. OneSelected' /\ StreakBelowLimit' /\ IdleAbsent'
        BY <1>11, <2>2
        DEF Wakes, WakeTimer, budgetVars, queueVars, schedVars, callVars,
            ownerVars, OneSelected, StreakBelowLimit, IdleAbsent, ClassOf,
            LockFree
    <2> QED
        BY <2>1, <2>3, <2>4
<1>12. ASSUME SchedAbort PROVE CoreInv'
    <2>1. TypeOK'
        BY <1>12
        DEF SchedAbort, TypeOK, budgetVars, queueVars, schedVars, callVars,
            ownerVars
    <2>2. UNCHANGED <<job, outstanding, active>>
        BY <1>12
        DEF SchedAbort, budgetVars, queueVars, schedVars, callVars, ownerVars
    <2>3. BudgetAccounting'
        BY <2>2, QuietStep
    <2>4. OneSelected' /\ StreakBelowLimit' /\ IdleAbsent'
        BY <1>12, <2>2
        DEF SchedAbort, budgetVars, queueVars, schedVars, callVars, ownerVars,
            OneSelected, StreakBelowLimit, IdleAbsent, ClassOf, LockFree
    <2> QED
        BY <2>1, <2>3, <2>4
<1>13. ASSUME NEW b \in Budgets, SetLimit(b) PROVE CoreInv'
    <2>1. TypeOK'
        BY <1>13, GatewayAssumption
        DEF SetLimit, TypeOK, budgetVars, queueVars, schedVars, callVars,
            ownerVars, GatewayAssumption
    <2>2. UNCHANGED <<job, outstanding, active>>
        BY <1>13
        DEF SetLimit, budgetVars, queueVars, schedVars, callVars, ownerVars
    <2>3. BudgetAccounting'
        BY <2>2, QuietStep
    <2>4. OneSelected' /\ StreakBelowLimit' /\ IdleAbsent'
        BY <1>13, <2>2
        DEF SetLimit, budgetVars, queueVars, schedVars, callVars, ownerVars,
            OneSelected, StreakBelowLimit, IdleAbsent, ClassOf, LockFree
    <2> QED
        BY <2>1, <2>3, <2>4
<1>14. ASSUME Close PROVE CoreInv'
    <2>1. TypeOK'
        BY <1>14
        DEF Close, TypeOK, budgetVars, queueVars, schedVars, callVars,
            ownerVars
    <2>2. UNCHANGED <<job, outstanding, active>>
        BY <1>14
        DEF Close, budgetVars, queueVars, schedVars, callVars, ownerVars
    <2>3. BudgetAccounting'
        BY <2>2, QuietStep
    <2>4. OneSelected' /\ StreakBelowLimit' /\ IdleAbsent'
        BY <1>14, <2>2
        DEF Close, budgetVars, queueVars, schedVars, callVars, ownerVars,
            OneSelected, StreakBelowLimit, IdleAbsent, ClassOf, LockFree
    <2> QED
        BY <2>1, <2>3, <2>4
<1>15. ASSUME DropLocked PROVE CoreInv'
    <2>1. TypeOK'
        BY <1>15
        DEF DropLocked, TypeOK, budgetVars, queueVars, schedVars, callVars,
            ownerVars
    <2>2. UNCHANGED <<job, outstanding, active>>
        BY <1>15
        DEF DropLocked, budgetVars, queueVars, schedVars, callVars, ownerVars
    <2>3. BudgetAccounting'
        BY <2>2, QuietStep
    <2>4. OneSelected' /\ StreakBelowLimit' /\ IdleAbsent'
        BY <1>15, <2>2
        DEF DropLocked, budgetVars, queueVars, schedVars, callVars, ownerVars,
            OneSelected, StreakBelowLimit, IdleAbsent, ClassOf, LockFree
    <2> QED
        BY <2>1, <2>3, <2>4
<1>16. ASSUME NEW r \in Requests, RejectBudget(r) PROVE CoreInv'
    <2>1. /\ job' = Removed(Swept) /\ outstanding' = Freed(Swept)
          /\ active' = active
        BY <1>16 DEF RejectBudget, Maintain, RejectPending, schedVars
    <2>2. Swept \in SUBSET Queued /\ Swept \in SUBSET Requests
        BY SweptQueued
    <2>3. BudgetAccounting' /\ outstanding' \in [Budgets -> Nat]
        BY <2>1, <2>2, WaitingRemovalAccounting
    <2>4. TypeOK'
        BY <1>16, <2>2, <2>3, HelperTypes
        DEF RejectBudget, Maintain, RejectPending, TypeOK, budgetVars,
            schedVars, callVars, ownerVars, Replies, NotStarted, Unknown,
            Enqueues
    <2>5. OneSelected' /\ StreakBelowLimit' /\ IdleAbsent'
        BY <1>16, <2>1, <2>2, SweepKeepsSelected
        DEF RejectBudget, OneSelected, StreakBelowLimit, IdleAbsent, ClassOf,
            LockFree, schedVars, callVars, Enqueues, TypeOK, Removed, Queued
    <2> QED
        BY <2>3, <2>4, <2>5
<1>17. ASSUME NEW r \in Requests, RejectFull(r) PROVE CoreInv'
    <2>1. /\ job' = Removed(Swept) /\ outstanding' = Freed(Swept)
          /\ active' = active
        BY <1>17 DEF RejectFull, Maintain, RejectPending, schedVars
    <2>2. Swept \in SUBSET Queued /\ Swept \in SUBSET Requests
        BY SweptQueued
    <2>3. BudgetAccounting' /\ outstanding' \in [Budgets -> Nat]
        BY <2>1, <2>2, WaitingRemovalAccounting
    <2>4. TypeOK'
        BY <1>17, <2>2, <2>3, HelperTypes
        DEF RejectFull, Maintain, RejectPending, TypeOK, budgetVars, schedVars,
            callVars, ownerVars, Replies, NotStarted, Unknown, Enqueues
    <2>5. OneSelected' /\ StreakBelowLimit' /\ IdleAbsent'
        BY <1>17, <2>1, <2>2, SweepKeepsSelected
        DEF RejectFull, OneSelected, StreakBelowLimit, IdleAbsent, ClassOf,
            LockFree, schedVars, callVars, Enqueues, TypeOK, Removed, Queued
    <2> QED
        BY <2>3, <2>4, <2>5
<1>18. ASSUME SchedLock PROVE CoreInv'
    <2>1. /\ job' = Removed(Swept) /\ outstanding' = Freed(Swept)
          /\ active' = active
        BY <1>18 DEF SchedLock, Maintain, RejectPending, schedVars
    <2>2. Swept \in SUBSET Queued /\ Swept \in SUBSET Requests
        BY SweptQueued
    <2>3. BudgetAccounting' /\ outstanding' \in [Budgets -> Nat]
        BY <2>1, <2>2, WaitingRemovalAccounting
    <2>4. TypeOK'
        BY <1>18, <2>2, <2>3, HelperTypes
        DEF SchedLock, Maintain, RejectPending, TypeOK, budgetVars, schedVars,
            callVars, ownerVars, Replies, NotStarted, Unknown
    <2>5. OneSelected' /\ StreakBelowLimit' /\ IdleAbsent'
        BY <1>18, <2>1, <2>2, SweepKeepsSelected
        DEF SchedLock, OneSelected, StreakBelowLimit, IdleAbsent, ClassOf,
            LockFree, schedVars, callVars, Enqueues, TypeOK, Removed, Queued
    <2> QED
        BY <2>3, <2>4, <2>5
<1>19. ASSUME PopNothing PROVE CoreInv'
    <2>1. /\ job' = Removed(Swept) /\ outstanding' = Freed(Swept)
          /\ active' = active
        BY <1>19 DEF PopNothing, Maintain, RejectPending, schedVars
    <2>2. Swept \in SUBSET Queued /\ Swept \in SUBSET Requests
        BY SweptQueued
    <2>3. BudgetAccounting' /\ outstanding' \in [Budgets -> Nat]
        BY <2>1, <2>2, WaitingRemovalAccounting
    <2>4. TypeOK'
        BY <1>19, <2>2, <2>3, HelperTypes
        DEF PopNothing, Maintain, RejectPending, TypeOK, budgetVars, schedVars,
            callVars, ownerVars, Replies, NotStarted, Unknown, StreakLimit
    <2>5. OneSelected' /\ StreakBelowLimit' /\ IdleAbsent'
        BY <1>19, <2>1, <2>2, SweepKeepsSelected
        DEF PopNothing, OneSelected, StreakBelowLimit, IdleAbsent, ClassOf,
            LockFree, schedVars, callVars, Enqueues, TypeOK, Removed, Queued
    <2> QED
        BY <2>3, <2>4, <2>5
<1>20. ASSUME DropUnlocked PROVE CoreInv'
    <2>1. /\ job' = Removed(Queued) /\ outstanding' = Freed(Queued)
          /\ active' = active
        BY <1>20 DEF DropUnlocked, Maintain, RejectPending, schedVars
    <2>2. Queued \in SUBSET Queued /\ Queued \in SUBSET Requests
        BY SweptQueued
    <2>3. BudgetAccounting' /\ outstanding' \in [Budgets -> Nat]
        BY <2>1, <2>2, WaitingRemovalAccounting
    <2>4. TypeOK'
        BY <1>20, <2>2, <2>3, HelperTypes
        DEF DropUnlocked, Maintain, RejectPending, TypeOK, budgetVars,
            schedVars, callVars, ownerVars, Replies, NotStarted, Unknown
    <2>5. OneSelected' /\ StreakBelowLimit' /\ IdleAbsent'
        BY <1>20, <2>1, <2>2, SweepKeepsSelected
        DEF DropUnlocked, OneSelected, StreakBelowLimit, IdleAbsent, ClassOf,
            LockFree, schedVars, callVars, Enqueues, TypeOK, Removed, Queued
    <2> QED
        BY <2>3, <2>4, <2>5
<1>21. ASSUME CleanUp PROVE CoreInv'
    <2>1. /\ job' = Removed(Queued) /\ outstanding' = Freed(Queued)
          /\ active' = active
        BY <1>21 DEF CleanUp, Maintain, RejectPending, schedVars
    <2>2. Queued \in SUBSET Queued /\ Queued \in SUBSET Requests
        BY SweptQueued
    <2>3. BudgetAccounting' /\ outstanding' \in [Budgets -> Nat]
        BY <2>1, <2>2, WaitingRemovalAccounting
    <2>4. TypeOK'
        BY <1>21, <2>2, <2>3, HelperTypes
        DEF CleanUp, Maintain, RejectPending, TypeOK, budgetVars, schedVars,
            callVars, ownerVars, Replies, NotStarted, Unknown
    <2>5. OneSelected' /\ StreakBelowLimit' /\ IdleAbsent'
        BY <1>21, <2>1, <2>2, SweepKeepsSelected
        DEF CleanUp, OneSelected, StreakBelowLimit, IdleAbsent, ClassOf,
            LockFree, schedVars, callVars, Enqueues, TypeOK, Removed, Queued
    <2> QED
        BY <2>3, <2>4, <2>5
<1>22. ASSUME Tick PROVE CoreInv'
    <2>1. ticket' \in [Requests -> [order : Nat, left : Nat]]
        <3>1. ASSUME NEW r \in Requests
              PROVE  ticket'[r] \in [order : Nat, left : Nat]
            <4>1. ticket[r] \in [order : Nat, left : Nat]
                BY DEF TypeOK
            <4>2. ticket'[r] = IF ticket[r].left > 0
                               THEN [ticket[r] EXCEPT !.left = @ - 1]
                               ELSE ticket[r]
                BY <1>22 DEF Tick
            <4> QED
                BY <4>1, <4>2
        <3> QED
            BY <3>1, <1>22 DEF Tick
    <2>2. timer' \in Nat \union {NoTimer}
        BY <1>22 DEF Tick, TypeOK, NoTimer
    <2>3. UNCHANGED <<budgetVars, job, nextOrder, streak, competing, sched,
                      tasks, active, notified, callVars, ownerVars>>
        BY <1>22 DEF Tick
    <2>4. TypeOK'
        BY <2>1, <2>2, <2>3
        DEF TypeOK, budgetVars, callVars, ownerVars
    <2>5. BudgetAccounting'
        BY <2>3, QuietStep DEF budgetVars
    <2>6. OneSelected' /\ StreakBelowLimit' /\ IdleAbsent'
        BY <2>3
        DEF OneSelected, StreakBelowLimit, IdleAbsent, ClassOf, callVars
    <2> QED
        BY <2>4, <2>5, <2>6
<1>23. ASSUME NEW r \in Requests, Admit(r) PROVE CoreInv'
    <2>1. Swept \in SUBSET Queued /\ Swept \in SUBSET Requests
        BY SweptQueued
    <2>2. r \notin Holding
        BY <1>23 DEF Admit, Enqueues, IdleAbsent, Holding
    <2>3. BudgetAccounting' /\ outstanding' \in [Budgets -> Nat]
        BY <1>23, <2>1, <2>2, AdmissionAccounting DEF Admit, schedVars
    <2>4. ticket' \in [Requests -> [order : Nat, left : Nat]]
        <3>1. MaxWait[ClassOf(r)] \in Nat
            BY GatewayAssumption DEF GatewayAssumption, ClassOf
        <3>2. [order |-> nextOrder, left |-> MaxWait[ClassOf(r)]]
                \in [order : Nat, left : Nat]
            BY <3>1 DEF TypeOK
        <3>3. Forgotten(Swept) \in [Requests -> [order : Nat, left : Nat]]
            BY <2>1, HelperTypes DEF Replies
        <3> QED
            BY <1>23, <3>2, <3>3 DEF Admit
    <2>5. /\ Removed(Swept) \in [Requests -> JobStates]
          /\ Sent(Swept, "queue_timeout") \in [Requests -> Replies]
        BY <2>1, HelperTypes DEF Replies, NotStarted
    <2>6. TypeOK'
        BY <1>23, <2>3, <2>4, <2>5
        DEF Admit, TypeOK, JobStates, schedVars, ownerVars
    <2>7. OneSelected' /\ StreakBelowLimit' /\ IdleAbsent'
        BY <1>23, <2>1
        DEF Admit, Enqueues, LockFree, OneSelected, StreakBelowLimit,
            IdleAbsent, TypeOK, Removed, Queued, ClassOf, schedVars
    <2> QED
        BY <2>3, <2>6, <2>7
<1>24. ASSUME Pop PROVE CoreInv'
    <2> DEFINE waiting == Queued \ Swept
               interactive == waiting \intersect OfClass("interactive")
               agents == waiting \intersect OfClass("agent")
               first == PicksInteractive(Mode, streak, Orders(interactive),
                                         Orders(agents))
    <2>1. PICK r \in Requests :
            /\ r \in IF first THEN interactive ELSE agents
            /\ job' = [Removed(Swept) EXCEPT ![r] = "selected"]
        BY <1>24 DEF Pop, Queued
    <2>2. /\ sched = "fill" /\ sched' = "handoff"
          /\ outstanding' = Freed(Swept)
          /\ ticket' = Forgotten(Swept)
          /\ reply' = Sent(Swept, "queue_timeout")
          /\ competing' = (interactive # {} /\ agents # {})
          /\ UNCHANGED <<maximum, revision, nextOrder, streak, tasks, active,
                         timer, notified, call, started, ownerVars>>
        BY <1>24 DEF Pop
    <2>3. Swept \in SUBSET Queued /\ Swept \in SUBSET Requests
        BY SweptQueued
    <2>4. job[r] = "queued" /\ r \notin Swept
        BY <2>1 DEF Queued
    <2>5. Holding' = Holding \ Swept /\ Running' = Running \ Swept
        BY <2>1, <2>3, <2>4 DEF Holding, Running, Queued, Removed, TypeOK
    <2>6. Swept \in SUBSET Holding /\ Running \ Swept = Running
        BY <2>3 DEF Queued, Holding, Running
    <2>7. BudgetAccounting' /\ outstanding' \in [Budgets -> Nat]
        BY <2>2, <2>5, <2>6, RemovalAccounting DEF BudgetAccounting
    <2>8. /\ Removed(Swept) \in [Requests -> JobStates]
          /\ ticket' \in [Requests -> [order : Nat, left : Nat]]
          /\ reply' \in [Requests -> Replies]
        BY <2>2, <2>3, HelperTypes DEF Replies, NotStarted
    <2>9. competing' \in BOOLEAN
        BY <2>2
    <2>10. TypeOK'
        BY <2>1, <2>2, <2>7, <2>8, <2>9
        DEF TypeOK, JobStates, ownerVars
    <2>11. \A q \in Requests : job'[q] = "selected" <=> q = r
        BY <2>1, <2>2, <2>3, <2>4 DEF OneSelected, Removed, Queued, TypeOK
    <2>12. OneSelected'
        BY <2>2, <2>11 DEF OneSelected
    <2>13. IdleAbsent'
        BY <2>1, <2>2, <2>3, <2>4 DEF IdleAbsent, Removed, Queued, TypeOK
    <2>14. StreakBelowLimit'
        <3> SUFFICES ASSUME Mode = "weighted", competing',
                            ClassOf(r) = "interactive"
                     PROVE  streak < StreakLimit
            BY <2>2, <2>11 DEF StreakBelowLimit, ClassOf
        <3>1. agents # {}
            BY <2>2
        <3>2. Orders(agents) # {}
            BY <3>1 DEF Orders
        <3>3. r \in interactive
            BY <2>1 DEF OfClass
        <3>4. first
            BY <2>1, <3>3 DEF OfClass
        <3> QED
            BY <3>2, <3>4 DEF PicksInteractive
    <2> QED
        BY <2>7, <2>10, <2>12, <2>13, <2>14
<1>25. ASSUME NEW r \in Requests, Discard(r) PROVE CoreInv'
    <2>1. {r} \in SUBSET Holding /\ {r} \in SUBSET Requests /\ r \notin Running
        BY <1>25 DEF Discard, Holding, Running
    <2>2. Holding' = Holding \ {r} /\ Running' = Running \ {r}
        BY <1>25, <2>1, RemovedHolding DEF Discard
    <2>3. BudgetAccounting' /\ outstanding' \in [Budgets -> Nat]
        <3>1. active' = Cardinality(Running \ {r})
            <4>1. Running \ {r} = Running
                BY <2>1
            <4> QED
                BY <1>25, <4>1 DEF Discard, BudgetAccounting
        <3> QED
            BY <1>25, <2>1, <2>2, <3>1, RemovalAccounting DEF Discard
    <2>4. /\ Removed({r}) \in [Requests -> JobStates]
          /\ Forgotten({r}) \in [Requests -> [order : Nat, left : Nat]]
          /\ Sent({r}, "queue_timeout") \in [Requests -> Replies]
        BY <2>1, HelperTypes DEF Replies, NotStarted
    <2>5. TypeOK'
        BY <1>25, <2>3, <2>4 DEF Discard, TypeOK, ownerVars
    <2>6. \A q \in Requests : job'[q] # "selected"
        BY <1>25 DEF Discard, OneSelected, Removed, TypeOK
    <2>7. IdleAbsent'
        BY <1>25 DEF Discard, IdleAbsent, Removed, TypeOK
    <2> QED
        BY <2>3, <2>5, <2>6, <2>7 DEF OneSelected, StreakBelowLimit
<1>26. ASSUME NEW r \in Requests, Handoff(r) PROVE CoreInv'
    <2>1. /\ Holding' = Holding
          /\ Running' = Running \union {r}
          /\ r \notin Running
        BY <1>26 DEF Handoff, Holding, Running, TypeOK
    <2>2. active' = Cardinality(Running')
        <3>1. IsFiniteSet(Running)
            BY FiniteRequests DEF Running
        <3> QED
            BY <1>26, <2>1, <3>1, FS_AddElement DEF Handoff, BudgetAccounting
    <2>3. BudgetAccounting'
        BY <1>26, <2>1, <2>2 DEF Handoff, BudgetAccounting, budgetVars, Of
    <2>4. streak' \in 0 .. StreakLimit
        <3>1. CASE Mode = "weighted" /\ competing /\ ClassOf(r) = "interactive"
            <4>1. streak' = streak + 1
                BY <1>26, <3>1 DEF Handoff, NextStreak
            <4>2. streak < StreakLimit
                BY <1>26, <3>1 DEF Handoff, StreakBelowLimit
            <4> QED
                BY <4>1, <4>2 DEF TypeOK, StreakLimit
        <3>2. CASE ~(Mode = "weighted" /\ competing /\ ClassOf(r) = "interactive")
            BY <1>26, <3>2 DEF Handoff, NextStreak, StreakLimit
        <3> QED
            BY <3>1, <3>2
    <2>5. ticket' \in [Requests -> [order : Nat, left : Nat]]
        BY <1>26, HelperTypes DEF Handoff, Replies
    <2>6. TypeOK'
        <3>1. /\ active' \in Nat
              /\ job' \in [Requests -> JobStates]
              /\ tasks' \subseteq Requests /\ started' \subseteq Requests
            BY <1>26 DEF Handoff, TypeOK, JobStates
        <3> QED
            BY <1>26, <2>4, <2>5, <3>1
            DEF Handoff, TypeOK, budgetVars, ownerVars
    <2>7. \A q \in Requests : job'[q] # "selected"
        BY <1>26 DEF Handoff, OneSelected, TypeOK
    <2>8. IdleAbsent'
        BY <1>26 DEF Handoff, IdleAbsent, TypeOK
    <2> QED
        BY <2>3, <2>6, <2>7, <2>8 DEF OneSelected, StreakBelowLimit
<1>27. ASSUME NEW r \in Requests, Release(r) PROVE CoreInv'
    <2>1. {r} \in SUBSET Holding /\ {r} \in SUBSET Requests /\ r \in Running
        BY <1>27 DEF Release, Holding, Running
    <2>2. Holding' = Holding \ {r} /\ Running' = Running \ {r}
        BY <1>27 DEF Release, Removed, Holding, Running, TypeOK
    <2>3. active' = Cardinality(Running \ {r}) /\ active' \in Nat
        <3>1. IsFiniteSet(Running) /\ Running \ {r} \in SUBSET Requests
            BY FiniteRequests DEF Running
        <3>2. Cardinality(Running \ {r}) = Cardinality(Running) - 1
            BY <2>1, <3>1, FS_RemoveElement
        <3>3. Cardinality(Running \ {r}) \in Nat
            BY <3>1, FiniteRequests
        <3> QED
            BY <1>27, <3>2, <3>3 DEF Release, BudgetAccounting
    <2>4. BudgetAccounting' /\ outstanding' \in [Budgets -> Nat]
        BY <1>27, <2>1, <2>2, <2>3, RemovalAccounting DEF Release
    <2>5. /\ Removed({r}) \in [Requests -> JobStates]
          /\ Sent({r}, "internal_error") \in [Requests -> Replies]
        BY <2>1, HelperTypes DEF Replies, Unknown
    <2>6. TypeOK'
        BY <1>27, <2>3, <2>4, <2>5
        DEF Release, TypeOK, JobStates, callVars, ownerVars
    <2>7. \A q \in Requests : job'[q] = "selected" <=> job[q] = "selected"
        BY <1>27 DEF Release, Removed, TypeOK
    <2>8. OneSelected' /\ StreakBelowLimit'
        BY <1>27, <2>7 DEF Release, OneSelected, StreakBelowLimit, ClassOf
    <2>9. IdleAbsent'
        BY <1>27 DEF Release, IdleAbsent, Removed, callVars, TypeOK
    <2> QED
        BY <2>4, <2>6, <2>8, <2>9
<1>28. ASSUME NEW r \in Requests, Unwind(r) PROVE CoreInv'
    <2>1. {r} \in SUBSET Holding /\ {r} \in SUBSET Requests /\ r \in Running
        BY <1>28 DEF Unwind, Holding, Running
    <2>2. Holding' = Holding \ {r} /\ Running' = Running \ {r}
        BY <1>28 DEF Unwind, Removed, Holding, Running, TypeOK
    <2>3. active' = Cardinality(Running \ {r}) /\ active' \in Nat
        <3>1. IsFiniteSet(Running) /\ Running \ {r} \in SUBSET Requests
            BY FiniteRequests DEF Running
        <3>2. Cardinality(Running \ {r}) = Cardinality(Running) - 1
            BY <2>1, <3>1, FS_RemoveElement
        <3>3. Cardinality(Running \ {r}) \in Nat
            BY <3>1, FiniteRequests
        <3> QED
            BY <1>28, <3>2, <3>3 DEF Unwind, BudgetAccounting
    <2>4. BudgetAccounting' /\ outstanding' \in [Budgets -> Nat]
        BY <1>28, <2>1, <2>2, <2>3, RemovalAccounting DEF Unwind
    <2>5. /\ Removed({r}) \in [Requests -> JobStates]
          /\ Sent({r}, "internal_error") \in [Requests -> Replies]
        BY <2>1, HelperTypes DEF Replies, Unknown
    <2>6. TypeOK'
        BY <1>28, <2>3, <2>4, <2>5
        DEF Unwind, TypeOK, JobStates, callVars, ownerVars
    <2>7. \A q \in Requests : job'[q] = "selected" <=> job[q] = "selected"
        BY <1>28 DEF Unwind, Removed, TypeOK
    <2>8. OneSelected' /\ StreakBelowLimit'
        BY <1>28, <2>7 DEF Unwind, OneSelected, StreakBelowLimit, ClassOf
    <2>9. IdleAbsent'
        BY <1>28 DEF Unwind, IdleAbsent, Removed, callVars, TypeOK
    <2> QED
        BY <2>4, <2>6, <2>8, <2>9
<1>29. ASSUME NEW r \in Requests, Answer(r) PROVE CoreInv'
    <2>1. /\ Holding' = Holding /\ Running' = Running
          /\ UNCHANGED <<outstanding, active>>
        BY <1>29 DEF Answer, Holding, Running, TypeOK, budgetVars, schedVars
    <2>2. BudgetAccounting'
        BY <2>1 DEF BudgetAccounting, Of
    <2>3. reply' \in [Requests -> Replies]
        <3>1. PICK what \in Outcomes : reply' = Sent({r}, what)
            BY <1>29 DEF Answer
        <3>2. what \in Replies
            BY GatewayAssumption DEF GatewayAssumption, Replies, Unknown
        <3> QED
            BY <3>1, <3>2, HelperTypes
    <2>4. TypeOK'
        BY <1>29, <2>3
        DEF Answer, TypeOK, JobStates, budgetVars, schedVars, ownerVars
    <2>5. \A q \in Requests : job'[q] = "selected" <=> job[q] = "selected"
        BY <1>29 DEF Answer, TypeOK
    <2>6. OneSelected' /\ StreakBelowLimit'
        BY <1>29, <2>5
        DEF Answer, OneSelected, StreakBelowLimit, ClassOf, schedVars
    <2>7. IdleAbsent'
        BY <1>29 DEF Answer, IdleAbsent, TypeOK
    <2> QED
        BY <2>2, <2>4, <2>6, <2>7
<1>30. CASE UNCHANGED vars
    <2>1. UNCHANGED <<budgetVars, queueVars, schedVars, notified, callVars,
                      ownerVars>>
        BY <1>30 DEF vars
    <2>2. TypeOK'
        BY <2>1
        DEF TypeOK, budgetVars, queueVars, schedVars, callVars, ownerVars
    <2>3. BudgetAccounting'
        BY <2>1, QuietStep DEF budgetVars, queueVars, schedVars
    <2>4. OneSelected' /\ StreakBelowLimit' /\ IdleAbsent'
        BY <2>1
        DEF OneSelected, StreakBelowLimit, IdleAbsent, ClassOf, queueVars,
            schedVars, callVars
    <2> QED
        BY <2>2, <2>3, <2>4
<1> QED
    BY <1>1, <1>2, <1>3, <1>4, <1>5, <1>6, <1>7, <1>8, <1>9, <1>10, <1>11,
       <1>12, <1>13, <1>14, <1>15, <1>16, <1>17, <1>18, <1>19, <1>20, <1>21,
       <1>22, <1>23, <1>24, <1>25, <1>26, <1>27, <1>28, <1>29, <1>30
    DEF Next, Handler, Executor, Scheduler

\* Every value stays in its type, and the slot and executor counters are exact
\* in every reachable state: Permit and Active are dropped once per job.
THEOREM Accounting == Spec => []CoreInv
<1> QED
    BY CoreInit, CoreStep, PTL DEF Spec

\* No step of handlers, scheduler, executors or owner leaves the types: neither
\* Permit::drop nor Active::drop takes a counter below zero, and the streak of
\* pop_next never passes its limit.
THEOREM TypeCorrect == Spec => []TypeOK
<1>1. CoreInv => TypeOK
    BY DEF CoreInv
<1> QED
    BY <1>1, Accounting, PTL

\* Permit::drop never underflows and no path leaks a slot: each budget counts
\* exactly the queued, selected and running jobs drawn on it.
THEOREM SlotsAccounted == Spec => []BudgetAccounting
<1>1. CoreInv => BudgetAccounting
    BY DEF CoreInv
<1> QED
    BY <1>1, Accounting, PTL

-----------------------------------------------------------------------------
(* Certainty about execution.                                              *)

\* Where a request is in its life determines whether it was started and
\* whether its caller may have heard: the strengthening that makes
\* ExecutionCertainty inductive.
RequestConsistent(r) ==
    /\ job[r] \in {"absent", "queued", "selected"} => r \notin started
    /\ job[r] \in {"running", "released"} => r \in started
    /\ job[r] \in {"queued", "selected", "running", "released"} =>
        reply[r] = "none"
    /\ call[r] = "idle" => job[r] = "absent" /\ reply[r] = "none"
    /\ reply[r] \in NotStarted => r \notin started
    /\ reply[r] \in Unknown \union {"completed"} => r \in started

CertaintyInv == \A r \in Requests : RequestConsistent(r)

\* Removing waiting jobs tells their callers that nothing was started.
LEMMA RemovalConsistent ==
    ASSUME TypeOK, CertaintyInv, NEW gone \in SUBSET Requests,
           \A r \in gone : job[r] \in {"queued", "selected"},
           NEW what \in NotStarted,
           NEW q \in Requests,
           job'[q] = Removed(gone)[q], reply'[q] = Sent(gone, what)[q],
           UNCHANGED started, UNCHANGED call
    PROVE  RequestConsistent(q)'
BY DEF CertaintyInv, RequestConsistent, Removed, Sent, TypeOK, JobStates,
    NotStarted, Unknown

\* A step that starts and answers nobody.
LEMMA SilentConsistent ==
    ASSUME TypeOK, CertaintyInv, NEW q \in Requests,
           UNCHANGED <<job, reply, started>>,
           call'[q] = "idle" => call[q] = "idle"
    PROVE  RequestConsistent(q)'
BY DEF CertaintyInv, RequestConsistent

\* An immediate refusal of r, with or without a sweep before it.
LEMMA RefusalConsistent ==
    ASSUME TypeOK, CertaintyInv, NEW gone \in SUBSET Queued,
           NEW r \in Requests, call[r] = "idle", NEW what \in NotStarted,
           job' = Removed(gone),
           reply' = [Sent(gone, "queue_timeout") EXCEPT ![r] = what],
           call' = [call EXCEPT ![r] = "answered"],
           UNCHANGED started
    PROVE  CertaintyInv'
BY DEF CertaintyInv, RequestConsistent, Removed, Sent, Queued, TypeOK,
    JobStates, NotStarted, Unknown

\* Before anything is submitted nobody was started or answered.
LEMMA CertaintyInit == Init => CertaintyInv
BY DEF Init, CertaintyInv, RequestConsistent, NotStarted, Unknown

\* Every step keeps job, history and answer of each request in agreement.
LEMMA CertaintyStep == CoreInv /\ CertaintyInv /\ [Next]_vars => CertaintyInv'
<1> SUFFICES ASSUME CoreInv, CertaintyInv, [Next]_vars PROVE CertaintyInv'
    OBVIOUS
<1>1. TypeOK /\ TypeOK'
    BY CoreStep DEF CoreInv
<1>2. Swept \in SUBSET Queued /\ Queued \in SUBSET Requests
    BY SweptQueued
<1>3. \A r \in Queued : job[r] \in {"queued", "selected"}
    BY DEF Queued
<1>4. ASSUME NEW r \in Requests, RejectTest(r) PROVE CertaintyInv'
    BY <1>4, <1>1
    DEF RejectTest, Enqueues, CertaintyInv, RequestConsistent, queueVars, TypeOK,
        NotStarted, Unknown
<1>5. ASSUME NEW r \in Requests, RejectClosed(r) PROVE CertaintyInv'
    BY <1>5, <1>1
    DEF RejectClosed, Enqueues, CertaintyInv, RequestConsistent, queueVars, TypeOK,
        NotStarted, Unknown
<1>6. ASSUME NEW r \in Requests, RejectBudget(r) PROVE CertaintyInv'
    BY <1>6, <1>1, <1>2, RefusalConsistent DEF RejectBudget, Enqueues, NotStarted
<1>7. ASSUME NEW r \in Requests, RejectFull(r) PROVE CertaintyInv'
    BY <1>7, <1>1, <1>2, RefusalConsistent DEF RejectFull, Enqueues, NotStarted
<1>8. ASSUME NEW r \in Requests, Admit(r) PROVE CertaintyInv'
    <2>1. /\ call[r] = "idle" /\ call' = [call EXCEPT ![r] = "posting"]
          /\ job' = [Removed(Swept) EXCEPT ![r] = "queued"]
          /\ reply' = Sent(Swept, "queue_timeout")
          /\ UNCHANGED started
        BY <1>8 DEF Admit, Enqueues
    <2> QED
        BY <2>1, <1>1, <1>2
        DEF CertaintyInv, RequestConsistent, Removed, Sent, Queued, TypeOK,
            JobStates, NotStarted, Unknown
<1>9. ASSUME NEW r \in Requests, NotifyAdmission(r) PROVE CertaintyInv'
    BY <1>9, <1>1, SilentConsistent
    DEF NotifyAdmission, CertaintyInv, queueVars, TypeOK
<1>10. ASSUME NEW r \in Requests, Receive(r) PROVE CertaintyInv'
    BY <1>10, <1>1, SilentConsistent
    DEF Receive, CertaintyInv, queueVars, TypeOK
<1>11. ASSUME NEW r \in Requests, Cancel(r) PROVE CertaintyInv'
    BY <1>11, <1>1, SilentConsistent
    DEF Cancel, CertaintyInv, queueVars, TypeOK
<1>12. ASSUME SchedLock PROVE CertaintyInv'
    <2>1. /\ job' = Removed(Swept) /\ reply' = Sent(Swept, "queue_timeout")
          /\ UNCHANGED <<started, call>>
        BY <1>12 DEF SchedLock, Maintain
    <2> QED
        BY <2>1, <1>1, <1>2, <1>3, RemovalConsistent
        DEF CertaintyInv, NotStarted
<1>13. ASSUME PopNothing PROVE CertaintyInv'
    <2>1. /\ job' = Removed(Swept) /\ reply' = Sent(Swept, "queue_timeout")
          /\ UNCHANGED <<started, call>>
        BY <1>13 DEF PopNothing, Maintain
    <2> QED
        BY <2>1, <1>1, <1>2, <1>3, RemovalConsistent
        DEF CertaintyInv, NotStarted
<1>14. ASSUME DropUnlocked PROVE CertaintyInv'
    <2>1. /\ job' = Removed(Queued) /\ reply' = Sent(Queued, "gateway_closed")
          /\ UNCHANGED <<started, call>>
        BY <1>14 DEF DropUnlocked, RejectPending
    <2> QED
        BY <2>1, <1>1, <1>2, <1>3, RemovalConsistent
        DEF CertaintyInv, NotStarted
<1>15. ASSUME CleanUp PROVE CertaintyInv'
    <2>1. /\ job' = Removed(Queued) /\ reply' = Sent(Queued, "gateway_closed")
          /\ UNCHANGED <<started, call>>
        BY <1>15 DEF CleanUp, RejectPending
    <2> QED
        BY <2>1, <1>1, <1>2, <1>3, RemovalConsistent
        DEF CertaintyInv, NotStarted
<1>16. ASSUME Pop PROVE CertaintyInv'
    <2>1. PICK r \in Requests :
            /\ job[r] = "queued" /\ r \notin Swept
            /\ job' = [Removed(Swept) EXCEPT ![r] = "selected"]
        BY <1>16 DEF Pop, Queued
    <2>2. reply' = Sent(Swept, "queue_timeout") /\ UNCHANGED <<started, call>>
        BY <1>16 DEF Pop
    <2>3. ASSUME NEW q \in Requests, q # r PROVE RequestConsistent(q)'
        <3>1. job'[q] = Removed(Swept)[q]
            BY <2>1, <2>3 DEF Removed
        <3> QED
            BY <2>2, <3>1, <1>1, <1>2, <1>3, RemovalConsistent DEF NotStarted
    <2>4. RequestConsistent(r)'
        BY <2>1, <2>2, <1>1
        DEF CertaintyInv, RequestConsistent, Removed, Sent, TypeOK, JobStates
    <2> QED
        BY <2>3, <2>4 DEF CertaintyInv
<1>17. ASSUME NEW r \in Requests, Discard(r) PROVE CertaintyInv'
    BY <1>17, <1>1, RemovalConsistent DEF Discard, CertaintyInv, NotStarted
<1>18. ASSUME NEW r \in Requests, Handoff(r) PROVE CertaintyInv'
    <2>1. /\ job[r] = "selected" /\ job' = [job EXCEPT ![r] = "running"]
          /\ started' = started \union {r}
          /\ UNCHANGED <<call, reply>>
        BY <1>18 DEF Handoff
    <2>2. ASSUME NEW q \in Requests, q # r PROVE RequestConsistent(q)'
        <3>1. job'[q] = job[q] /\ (q \in started' <=> q \in started)
            BY <2>1, <2>2, <1>1 DEF TypeOK
        <3> QED
            BY <2>1, <3>1 DEF CertaintyInv, RequestConsistent
    <2>3. RequestConsistent(r)'
        <3>1. job'[r] = "running" /\ r \in started'
            BY <2>1, <1>1 DEF TypeOK
        <3> QED
            BY <2>1, <3>1 DEF CertaintyInv, RequestConsistent, NotStarted
    <2> QED
        BY <2>2, <2>3 DEF CertaintyInv
<1>19. ASSUME NEW r \in Requests, Release(r) PROVE CertaintyInv'
    BY <1>19, <1>1
    DEF Release, CertaintyInv, RequestConsistent, TypeOK, JobStates, callVars
<1>20. ASSUME NEW r \in Requests, Answer(r) PROVE CertaintyInv'
    <2>1. PICK what \in Outcomes : reply' = Sent({r}, what)
        BY <1>20 DEF Answer
    <2>2. what \in Unknown \union {"completed"} /\ what \notin NotStarted
        BY GatewayAssumption DEF GatewayAssumption, Unknown, NotStarted
    <2>3. /\ job[r] = "released" /\ job' = [job EXCEPT ![r] = "gone"]
          /\ UNCHANGED <<call, started>>
        BY <1>20 DEF Answer
    <2> QED
        BY <2>1, <2>2, <2>3, <1>1
        DEF CertaintyInv, RequestConsistent, Sent, TypeOK, JobStates
<1>21. ASSUME NEW r \in Requests, Unwind(r) PROVE CertaintyInv'
    BY <1>21, <1>1
    DEF Unwind, CertaintyInv, RequestConsistent, Removed, Sent, TypeOK,
        JobStates, NotStarted, Unknown
<1>22. ASSUME NEW b \in Budgets, SetLimit(b) PROVE CertaintyInv'
    BY <1>22, <1>1, SilentConsistent
    DEF SetLimit, CertaintyInv, queueVars, callVars
<1>23. ASSUME \/ FillDone \/ SchedStop \/ SchedSleep
             \/ WakeNotified \/ WakeJoined \/ WakeTimer \/ SchedAbort
             \/ Close \/ DropLocked \/ Tick
      PROVE  CertaintyInv'
    <2>1. UNCHANGED <<job, reply, started, call>>
        BY <1>23
        DEF FillDone, SchedStop, SchedSleep, Wakes, WakeNotified, WakeJoined,
            WakeTimer, SchedAbort, Close, DropLocked, Tick, queueVars,
            callVars
    <2> QED
        BY <2>1, <1>1, SilentConsistent DEF CertaintyInv
<1>24. CASE UNCHANGED vars
    BY <1>24, <1>1, SilentConsistent
    DEF vars, CertaintyInv, queueVars, callVars
<1> QED
    BY <1>4, <1>5, <1>6, <1>7, <1>8, <1>9, <1>10, <1>11, <1>12, <1>13, <1>14,
       <1>15, <1>16, <1>17, <1>18, <1>19, <1>20, <1>21, <1>22, <1>23, <1>24
    DEF Next, Handler, Executor, Scheduler

\* A caller that heard "not_started" never had, and never will have, its work
\* executed; one that heard an outcome did.  Retries rest on this.
THEOREM Certainty == Spec => []ExecutionCertainty
<1>1. CertaintyInv => ExecutionCertainty
    BY DEF CertaintyInv, RequestConsistent, ExecutionCertainty
<1> QED
    BY <1>1, CoreInit, CoreStep, CertaintyInit, CertaintyStep, PTL DEF Spec

\* Whoever was answered no longer occupies a slot of the budget.
THEOREM SlotFirst == Spec => []SlotFreedBeforeReply
<1>1. CertaintyInv => SlotFreedBeforeReply
    BY DEF CertaintyInv, RequestConsistent, SlotFreedBeforeReply, Holding
<1> QED
    BY <1>1, CoreInit, CoreStep, CertaintyInit, CertaintyStep, PTL DEF Spec

-----------------------------------------------------------------------------
(* How jobs and the scheduler move.                                        *)

\* The life of a job: each arrow is taken by the task that owns the job then.
JobMove(r) ==
    \/ job'[r] = job[r]
    \/ /\ job[r] = "absent" /\ job'[r] = "queued"
       /\ ~closing /\ LockFree /\ call'[r] = "posting"
    \/ job[r] = "queued" /\ job'[r] = "gone"
    \/ job[r] = "queued" /\ job'[r] = "selected" /\ sched = "fill"
    \/ job[r] = "selected" /\ job'[r] = "gone"
    \/ /\ job[r] = "selected" /\ job'[r] = "running"
       /\ sched = "handoff" /\ sched' = "fill" /\ tasks' = tasks \union {r}
    \/ job[r] = "running" /\ job'[r] \in {"released", "gone"}
    \/ job[r] = "released" /\ job'[r] = "gone"

\* Steps that only drop waiting jobs, or touch none.
LEMMA RemovalMoves ==
    ASSUME TypeOK, NEW gone \in SUBSET Queued, NEW r \in Requests,
           job'[r] = Removed(gone)[r]
    PROVE  JobMove(r)
BY DEF JobMove, Removed, Queued

\* No step moves a job otherwise.
LEMMA JobMoves ==
    ASSUME CoreInv, [Next]_vars, NEW r \in Requests
    PROVE  JobMove(r)
<1>1. TypeOK /\ OneSelected /\ IdleAbsent
    BY DEF CoreInv
<1>2. Swept \in SUBSET Queued /\ Queued \in SUBSET Requests
    BY SweptQueued
<1>3. ASSUME NEW q \in Requests, RejectBudget(q) \/ RejectFull(q)
      PROVE  JobMove(r)
    BY <1>1, <1>2, <1>3, RemovalMoves DEF RejectBudget, RejectFull
<1>4. ASSUME NEW q \in Requests, Admit(q) PROVE JobMove(r)
    <2>1. /\ job' = [Removed(Swept) EXCEPT ![q] = "queued"]
          /\ call[q] = "idle" /\ call' = [call EXCEPT ![q] = "posting"]
          /\ ~closing /\ LockFree
        BY <1>4 DEF Admit, Enqueues
    <2>2. CASE q = r
        <3>1. job[r] = "absent"
            BY <2>1, <2>2, <1>1 DEF IdleAbsent
        <3>2. job'[r] = "queued" /\ call'[r] = "posting"
            BY <2>1, <2>2, <1>1 DEF TypeOK, Removed
        <3> QED
            BY <2>1, <3>1, <3>2 DEF JobMove
    <2>3. CASE q # r
        <3>1. job'[r] = Removed(Swept)[r]
            BY <2>1, <2>3 DEF Removed
        <3> QED
            BY <3>1, <1>1, <1>2, RemovalMoves
    <2> QED
        BY <2>2, <2>3
<1>5. ASSUME SchedLock \/ PopNothing PROVE JobMove(r)
    BY <1>1, <1>2, <1>5, RemovalMoves DEF SchedLock, PopNothing, Maintain
<1>6. ASSUME DropUnlocked \/ CleanUp PROVE JobMove(r)
    BY <1>1, <1>2, <1>6, RemovalMoves DEF DropUnlocked, CleanUp, RejectPending
<1>7. ASSUME Pop PROVE JobMove(r)
    <2>1. PICK q \in Requests :
            /\ job[q] = "queued" /\ q \notin Swept
            /\ job' = [Removed(Swept) EXCEPT ![q] = "selected"]
        BY <1>7 DEF Pop, Queued
    <2>2. sched = "fill"
        BY <1>7 DEF Pop
    <2>3. CASE q = r
        BY <2>1, <2>2, <2>3, <1>1 DEF JobMove, Removed
    <2>4. CASE q # r
        <3>1. job'[r] = Removed(Swept)[r]
            BY <2>1, <2>4 DEF Removed
        <3> QED
            BY <3>1, <1>1, <1>2, RemovalMoves
    <2> QED
        BY <2>3, <2>4
<1>8. ASSUME NEW q \in Requests, Discard(q) \/ Unwind(q) PROVE JobMove(r)
    BY <1>8 DEF Discard, Unwind, JobMove, Removed
<1>9. ASSUME NEW q \in Requests, Handoff(q) PROVE JobMove(r)
    BY <1>9, <1>1 DEF Handoff, JobMove, TypeOK
<1>10. ASSUME NEW q \in Requests, Release(q) \/ Answer(q) PROVE JobMove(r)
    BY <1>10, <1>1 DEF Release, Answer, JobMove, TypeOK
<1>11. ASSUME UNCHANGED job PROVE JobMove(r)
    BY <1>11 DEF JobMove
<1>12. ASSUME NEW q \in Requests,
              \/ RejectTest(q) \/ RejectClosed(q) \/ NotifyAdmission(q)
              \/ Receive(q) \/ Cancel(q)
       PROVE  UNCHANGED job
    BY <1>12 DEF RejectTest, RejectClosed, NotifyAdmission, Receive, Cancel,
        queueVars
<1>13. ASSUME \/ FillDone \/ SchedStop \/ SchedSleep
              \/ WakeNotified \/ WakeJoined \/ WakeTimer \/ SchedAbort
              \/ Close \/ DropLocked \/ Tick
              \/ \E b \in Budgets : SetLimit(b)
              \/ UNCHANGED vars
       PROVE  UNCHANGED job
    BY <1>13 DEF FillDone, SchedStop, SchedSleep, Wakes, WakeNotified,
        WakeJoined, WakeTimer, SchedAbort, Close, DropLocked, Tick, SetLimit,
        queueVars, vars
<1> QED
    BY <1>3, <1>4, <1>5, <1>6, <1>7, <1>8, <1>9, <1>10, <1>11, <1>12, <1>13
    DEF Next, Handler, Executor, Scheduler

\* The scheduler's control flow, with what it does to its JoinSet.
SchedMove ==
    \/ UNCHANGED <<sched, tasks>>
    \/ sched = "lock" /\ sched' = "fill" /\ tasks' = tasks
    \/ /\ sched = "fill" /\ sched' = "handoff" /\ tasks' = tasks
       /\ Cardinality(tasks) < ExecutionLimit
    \/ /\ sched = "fill" /\ sched' = "exit" /\ tasks' = tasks
       /\ Cardinality(tasks) < ExecutionLimit => Queued' = {}
    \/ sched = "handoff" /\ sched' = "fill" /\ tasks' = tasks
    \/ /\ sched = "handoff" /\ sched' = "fill"
       /\ \E r \in Requests : tasks' = tasks \union {r}
    \/ sched = "exit" /\ sched' = "stopped" /\ tasks' = tasks /\ Drained
    \/ sched = "exit" /\ sched' = "select" /\ tasks' = tasks
    \/ sched = "select" /\ sched' = "lock" /\ tasks' = tasks \ Finished
    \/ sched \in {"lock", "select"} /\ sched' = "aborted" /\ tasks' = {}

\* To the scheduler, every step of the system is one of these.
LEMMA SchedMoves == CoreInv /\ [Next]_vars => SchedMove
<1> SUFFICES ASSUME CoreInv, [Next]_vars PROVE SchedMove
    OBVIOUS
<1>1. CASE Pop
    BY <1>1 DEF Pop, SchedMove
<1>2. CASE PopNothing
    <2>1. Queued \ Swept = {} /\ job' = Removed(Swept)
        BY <1>2 DEF PopNothing, Maintain
    <2>2. Queued' = {}
        BY <2>1 DEF Queued, Removed, Swept
    <2> QED
        BY <1>2, <2>2 DEF PopNothing, SchedMove
<1>3. CASE FillDone
    <2>1. tasks \in SUBSET Requests
        BY DEF CoreInv, TypeOK
    <2>2. ~(Cardinality(tasks) < ExecutionLimit)
        BY <1>3, <2>1, FiniteRequests, GatewayAssumption
        DEF FillDone, GatewayAssumption
    <2> QED
        BY <1>3, <2>2 DEF FillDone, SchedMove
<1>4. CASE \/ SchedLock \/ \E r \in Requests : Discard(r) \/ Handoff(r)
    BY <1>4 DEF SchedLock, Discard, Handoff, SchedMove
<1>5. CASE \/ SchedStop \/ SchedSleep \/ WakeNotified \/ WakeJoined
           \/ WakeTimer \/ SchedAbort
    BY <1>5 DEF SchedStop, SchedSleep, Wakes, WakeNotified, WakeJoined,
        WakeTimer, SchedAbort, SchedMove
<1>6. CASE \/ \E r \in Requests : Handler(r) \/ Executor(r)
           \/ \E b \in Budgets : SetLimit(b)
           \/ Close \/ DropLocked \/ DropUnlocked \/ CleanUp \/ Tick
           \/ UNCHANGED vars
    <2>1. UNCHANGED <<sched, tasks>>
        BY <1>6 DEF Handler, RejectTest, RejectClosed, RejectBudget,
            RejectFull, Admit, NotifyAdmission, Receive, Cancel, Executor,
            Release, Unwind, Answer, SetLimit, Close, DropLocked,
            DropUnlocked, CleanUp, Tick, schedVars, vars
    <2> QED
        BY <2>1 DEF SchedMove
<1> QED
    BY <1>1, <1>2, <1>3, <1>4, <1>5, <1>6 DEF Next, Scheduler

-----------------------------------------------------------------------------
(* Limits.                                                                 *)

\* While the scheduler lives, its JoinSet knows every executor.
TasksCover ==
    sched # "aborted" =>
        \A r \in Requests : job[r] \in {"running", "released"} => r \in tasks

\* A job is only selected when an executor is free for it.
TasksBounded ==
    /\ Cardinality(tasks) <= ExecutionLimit
    /\ sched = "handoff" => Cardinality(tasks) < ExecutionLimit

\* The scheduler goes to sleep with nothing waiting or nobody to serve it.
ExitJustified ==
    sched = "exit" => Queued = {} \/ Cardinality(tasks) = ExecutionLimit

LimitInv ==
    /\ TasksCover
    /\ TasksBounded
    /\ ExitJustified
    /\ Bounded

\* Nothing runs at first.
LEMMA LimitInit == Init => LimitInv
<1> SUFFICES ASSUME Init PROVE LimitInv
    OBVIOUS
<1>1. /\ Queued = {} /\ Running = {} /\ tasks = {} /\ sched = "lock"
      /\ \A r \in Requests : job[r] = "absent"
    BY DEF Init, Queued, Running
<1>2. 0 <= ExecutionLimit /\ 0 <= QueueCapacity
    BY GatewayAssumption DEF GatewayAssumption
<1>3. \A class \in Classes : Queued \intersect OfClass(class) = {}
    BY <1>1
<1> QED
    BY <1>1, <1>2, <1>3, FS_EmptySet
    DEF LimitInv, TasksCover, TasksBounded, ExitJustified, Bounded

\* Reaping removes finished tasks only, spawning and tracking are one step.
LEMMA TasksCoverStep ==
    CoreInv /\ TasksCover /\ [Next]_vars => TasksCover'
<1> SUFFICES ASSUME CoreInv, TasksCover, [Next]_vars, sched' # "aborted",
                    NEW r \in Requests, job'[r] \in {"running", "released"}
             PROVE  r \in tasks'
    BY DEF TasksCover
<1>1. SchedMove /\ JobMove(r)
    BY SchedMoves, JobMoves
<1>2. sched # "aborted"
    BY <1>1 DEF SchedMove
<1>3. CASE job[r] = "selected"
    BY <1>1, <1>3 DEF JobMove
<1>4. CASE job[r] # "selected"
    <2>1. job[r] \in {"running", "released"}
        BY <1>1, <1>4 DEF JobMove
    <2>2. r \in tasks /\ r \notin Finished
        BY <1>2, <2>1 DEF TasksCover, Finished
    <2> QED
        BY <1>1, <2>2 DEF SchedMove
<1> QED
    BY <1>3, <1>4

\* Only a handoff adds a task, and a handoff follows a selection.
LEMMA TasksBoundedStep ==
    CoreInv /\ TasksBounded /\ [Next]_vars => TasksBounded'
<1> SUFFICES ASSUME CoreInv, TasksBounded, [Next]_vars PROVE TasksBounded'
    OBVIOUS
<1>1. SchedMove
    BY SchedMoves
<1>2. /\ tasks \in SUBSET Requests
      /\ Cardinality(tasks) \in Nat
      /\ ExecutionLimit \in Nat \ {0}
    BY FiniteRequests, GatewayAssumption DEF CoreInv, TypeOK, GatewayAssumption
<1>3. ASSUME NEW r \in Requests
      PROVE  Cardinality(tasks \union {r}) <= Cardinality(tasks) + 1
    BY <1>2, FiniteRequests, FS_AddElement
<1>4. ASSUME NEW S \in SUBSET Requests
      PROVE  Cardinality(tasks \ S) <= Cardinality(tasks)
    BY <1>2, FiniteRequests, FS_Subset
<1>5. Finished \in SUBSET Requests
    BY <1>2 DEF Finished
<1>6. CASE tasks' = tasks
    BY <1>1, <1>2, <1>6 DEF SchedMove, TasksBounded
<1>7. CASE tasks' # tasks
    <2>1. Cardinality({}) = 0
        BY FS_EmptySet
    <2>2. CASE \E r \in Requests : tasks' = tasks \union {r}
        <3>1. (sched = "handoff" /\ sched' # "handoff") \/ tasks' \subseteq tasks
            BY <1>1, <1>5 DEF SchedMove
        <3>2. CASE sched = "handoff" /\ sched' # "handoff"
            <4>1. PICK r \in Requests : tasks' = tasks \union {r}
                BY <2>2
            <4>2. Cardinality(tasks \union {r}) <= Cardinality(tasks) + 1
                BY <1>3
            <4>3. Cardinality(tasks \union {r}) \in Nat
                BY <1>2, FiniteRequests
            <4> QED
                BY <3>2, <4>1, <4>2, <4>3, <1>2 DEF TasksBounded
        <3>3. CASE tasks' \subseteq tasks
            BY <2>2, <1>7, <3>3
        <3> QED
            BY <3>1, <3>2, <3>3
    <2>3. CASE ~\E r \in Requests : tasks' = tasks \union {r}
        <3>1. /\ sched' # "handoff"
              /\ \/ \E S \in SUBSET Requests : tasks' = tasks \ S
                 \/ tasks' = {}
            BY <1>1, <1>5, <1>7, <2>3 DEF SchedMove
        <3>2. CASE tasks' = {}
            BY <3>1, <3>2, <2>1, <1>2 DEF TasksBounded
        <3>3. ASSUME NEW S \in SUBSET Requests, tasks' = tasks \ S
              PROVE  TasksBounded'
            <4>1. Cardinality(tasks \ S) <= Cardinality(tasks)
                BY <1>4
            <4>2. Cardinality(tasks \ S) \in Nat
                BY <1>2, FiniteRequests
            <4> QED
                BY <3>1, <3>3, <4>1, <4>2, <1>2 DEF TasksBounded
        <3> QED
            BY <3>1, <3>2, <3>3
    <2> QED
        BY <2>2, <2>3
<1> QED
    BY <1>6, <1>7

\* Nobody can enqueue while the scheduler holds the lock.
LEMMA ExitJustifiedStep ==
    CoreInv /\ TasksBounded /\ ExitJustified /\ [Next]_vars => ExitJustified'
<1> SUFFICES ASSUME CoreInv, TasksBounded, ExitJustified, [Next]_vars,
                    sched' = "exit"
             PROVE  Queued' = {} \/ Cardinality(tasks') = ExecutionLimit
    BY DEF ExitJustified
<1>1. SchedMove
    BY SchedMoves
<1>2. Cardinality(tasks) \in Nat /\ ExecutionLimit \in Nat
    BY FiniteRequests, GatewayAssumption DEF CoreInv, TypeOK, GatewayAssumption
<1>3. CASE sched = "exit"
    <2>1. tasks' = tasks
        BY <1>1, <1>3 DEF SchedMove
    <2>2. ASSUME NEW r \in Queued' PROVE r \in Queued
        BY <1>3, <2>2, JobMoves DEF JobMove, LockFree, Queued
    <2> QED
        BY <1>3, <2>1, <2>2 DEF ExitJustified
<1>4. CASE sched # "exit"
    BY <1>1, <1>2, <1>4 DEF SchedMove, TasksBounded
<1> QED
    BY <1>3, <1>4

\* Jobs start in the scheduler's presence only, so an abort starts none.
LEMMA RunningMoves ==
    ASSUME CoreInv, TasksCover, TasksCover', [Next]_vars
    PROVE  \/ sched' # "aborted" /\ Running' \subseteq tasks'
           \/ Running' \subseteq Running
<1>1. SchedMove /\ \A r \in Requests : JobMove(r)
    BY SchedMoves, JobMoves
<1>2. CASE sched' = "aborted"
    <2>1. sched # "handoff"
        BY <1>1, <1>2 DEF SchedMove
    <2> QED
        BY <1>1, <2>1 DEF JobMove, Running
<1>3. CASE sched' # "aborted"
    BY <1>3 DEF TasksCover, Running
<1> QED
    BY <1>2, <1>3

\* Only an admission makes a queue longer.
LEMMA QueuedMoves ==
    ASSUME CoreInv, [Next]_vars
    PROVE  Queued' \subseteq Queued \/ \E r \in Requests : Admit(r)
<1>1. ASSUME NEW r \in Requests, RejectBudget(r) \/ RejectFull(r)
      PROVE  Queued' \subseteq Queued
    BY <1>1 DEF RejectBudget, RejectFull, Queued, Removed
<1>2. ASSUME SchedLock \/ PopNothing PROVE Queued' \subseteq Queued
    BY <1>2 DEF SchedLock, PopNothing, Maintain, Queued, Removed
<1>3. ASSUME DropUnlocked \/ CleanUp PROVE Queued' \subseteq Queued
    BY <1>3 DEF DropUnlocked, CleanUp, RejectPending, Queued, Removed
<1>4. ASSUME Pop PROVE Queued' \subseteq Queued
    <2>1. PICK q \in Requests :
            job' = [Removed(Swept) EXCEPT ![q] = "selected"]
        BY <1>4 DEF Pop, Queued
    <2> QED
        BY <2>1 DEF Queued, Removed
<1>5. ASSUME NEW q \in Requests, Discard(q) \/ Unwind(q)
      PROVE  Queued' \subseteq Queued
    BY <1>5 DEF Discard, Unwind, Queued, Removed
<1>6. ASSUME NEW q \in Requests, Handoff(q) \/ Release(q) \/ Answer(q)
      PROVE  Queued' \subseteq Queued
    BY <1>6 DEF Handoff, Release, Answer, Queued, CoreInv, TypeOK
<1>7. ASSUME UNCHANGED job PROVE Queued' \subseteq Queued
    BY <1>7 DEF Queued
<1>8. ASSUME NEW q \in Requests,
             \/ RejectTest(q) \/ RejectClosed(q) \/ NotifyAdmission(q)
             \/ Receive(q) \/ Cancel(q)
      PROVE  UNCHANGED job
    BY <1>8 DEF RejectTest, RejectClosed, NotifyAdmission, Receive, Cancel,
        queueVars
<1>9. ASSUME \/ FillDone \/ SchedStop \/ SchedSleep
             \/ WakeNotified \/ WakeJoined \/ WakeTimer \/ SchedAbort
             \/ Close \/ DropLocked \/ Tick
             \/ \E b \in Budgets : SetLimit(b)
             \/ UNCHANGED vars
      PROVE  UNCHANGED job
    BY <1>9 DEF FillDone, SchedStop, SchedSleep, Wakes, WakeNotified,
        WakeJoined, WakeTimer, SchedAbort, Close, DropLocked, Tick, SetLimit,
        queueVars, vars
<1> QED
    BY <1>1, <1>2, <1>3, <1>4, <1>5, <1>6, <1>7, <1>8, <1>9
    DEF Next, Handler, Executor, Scheduler

\* Executors and queues stay within their limits.
LEMMA BoundedStep ==
    CoreInv /\ LimitInv /\ [Next]_vars /\ TasksCover' /\ TasksBounded'
        => Bounded'
<1> SUFFICES ASSUME CoreInv, LimitInv, [Next]_vars, TasksCover', TasksBounded'
             PROVE  Bounded'
    OBVIOUS
<1>1. TypeOK /\ Bounded /\ TasksCover /\ TypeOK'
    BY CoreStep DEF CoreInv, LimitInv
<1>2. ExecutionLimit \in Nat /\ QueueCapacity \in Nat
    BY GatewayAssumption DEF GatewayAssumption
<1>3. Cardinality(Running') <= ExecutionLimit
    <2>1. /\ Running \in SUBSET Requests /\ Running' \in SUBSET Requests
          /\ tasks' \in SUBSET Requests
        BY <1>1 DEF Running, TypeOK
    <2>2. /\ Running' \subseteq tasks' =>
                Cardinality(Running') <= Cardinality(tasks')
          /\ Running' \subseteq Running =>
                Cardinality(Running') <= Cardinality(Running)
          /\ Cardinality(Running') \in Nat /\ Cardinality(tasks') \in Nat
          /\ Cardinality(Running) \in Nat
        BY <2>1, FiniteRequests, FS_Subset
    <2>3. Running' \subseteq tasks' \/ Running' \subseteq Running
        BY <1>1, RunningMoves
    <2> QED
        BY <2>2, <2>3, <1>1, <1>2 DEF Bounded, TasksBounded
<1>4. ASSUME NEW class \in Classes
      PROVE  Cardinality(Queued' \intersect OfClass(class)) <= QueueCapacity
    <2> DEFINE Waiting == Queued \intersect OfClass(class)
               Waiting2 == Queued' \intersect OfClass(class)
    <2>1. Waiting \in SUBSET Requests /\ Waiting2 \in SUBSET Requests
        BY DEF OfClass
    <2>2. /\ Waiting2 \subseteq Waiting =>
                Cardinality(Waiting2) <= Cardinality(Waiting)
          /\ Cardinality(Waiting2) \in Nat /\ Cardinality(Waiting) \in Nat
        BY <2>1, FiniteRequests, FS_Subset
    <2>3. CASE Waiting2 \subseteq Waiting
        BY <1>1, <1>2, <2>2, <2>3 DEF Bounded
    <2>4. ASSUME NEW r \in Requests, Admit(r) PROVE
              Cardinality(Waiting2) <= QueueCapacity
        <3> DEFINE Kept == (Queued \ Swept) \intersect OfClass(class)
        <3>1. /\ ~QueueFull(r)
              /\ job' = [Removed(Swept) EXCEPT ![r] = "queued"]
            BY <2>4 DEF Admit
        <3>2. Kept \in SUBSET Requests
            BY DEF OfClass
        <3>3. CASE ClassOf(r) = class
            <4>1. Waiting2 \subseteq Kept \union {r}
                BY <3>1 DEF Queued, Removed
            <4>2. Cardinality(Waiting2) <= Cardinality(Kept \union {r})
                BY <4>1, <3>2, FiniteRequests, FS_Subset
            <4>3. /\ Cardinality(Kept \union {r}) <= Cardinality(Kept) + 1
                  /\ Cardinality(Kept) \in Nat
                  /\ Cardinality(Kept \union {r}) \in Nat
                BY <3>2, FiniteRequests, FS_AddElement
            <4>4. Cardinality(Kept) < QueueCapacity
                BY <3>1, <3>3, <4>3, <1>2 DEF QueueFull
            <4> QED
                BY <4>2, <4>3, <4>4, <2>2, <1>2
        <3>4. CASE ClassOf(r) # class
            <4>1. Waiting2 \subseteq Waiting
                BY <3>1, <3>4 DEF Queued, Removed, OfClass
            <4> QED
                BY <4>1, <2>3
        <3> QED
            BY <3>3, <3>4
    <2>5. Queued' \subseteq Queued => Waiting2 \subseteq Waiting
        OBVIOUS
    <2> QED
        BY <2>3, <2>4, <2>5, QueuedMoves
<1>5. \A class \in Classes : OfClass(class)' = OfClass(class)
    BY DEF OfClass, ClassOf
<1> QED
    BY <1>3, <1>4, <1>5 DEF Bounded

\* Every step keeps the limits.
LEMMA LimitStep == CoreInv /\ LimitInv /\ [Next]_vars => LimitInv'
BY TasksCoverStep, TasksBoundedStep, ExitJustifiedStep, BoundedStep DEF LimitInv

\* However jobs are admitted, expire and finish, and even while an aborted
\* scheduler's executors unwind, no more than execution_limit jobs run and no
\* class has more than queue_capacity waiting.
THEOREM LimitsKept == Spec => []Bounded
<1>1. LimitInv => Bounded
    BY DEF LimitInv
<1> QED
    BY <1>1, CoreInit, CoreStep, LimitInit, LimitStep, PTL DEF Spec

-----------------------------------------------------------------------------
(* Wake-ups.                                                               *)

\* One job's reason not to be forgotten.
Watched(r) ==
    \/ call[r] = "posting" \/ notified
    \/ /\ Cardinality(tasks) = ExecutionLimit
       /\ timer \in 0 .. ticket[r].left

\* NoLostWakeup, job by job.
LEMMA WatchedAll ==
    NoLostWakeup <=> (sched = "select" => \A r \in Queued : Watched(r))
BY DEF NoLostWakeup, Watched

\* What keeps a waiting job watched from one step of the sleep to the next.
LEMMA StillWatched ==
    ASSUME NEW r \in Requests, Watched(r), notified => notified',
           call[r] = "posting" => call'[r] = "posting" \/ notified',
           UNCHANGED <<tasks, timer>>, ticket'[r] = ticket[r]
    PROVE  Watched(r)'
BY DEF Watched

\* A deadline earliest among all is no later than any.
LEMMA EarliestIsLeast ==
    ASSUME TypeOK, NEW soonest \in NextDeadline, NEW r \in Queued
    PROVE  soonest \in 0 .. ticket[r].left
<1>1. PICK q \in Queued :
        /\ \A p \in Queued : ticket[q].left <= ticket[p].left
        /\ soonest = ticket[q].left
    BY DEF NextDeadline, EarliestDeadline
<1>2. ticket[q].left \in Nat /\ ticket[r].left \in Nat
    BY DEF TypeOK, Queued
<1> QED
    BY <1>1, <1>2

\* No step leaves a waiting job without something that will wake a sleeping
\* scheduler for it: an admission notifies, falling asleep arms the timer for
\* the earliest deadline, and time brings both nearer alike.
LEMMA WakeupStep ==
    ASSUME CoreInv, LimitInv, NoLostWakeup, [Next]_vars
    PROVE  NoLostWakeup'
<1> SUFFICES ASSUME sched' = "select", NEW r \in Queued'
             PROVE  Watched(r)'
    BY DEF NoLostWakeup, Watched
<1>1. TypeOK /\ TypeOK' /\ IdleAbsent
    BY CoreStep DEF CoreInv
<1>2. r \in Requests /\ Queued \in SUBSET Requests /\ Swept \in SUBSET Queued
    BY SweptQueued DEF Queued
<1>3. CASE SchedSleep
    <2>1. UNCHANGED <<job, tasks, ticket>> /\ sched = "exit"
        BY <1>3 DEF SchedSleep, queueVars
    <2>2. r \in Queued
        BY <2>1 DEF Queued
    <2>3. Cardinality(tasks) = ExecutionLimit
        BY <2>1, <2>2 DEF LimitInv, ExitJustified
    <2>4. timer' \in 0 .. ticket[r].left
        BY <1>1, <1>3, <2>2, EarliestIsLeast DEF SchedSleep
    <2> QED
        BY <2>1, <2>3, <2>4 DEF Watched
<1>4. CASE sched = "select"
    <2>1. r \in Queued => Watched(r)
        BY <1>4 DEF NoLostWakeup, Watched
    <2>2. ASSUME NEW q \in Requests, Admit(q) PROVE Watched(r)'
        <3>1. CASE r = q
            BY <1>1, <2>2, <3>1 DEF Admit, Watched, TypeOK
        <3>2. CASE r # q
            <4>1. r \in Queued /\ r \notin Swept
                BY <1>1, <2>2, <3>2 DEF Admit, Queued, Removed
            <4>2. /\ ticket'[r] = ticket[r] /\ call'[r] = call[r]
                  /\ UNCHANGED <<tasks, timer, notified>>
                BY <1>1, <1>2, <2>2, <3>2, <4>1
                DEF Admit, Forgotten, schedVars, TypeOK
            <4> QED
                BY <1>2, <2>1, <4>1, <4>2, StillWatched
        <3> QED
            BY <3>1, <3>2
    <2>3. ASSUME NEW q \in Requests, RejectBudget(q) \/ RejectFull(q)
          PROVE  Watched(r)'
        <3>1. r \in Queued /\ r \notin Swept
            BY <2>3 DEF RejectBudget, RejectFull, Queued, Removed
        <3>2. r # q
            BY <1>1, <1>2, <2>3, <3>1
            DEF RejectBudget, RejectFull, Enqueues, IdleAbsent, Queued
        <3>3. /\ ticket'[r] = ticket[r] /\ call'[r] = call[r]
              /\ UNCHANGED <<tasks, timer, notified>>
            BY <1>1, <1>2, <2>3, <3>1, <3>2
            DEF RejectBudget, RejectFull, Forgotten, schedVars, TypeOK
        <3> QED
            BY <1>2, <2>1, <3>1, <3>3, StillWatched
    <2>4. ASSUME NEW q \in Requests,
                 \/ RejectTest(q) \/ RejectClosed(q) \/ NotifyAdmission(q)
                 \/ Receive(q) \/ Cancel(q)
          PROVE  Watched(r)'
        <3>1. call[r] = "posting" => call'[r] = "posting" \/ notified'
            BY <1>1, <1>2, <2>4 DEF RejectTest, RejectClosed, Enqueues,
                NotifyAdmission, Receive, Cancel, TypeOK
        <3>2. /\ UNCHANGED <<job, ticket, tasks, timer>>
              /\ notified => notified'
            BY <2>4 DEF RejectTest, RejectClosed, NotifyAdmission, Receive,
                Cancel, queueVars, schedVars
        <3>3. r \in Queued
            BY <3>2 DEF Queued
        <3> QED
            BY <1>2, <2>1, <3>1, <3>2, <3>3, StillWatched
    <2>5. ASSUME NEW q \in Requests, Release(q) \/ Answer(q) \/ Unwind(q)
          PROVE  Watched(r)'
        <3>1. UNCHANGED <<ticket, tasks, timer, call, notified>>
            BY <2>5 DEF Release, Answer, Unwind, callVars, schedVars
        <3>2. r \in Queued
            BY <1>1, <1>2, <2>5
            DEF Release, Answer, Unwind, Removed, Queued, TypeOK
        <3> QED
            BY <1>2, <2>1, <3>1, <3>2, StillWatched
    <2>6. ASSUME \/ Close \/ DropLocked \/ \E b \in Budgets : SetLimit(b)
                 \/ UNCHANGED vars
          PROVE  Watched(r)'
        <3>1. /\ UNCHANGED <<job, ticket, tasks, timer, call>>
              /\ notified => notified'
            BY <2>6 DEF Close, DropLocked, SetLimit, callVars, queueVars,
                schedVars, vars
        <3>2. r \in Queued
            BY <3>1 DEF Queued
        <3> QED
            BY <1>2, <2>1, <3>1, <3>2, StillWatched
    <2>7. ASSUME DropUnlocked \/ CleanUp PROVE Watched(r)'
        BY <1>2, <2>7 DEF DropUnlocked, CleanUp, RejectPending, Queued, Removed
    <2>8. ASSUME Tick PROVE Watched(r)'
        <3>1. r \in Queued /\ UNCHANGED <<call, notified, tasks>>
            BY <2>8 DEF Tick, Queued, callVars
        <3>2. ticket[r] \in [order : Nat, left : Nat] /\ timer \in Nat \union {-1}
            BY <1>1, <1>2 DEF TypeOK, NoTimer
        <3>3. /\ timer' = IF timer > 0 THEN timer - 1 ELSE timer
              /\ ticket'[r].left = IF ticket[r].left > 0
                                   THEN ticket[r].left - 1
                                   ELSE ticket[r].left
            BY <1>2, <2>8, <3>2 DEF Tick
        <3>4. timer \in 0 .. ticket[r].left =>
                timer' \in 0 .. ticket'[r].left
            BY <3>2, <3>3
        <3> QED
            BY <2>1, <3>1, <3>4 DEF Watched
    <2>9. ASSUME \/ SchedLock \/ Pop \/ PopNothing \/ FillDone
                 \/ (\E q \in Requests : Discard(q) \/ Handoff(q))
                 \/ SchedStop \/ SchedSleep
                 \/ WakeNotified \/ WakeJoined \/ WakeTimer \/ SchedAbort
          PROVE  Watched(r)'
        BY <1>4, <2>9 DEF SchedLock, Pop, PopNothing, FillDone, Discard,
            Handoff, SchedStop, SchedSleep, Wakes, WakeNotified, WakeJoined,
            WakeTimer, SchedAbort
    <2> QED
        BY <2>2, <2>3, <2>4, <2>5, <2>6, <2>7, <2>8, <2>9
        DEF Next, Handler, Executor, Scheduler
<1>5. sched = "select" \/ SchedSleep
    <2>1. sched # "select" => ~UNCHANGED sched
        OBVIOUS
    <2>2. ASSUME \/ \E q \in Requests : Handler(q) \/ Executor(q)
                 \/ \E b \in Budgets : SetLimit(b)
                 \/ Close \/ DropLocked \/ DropUnlocked \/ CleanUp \/ Tick
                 \/ UNCHANGED vars
          PROVE  UNCHANGED sched
        BY <2>2 DEF Handler, RejectTest, RejectClosed, RejectBudget,
            RejectFull, Admit, NotifyAdmission, Receive, Cancel, Executor,
            Release, Unwind, Answer, SetLimit, Close, DropLocked,
            DropUnlocked, CleanUp, Tick, schedVars, vars
    <2>3. ASSUME Scheduler PROVE sched = "select" \/ SchedSleep
        BY <2>3 DEF Scheduler, SchedLock, Pop, PopNothing, FillDone, Discard,
            Handoff, SchedStop, Wakes, WakeNotified, WakeJoined, WakeTimer,
                SchedAbort
    <2> QED
        BY <2>1, <2>2, <2>3 DEF Next
<1> QED
    BY <1>3, <1>4, <1>5

\* Whoever enqueues while the scheduler computes its deadline, falls asleep or
\* sleeps, no waiting job is left to a scheduler that nothing will wake in time
\* to serve or expire it.
THEOREM WakeupsKept == Spec => []NoLostWakeup
<1>1. Init => NoLostWakeup
    BY DEF Init, NoLostWakeup
<1>2. CoreInv /\ LimitInv /\ NoLostWakeup /\ [Next]_vars => NoLostWakeup'
    BY WakeupStep
<1> QED
    BY <1>1, <1>2, CoreInit, CoreStep, LimitInit, LimitStep, PTL DEF Spec

-----------------------------------------------------------------------------
(* The ends of a gateway.                                                  *)

DroppedCloses == owner = "dropped" => closing

EndInv ==
    /\ StoppedIsDrained
    /\ DroppedStaysEmpty
    /\ DroppedCloses

\* Nothing has stopped at first.
LEMMA EndInit == Init => EndInv
BY DEF Init, EndInv, StoppedIsDrained, DroppedStaysEmpty, DroppedCloses

\* Admission never reopens, and only Drop and the task it spawns decide that
\* nothing is left to reject, having rejected everything.
OwnerMove ==
    /\ closing => closing'
    /\ \/ UNCHANGED <<owner, cleanup>>
       \/ owner' = "dropped" /\ closing' /\ (cleanup' \/ Queued' = {})
       \/ UNCHANGED owner /\ Queued' = {}

\* To the owner and the queues, every step of the system is one of these.
LEMMA OwnerMoves == CoreInv /\ [Next]_vars => OwnerMove
<1> SUFFICES ASSUME CoreInv, [Next]_vars PROVE OwnerMove
    OBVIOUS
<1>1. ASSUME RejectPending PROVE Queued' = {}
    BY <1>1 DEF RejectPending, Queued, Removed
<1>2. CASE Close \/ DropLocked \/ DropUnlocked \/ CleanUp
    BY <1>1, <1>2 DEF Close, DropLocked, DropUnlocked, CleanUp, OwnerMove
<1>3. CASE ~(Close \/ DropLocked \/ DropUnlocked \/ CleanUp)
    <2>1. UNCHANGED <<owner, cleanup, closing>>
        BY <1>3 DEF Next, Handler, RejectTest, RejectClosed, RejectBudget,
            RejectFull, Admit, NotifyAdmission, Receive, Cancel, Executor,
            Release, Unwind, Answer, Scheduler, SchedLock, Pop, PopNothing,
            FillDone, Discard, Handoff, SchedStop, SchedSleep, Wakes,
            WakeNotified, WakeJoined, WakeTimer, SchedAbort, SetLimit, Tick,
            ownerVars, vars
    <2> QED
        BY <2>1 DEF OwnerMove
<1> QED
    BY <1>2, <1>3

\* Every step keeps what holds at the end.
LEMMA EndStep ==
    ASSUME CoreInv, LimitInv, EndInv, [Next]_vars
    PROVE  EndInv'
<1>1. /\ OwnerMove
      /\ SchedMove
      /\ \A r \in Requests : JobMove(r)
    BY OwnerMoves, SchedMoves, JobMoves
<1>2. TypeOK /\ OneSelected
    BY DEF CoreInv
<1>3. DroppedCloses'
    BY <1>1 DEF OwnerMove, EndInv, DroppedCloses
<1>4. DroppedStaysEmpty'
    <2>1. closing => Queued' \subseteq Queued
        BY <1>1 DEF JobMove, Queued
    <2> QED
        BY <1>1, <2>1
        DEF OwnerMove, EndInv, DroppedStaysEmpty, DroppedCloses
<1>5. StoppedIsDrained'
    <2>1. CASE sched = "stopped"
        <3>1. closing /\ \A r \in Requests : job[r] \in {"absent", "gone"}
            BY <2>1 DEF EndInv, StoppedIsDrained
        <3>2. \A r \in Requests : job'[r] = job[r]
            BY <3>1, <1>1 DEF JobMove
        <3> QED
            BY <3>1, <3>2, <1>1 DEF OwnerMove, StoppedIsDrained
    <2>2. CASE sched # "stopped" /\ sched' = "stopped"
        <3>1. sched = "exit" /\ Drained
            BY <1>1, <2>2 DEF SchedMove
        <3>2. ASSUME NEW r \in Requests PROVE job[r] \in {"absent", "gone"}
            <4>1. job[r] # "queued"
                BY <3>1 DEF Drained, Queued
            <4>2. job[r] # "selected"
                BY <3>1, <1>2 DEF OneSelected
            <4>3. job[r] \notin {"running", "released"}
                BY <3>1 DEF Drained, LimitInv, TasksCover
            <4> QED
                BY <4>1, <4>2, <4>3, <1>2 DEF TypeOK, JobStates
        <3>3. \A r \in Requests : job'[r] = job[r]
            BY <3>1, <3>2, <1>1 DEF JobMove, Drained
        <3> QED
            BY <3>1, <3>2, <3>3, <1>1
            DEF OwnerMove, StoppedIsDrained, Drained
    <2> QED
        BY <2>1, <2>2 DEF StoppedIsDrained
<1> QED
    BY <1>3, <1>4, <1>5 DEF EndInv

\* What holds at the end is invariant.
LEMMA EndInvariant == Spec => []EndInv
<1>1. CoreInv /\ LimitInv /\ EndInv /\ [Next]_vars => EndInv'
    BY EndStep
<1> QED
    BY <1>1, CoreInit, CoreStep, LimitInit, LimitStep, EndInit, PTL DEF Spec

\* When shutdown has seen the scheduler return, no job is waiting or running,
\* and none ever will be, although handlers may still be between the closing
\* check and the notification.
THEOREM StopsDrained == Spec => []StoppedIsDrained
<1>1. EndInv => StoppedIsDrained
    BY DEF EndInv
<1> QED
    BY <1>1, EndInvariant, PTL

\* Once a dropped gateway has rejected its pending jobs, at once or through the
\* task it spawned, its routers cannot leave a job in the queues.
THEOREM DropsEmpty == Spec => []DroppedStaysEmpty
<1>1. EndInv => DroppedStaysEmpty
    BY DEF EndInv
<1> QED
    BY <1>1, EndInvariant, PTL

-----------------------------------------------------------------------------
(* What a single step may do.                                              *)

\* Work is started by a handoff and nothing else.
LEMMA StartsAtHandoff ==
    ASSUME [Next]_vars
    PROVE  UNCHANGED started \/ \E r \in Requests : Handoff(r)
BY DEF Next, Handler, RejectTest, RejectClosed, RejectBudget, RejectFull,
    Admit, NotifyAdmission, Receive, Cancel, Executor, Release, Unwind,
    Answer, Scheduler, SchedLock, Pop, PopNothing, FillDone, Discard,
    SchedStop, SchedSleep, Wakes, WakeNotified, WakeJoined, WakeTimer,
    SchedAbort, SetLimit, Close, DropLocked, DropUnlocked, CleanUp, Tick,
    callVars, vars

\* The recheck at the handoff is the last word: the clock and the callers may
\* move between maintain, the selection and the spawn, yet work starts only in
\* time and for a caller that waits.
THEOREM StartsFresh == Spec => NoStaleStart
<1> DEFINE Fresh == \A r \in started' \ started :
        job[r] = "selected" /\ ticket[r].left > 0 /\ ~Cancelled(r)
<1>1. CoreInv /\ [Next]_vars => Fresh
    <2> SUFFICES ASSUME CoreInv, [Next]_vars, NEW q \in started' \ started
                 PROVE  /\ job[q] = "selected" /\ ticket[q].left > 0
                        /\ ~Cancelled(q)
        OBVIOUS
    <2>1. PICK r \in Requests : Handoff(r)
        BY StartsAtHandoff
    <2>2. q = r /\ job[r] = "selected" /\ ~Stale(r)
        BY <2>1 DEF Handoff
    <2>3. ticket[r].left \in Nat
        BY DEF CoreInv, TypeOK
    <2> QED
        BY <2>2, <2>3 DEF Stale
<1>2. CoreInv /\ [Next]_vars => [Fresh]_vars
    BY <1>1
<1> QED
    BY <1>2, CoreInit, CoreStep, PTL DEF Spec, NoStaleStart

\* Those that hold a slot once maintain has swept are those that deserve it.
LEMMA SweptLive ==
    ASSUME TypeOK
    PROVE  /\ Holding \ Swept = Live
           /\ Queued \ Swept = Live \intersect Queued
BY DEF TypeOK, Holding, Queued, Swept, Stale, Live

\* Sent tells nobody anything but what it says.
LEMMA SentOnly ==
    ASSUME NEW gone, NEW what, NEW r \in Requests,
           reply'[r] = Sent(gone, what)[r]
    PROVE  reply'[r] = reply[r] \/ reply'[r] = what
BY DEF Sent

\* Only the handler of a request refuses it for want of room.
LEMMA RefusedByHandler ==
    ASSUME TypeOK, [Next]_vars, NEW r \in Requests,
           reply[r] = "none", reply'[r] \in {"budget_exhausted", "queue_full"}
    PROVE  \/ RejectBudget(r) /\ reply'[r] = "budget_exhausted"
           \/ RejectFull(r) /\ reply'[r] = "queue_full"
<1>1. ASSUME NEW q \in Requests, RejectBudget(q)
      PROVE  q = r /\ reply'[r] = "budget_exhausted"
    <2>1. reply' = [Sent(Swept, "queue_timeout")
                        EXCEPT ![q] = "budget_exhausted"]
        BY <1>1 DEF RejectBudget
    <2> QED
        BY <2>1 DEF Sent
<1>2. ASSUME NEW q \in Requests, RejectFull(q)
      PROVE  q = r /\ reply'[r] = "queue_full"
    <2>1. reply' = [Sent(Swept, "queue_timeout") EXCEPT ![q] = "queue_full"]
        BY <1>2 DEF RejectFull
    <2> QED
        BY <2>1 DEF Sent
<1>3. ASSUME NEW q \in Requests, RejectTest(q) \/ RejectClosed(q)
      PROVE  FALSE
    BY <1>3 DEF RejectTest, RejectClosed, TypeOK
<1>4. ASSUME \/ \E q \in Requests : Admit(q) \/ Discard(q) \/ Unwind(q)
             \/ SchedLock \/ Pop \/ PopNothing \/ DropUnlocked \/ CleanUp
      PROVE  FALSE
    BY <1>4 DEF Admit, Discard, Unwind, SchedLock, Maintain, Pop, PopNothing,
        DropUnlocked, CleanUp, RejectPending, Sent
<1>5. ASSUME NEW q \in Requests, Answer(q) PROVE FALSE
    <2>1. PICK what \in Outcomes : reply' = Sent({q}, what)
        BY <1>5 DEF Answer
    <2>2. what \in {"completed", "execution_failed"}
        BY GatewayAssumption DEF GatewayAssumption
    <2> QED
        BY <2>1, <2>2 DEF Sent
<1>6. ASSUME UNCHANGED reply PROVE FALSE
    BY <1>6
<1>7. ASSUME NEW q \in Requests,
             \/ NotifyAdmission(q) \/ Receive(q) \/ Cancel(q) \/ Handoff(q)
             \/ Release(q)
      PROVE  UNCHANGED reply
    BY <1>7 DEF NotifyAdmission, Receive, Cancel, Handoff, Release, callVars
<1>8. ASSUME \/ FillDone \/ SchedStop \/ SchedSleep
             \/ WakeNotified \/ WakeJoined \/ WakeTimer \/ SchedAbort
             \/ Close \/ DropLocked \/ Tick
             \/ \E b \in Budgets : SetLimit(b)
             \/ UNCHANGED vars
      PROVE  UNCHANGED reply
    BY <1>8 DEF FillDone, SchedStop, SchedSleep, Wakes, WakeNotified,
        WakeJoined, WakeTimer, SchedAbort, Close, DropLocked, Tick, SetLimit,
        callVars, vars
<1> QED
    BY <1>1, <1>2, <1>3, <1>4, <1>5, <1>6, <1>7, <1>8
    DEF Next, Handler, Executor, Scheduler

\* A 429 is always due to live work: whatever waits in vain has been swept
\* before the budget and the queue are looked at.
THEOREM RefusalsJustified == Spec => RejectionsJustified
<1> DEFINE Justified ==
        \A r \in Requests :
            /\ Replied(r, "budget_exhausted") =>
                Cardinality(Live \intersect Of(BudgetOf[r]))
                    >= maximum[BudgetOf[r]]
            /\ Replied(r, "queue_full") =>
                Cardinality(Live \intersect Queued
                                 \intersect OfClass(ClassOf(r)))
                    >= QueueCapacity
<1>1. CoreInv /\ [Next]_vars => Justified
    <2> SUFFICES ASSUME CoreInv, [Next]_vars, NEW r \in Requests,
                        \/ Replied(r, "budget_exhausted")
                        \/ Replied(r, "queue_full")
                 PROVE  /\ Replied(r, "budget_exhausted") =>
                            Cardinality(Live \intersect Of(BudgetOf[r]))
                                >= maximum[BudgetOf[r]]
                        /\ Replied(r, "queue_full") =>
                            Cardinality(Live \intersect Queued
                                             \intersect OfClass(ClassOf(r)))
                                >= QueueCapacity
        BY DEF Replied
    <2>1. TypeOK /\ BudgetAccounting
        BY DEF CoreInv
    <2>2. \/ RejectBudget(r) /\ reply'[r] = "budget_exhausted"
          \/ RejectFull(r) /\ reply'[r] = "queue_full"
        BY <2>1, RefusedByHandler DEF Replied
    <2>3. Swept \in SUBSET Holding
        BY SweptQueued DEF Holding, Queued
    <2>4. BudgetOf[r] \in Budgets
        BY GatewayAssumption DEF GatewayAssumption
    <2>5. Freed(Swept)[BudgetOf[r]] =
            Cardinality(Live \intersect Of(BudgetOf[r]))
        BY <2>1, <2>3, <2>4, FreedCounts, SweptLive
    <2>6. CASE RejectBudget(r) /\ reply'[r] = "budget_exhausted"
        BY <2>5, <2>6 DEF RejectBudget, BudgetExhausted, Replied
    <2>7. CASE RejectFull(r) /\ reply'[r] = "queue_full"
        BY <2>1, <2>7, SweptLive DEF RejectFull, QueueFull, Replied
    <2> QED
        BY <2>2, <2>6, <2>7
<1>2. CoreInv /\ [Next]_vars => [Justified]_vars
    BY <1>1
<1> QED
    BY <1>2, CoreInit, CoreStep, PTL DEF Spec, RejectionsJustified

-----------------------------------------------------------------------------
(* Refinement: every step of the gateway is one of AdmissionContract, or   *)
(* leaves what the contract sees unchanged.                                *)

Verdict == [r \in Requests |-> VerdictOf(reply[r])]

\* Steps the contract does not see.
Invisible == UNCHANGED <<Holding, started, Verdict, maximum>>

\* VerdictOf by cases.
LEMMA Verdicts ==
    /\ VerdictOf("none") = "none"
    /\ VerdictOf("completed") = "completed"
    /\ \A what \in NotStarted : VerdictOf(what) = "not_started"
    /\ \A what \in Unknown : VerdictOf(what) = "unknown"
BY DEF VerdictOf, NotStarted, Unknown

\* What the contract sees of the callers that a removal tells.
LEMMA ToldVerdicts ==
    ASSUME NEW gone \in SUBSET Requests, NEW what \in NotStarted
    PROVE  [r \in Requests |-> VerdictOf(Sent(gone, what)[r])]
            = Contract!Told({r \in gone : ~Cancelled(r)}, "not_started")
BY Verdicts DEF Sent, Contract!Told

\* Waiting and selected jobs were not started and are unanswered, so their
\* callers may be dismissed.
LEMMA MayDismiss ==
    ASSUME CertaintyInv, NEW gone \in SUBSET Requests,
           \A r \in gone : job[r] \in {"queued", "selected"}
    PROVE  /\ gone \in SUBSET (Holding \ started)
           /\ {r \in gone : ~Cancelled(r)} \in SUBSET Contract!Dismissible(gone)
BY Verdicts
DEF CertaintyInv, RequestConsistent, Holding, Contract!Dismissible

\* Dropping waiting work is a step of the contract, whoever does it.
LEMMA DismissStep ==
    ASSUME CertaintyInv, NEW gone \in SUBSET Requests, NEW what \in NotStarted,
           \A r \in gone : job[r] \in {"queued", "selected"},
           Holding' = Holding \ gone, reply' = Sent(gone, what),
           UNCHANGED <<started, maximum>>
    PROVE  Contract!Dismiss
<1> DEFINE told == {r \in gone : ~Cancelled(r)}
<1>1. /\ gone \in SUBSET (Holding \ started)
      /\ told \in SUBSET Contract!Dismissible(gone)
    BY MayDismiss
<1>2. Verdict' = Contract!Told(told, "not_started")
    BY ToldVerdicts DEF Verdict
<1> QED
    BY <1>1, <1>2 DEF Contract!Dismiss, Verdict

\* So is refusing r, after a sweep or without one.
LEMMA RefuseStep ==
    ASSUME TypeOK, CertaintyInv, NEW gone \in SUBSET Queued,
           NEW what \in NotStarted, NEW r \in Requests, call[r] = "idle",
           Holding' = Holding \ gone,
           reply' = [Sent(gone, "queue_timeout") EXCEPT ![r] = what],
           UNCHANGED <<started, maximum>>
    PROVE  Contract!Dismiss
<1> DEFINE told == {q \in gone : ~Cancelled(q)} \union {r}
<1>1. /\ gone \in SUBSET Requests /\ r \notin gone
      /\ \A q \in gone : job[q] \in {"queued", "selected"}
    BY DEF Queued, CertaintyInv, RequestConsistent
<1>2. /\ gone \in SUBSET (Holding \ started)
      /\ {q \in gone : ~Cancelled(q)} \in SUBSET Contract!Dismissible(gone)
    BY <1>1, MayDismiss
<1>3. r \in Contract!Dismissible(gone)
    BY Verdicts
    DEF CertaintyInv, RequestConsistent, Holding, Contract!Dismissible
<1>4. [q \in Requests |-> VerdictOf(reply'[q])]
            = Contract!Told(told, "not_started")
    <2>1. ASSUME NEW q \in Requests
          PROVE  VerdictOf(reply'[q])
                    = IF q \in told THEN "not_started" ELSE VerdictOf(reply[q])
        <3>1. CASE q = r
            BY <3>1, Verdicts DEF Sent
        <3>2. CASE q # r
            BY <3>2, Verdicts DEF Sent, NotStarted
        <3> QED
            BY <3>1, <3>2
    <2> QED
        BY <2>1 DEF Contract!Told
<1> QED
    BY <1>2, <1>3, <1>4 DEF Contract!Dismiss

\* The contract counts as the gateway does.
LEMMA SameCardinality == \A S : Contract!Cardinality(S) = Cardinality(S)
BY DEF Cardinality, Contract!Cardinality

\* A stutter of the contract.
LEMMA InvisibleStep == Invisible => UNCHANGED Contract!vars
BY DEF Invisible, Verdict, Contract!vars

\* An admission drops what is stale and takes the slot in one step.
LEMMA AdmitStep ==
    ASSUME CoreInv, CertaintyInv, NEW r \in Requests, Admit(r)
    PROVE  Contract!Admit(r)
<1> DEFINE told == {q \in Swept : ~Cancelled(q)}
<1>1. /\ call[r] = "idle" /\ ~BudgetExhausted(r)
      /\ job' = [Removed(Swept) EXCEPT ![r] = "queued"]
      /\ reply' = Sent(Swept, "queue_timeout")
      /\ UNCHANGED <<started, maximum>>
    BY DEF Admit, Enqueues
<1>2. TypeOK /\ BudgetAccounting
    BY DEF CoreInv
<1>3. /\ Swept \in SUBSET Queued /\ Swept \in SUBSET Requests
      /\ \A q \in Swept : job[q] \in {"queued", "selected"}
    BY SweptQueued DEF Queued
<1>4. job[r] = "absent" /\ reply[r] = "none" /\ r \notin started
    BY <1>1 DEF CertaintyInv, RequestConsistent
<1>5. r \notin Holding \union started /\ VerdictOf(reply[r]) = "none"
    BY <1>4, Verdicts DEF Holding
<1>6. /\ Swept \in SUBSET (Holding \ started)
      /\ told \in SUBSET (Contract!Dismissible(Swept) \ {r})
    BY <1>3, <1>4, MayDismiss
<1>7. Holding' = (Holding \ Swept) \union {r}
    BY <1>1, <1>2, <1>3 DEF Holding, Removed, TypeOK, Queued
<1>8. [q \in Requests |-> VerdictOf(reply'[q])]
        = Contract!Told(told, "not_started")
    BY <1>1, <1>3, ToldVerdicts DEF NotStarted
<1>9. Contract!Cardinality(Contract!HeldOf(BudgetOf[r]) \ Swept)
            < maximum[BudgetOf[r]]
    <2>1. BudgetOf[r] \in Budgets /\ Swept \in SUBSET Holding
        BY <1>3, GatewayAssumption DEF GatewayAssumption, Holding, Queued
    <2>2. Contract!HeldOf(BudgetOf[r]) \ Swept
            = (Holding \ Swept) \intersect Of(BudgetOf[r])
        BY DEF Contract!HeldOf, Of, Holding
    <2>3. Freed(Swept)[BudgetOf[r]]
            = Cardinality(Contract!HeldOf(BudgetOf[r]) \ Swept)
        BY <1>2, <2>1, <2>2, FreedCounts
    <2>4. /\ Freed(Swept)[BudgetOf[r]] \in Nat
          /\ maximum[BudgetOf[r]] \in Nat
        BY <1>2, <2>1, FreedCounts DEF TypeOK
    <2> QED
        BY <1>1, <2>3, <2>4, SameCardinality DEF BudgetExhausted
<1> QED
    BY <1>1, <1>5, <1>6, <1>7, <1>8, <1>9 DEF Contract!Admit

\* An execution: start, end, answer, or death.
LEMMA ExecutionSteps ==
    ASSUME CoreInv, CertaintyInv, NEW r \in Requests
    PROVE  /\ Handoff(r) => Contract!Start(r)
           /\ Release(r) => Contract!Free(r)
           /\ Answer(r) => Contract!Answer(r) \/ Invisible
           /\ Unwind(r) => Contract!Lose(r)
<1>1. TypeOK
    BY DEF CoreInv
<1>2. /\ job[r] = "selected" => r \in Holding \ started
      /\ job[r] = "running" => r \in Holding \intersect started
      /\ job[r] = "released" => r \in started \ Holding
      /\ job[r] \in {"running", "released"} => reply[r] = "none"
    BY DEF CertaintyInv, RequestConsistent, Holding
<1>3. ASSUME Handoff(r) PROVE Contract!Start(r)
    <2>1. Holding' = Holding
        BY <1>1, <1>3 DEF Handoff, Holding, TypeOK
    <2> QED
        BY <1>2, <1>3, <2>1 DEF Handoff, Contract!Start, budgetVars
<1>4. ASSUME Release(r) PROVE Contract!Free(r)
    <2>1. Holding' = Holding \ {r}
        BY <1>1, <1>4 DEF Release, Holding, TypeOK
    <2> QED
        BY <1>2, <1>4, <2>1 DEF Release, Contract!Free, callVars
<1>5. ASSUME Answer(r) PROVE Contract!Answer(r) \/ Invisible
    <2>1. PICK what \in Outcomes : reply' = Sent({r}, what)
        BY <1>5 DEF Answer
    <2>2. VerdictOf(what) \in {"completed", "unknown"}
        BY Verdicts, GatewayAssumption DEF GatewayAssumption, Unknown
    <2>3. Holding' = Holding /\ UNCHANGED <<started, maximum>>
        BY <1>1, <1>5 DEF Answer, Holding, TypeOK, budgetVars
    <2>4. CASE Cancelled(r)
        <3>1. Verdict' = Verdict
            BY <2>1, <2>4 DEF Verdict, Sent
        <3> QED
            BY <2>3, <3>1 DEF Invisible
    <2>5. CASE ~Cancelled(r)
        <3>1. [q \in Requests |-> VerdictOf(reply'[q])]
                = Contract!Told({r}, VerdictOf(what))
            BY <2>1, <2>5 DEF Sent, Contract!Told
        <3>2. r \in started \ Holding /\ VerdictOf(reply[r]) = "none"
            BY <1>2, <1>5, Verdicts DEF Answer
        <3> QED
            BY <2>2, <2>3, <3>1, <3>2 DEF Contract!Answer
    <2> QED
        BY <2>4, <2>5
<1>6. ASSUME Unwind(r) PROVE Contract!Lose(r)
    <2>1. Holding' = Holding \ {r} /\ r \in Holding \intersect started
        BY <1>1, <1>2, <1>6 DEF Unwind, Holding, Removed, TypeOK
    <2>2. /\ reply' = Sent({r}, "internal_error")
          /\ UNCHANGED <<started, maximum>>
        BY <1>6 DEF Unwind
    <2>3. \/ Verdict' = Verdict
          \/ [q \in Requests |-> VerdictOf(reply'[q])]
                = Contract!Told({r}, "unknown")
        BY <2>2, Verdicts DEF Verdict, Sent, Contract!Told, Unknown
    <2> QED
        BY <2>1, <2>2, <2>3 DEF Contract!Lose, Verdict
<1> QED
    BY <1>3, <1>4, <1>5, <1>6

\* Nothing is held, started or told at first.
LEMMA RefinementInit == Init => Contract!Init
<1> SUFFICES ASSUME Init PROVE Contract!Init
    OBVIOUS
<1>1. Holding = {} /\ started = {} /\ maximum = InitialLimit
    BY DEF Init, Holding
<1>2. \A r \in Requests : VerdictOf(reply[r]) = "none"
    BY Verdicts DEF Init
<1> QED
    BY <1>1, <1>2 DEF Contract!Init

\* Every step of the gateway is one of the contract, or a stutter.
LEMMA RefinementStep ==
    ASSUME CoreInv, CertaintyInv, [Next]_vars
    PROVE  [Contract!Next]_(Contract!vars)
<1>1. TypeOK
    BY DEF CoreInv
<1>2. /\ Swept \in SUBSET Queued /\ Swept \in SUBSET Requests
      /\ Queued \in SUBSET Requests
      /\ \A q \in Queued : job[q] = "queued"
    BY SweptQueued DEF Queued
<1>3. ASSUME NEW r \in Requests, RejectTest(r) \/ RejectClosed(r)
      PROVE  Contract!Dismiss
    <2>1. PICK what \in NotStarted : reply' = [reply EXCEPT ![r] = what]
        BY <1>3 DEF RejectTest, RejectClosed, NotStarted
    <2>2. /\ call[r] = "idle"
          /\ UNCHANGED <<job, started, maximum>>
        BY <1>3 DEF RejectTest, RejectClosed, Enqueues, budgetVars, queueVars
    <2>3. Holding' = Holding \ {}
        BY <2>2 DEF Holding
    <2>4. Sent({}, "queue_timeout") = reply
        BY <1>1 DEF Sent, TypeOK
    <2> QED
        BY <1>1, <2>1, <2>2, <2>3, <2>4, RefuseStep
<1>4. ASSUME NEW r \in Requests, RejectBudget(r) \/ RejectFull(r)
      PROVE  Contract!Dismiss
    <2>1. PICK what \in NotStarted :
            reply' = [Sent(Swept, "queue_timeout") EXCEPT ![r] = what]
        BY <1>4 DEF RejectBudget, RejectFull, NotStarted
    <2>2. /\ call[r] = "idle" /\ job' = Removed(Swept)
          /\ UNCHANGED <<started, maximum>>
        BY <1>4 DEF RejectBudget, RejectFull, Enqueues
    <2>3. Holding' = Holding \ Swept
        BY <1>1, <1>2, <2>2 DEF Holding, Removed, TypeOK
    <2> QED
        BY <1>1, <1>2, <2>1, <2>2, <2>3, RefuseStep
<1>5. ASSUME SchedLock \/ PopNothing \/ Pop PROVE Contract!Dismiss
    <2>1. /\ reply' = Sent(Swept, "queue_timeout")
          /\ UNCHANGED <<started, maximum>>
        BY <1>5 DEF SchedLock, PopNothing, Pop, Maintain
    <2>2. Holding' = Holding \ Swept
        <3>1. CASE job' = Removed(Swept)
            BY <1>1, <1>2, <3>1 DEF Holding, Removed, TypeOK
        <3>2. ASSUME NEW r \in Queued \ Swept,
                     job' = [Removed(Swept) EXCEPT ![r] = "selected"]
              PROVE  Holding' = Holding \ Swept
            BY <1>1, <1>2, <3>2 DEF Holding, Removed, TypeOK
        <3> QED
            BY <1>5, <3>1, <3>2 DEF SchedLock, PopNothing, Pop, Maintain
    <2> QED
        BY <1>2, <2>1, <2>2, DismissStep DEF NotStarted
<1>6. ASSUME DropUnlocked \/ CleanUp PROVE Contract!Dismiss
    <2>1. /\ reply' = Sent(Queued, "gateway_closed") /\ job' = Removed(Queued)
          /\ UNCHANGED <<started, maximum>>
        BY <1>6 DEF DropUnlocked, CleanUp, RejectPending
    <2>2. Holding' = Holding \ Queued
        BY <1>1, <1>2, <2>1 DEF Holding, Removed, TypeOK
    <2> QED
        BY <1>2, <2>1, <2>2, DismissStep DEF NotStarted
<1>7. ASSUME NEW r \in Requests, Discard(r) PROVE Contract!Dismiss
    <2>1. /\ reply' = Sent({r}, "queue_timeout") /\ job' = Removed({r})
          /\ job[r] = "selected"
          /\ UNCHANGED <<started, maximum>>
        BY <1>7 DEF Discard
    <2>2. Holding' = Holding \ {r}
        BY <1>1, <2>1 DEF Holding, Removed, TypeOK
    <2> QED
        BY <2>1, <2>2, DismissStep DEF NotStarted
<1>8. ASSUME NEW b \in Budgets, SetLimit(b) PROVE Contract!Resize(b)
    <2>1. PICK limit \in Limits : maximum' = [maximum EXCEPT ![b] = limit]
        BY <1>8 DEF SetLimit
    <2>2. UNCHANGED <<job, reply, started>> /\ BudgetClass[b] = "agent"
        BY <1>8 DEF SetLimit, queueVars, callVars
    <2> QED
        BY <2>1, <2>2 DEF Contract!Resize, Holding
<1>9. ASSUME \/ \E r \in Requests :
                NotifyAdmission(r) \/ Receive(r) \/ Cancel(r)
             \/ FillDone \/ SchedStop \/ SchedSleep
             \/ WakeNotified \/ WakeJoined \/ WakeTimer \/ SchedAbort
             \/ Close \/ DropLocked \/ Tick
             \/ UNCHANGED vars
      PROVE  Invisible
    <2>1. UNCHANGED <<job, reply, started, maximum>>
        BY <1>9 DEF NotifyAdmission, Receive, Cancel, FillDone, SchedStop,
            SchedSleep, Wakes, WakeNotified, WakeJoined, WakeTimer, SchedAbort,
            Close, DropLocked, Tick, budgetVars, queueVars, callVars, vars
    <2> QED
        BY <2>1 DEF Invisible, Holding, Verdict
<1>10. \/ Contract!Next
       \/ Invisible
    BY <1>3, <1>4, <1>5, <1>6, <1>7, <1>8, <1>9, AdmitStep, ExecutionSteps
    DEF Next, Handler, Executor, Scheduler, Contract!Next
<1> QED
    BY <1>10, InvisibleStep

\* The gateway keeps its promises for any number of requests and owners: slots
\* are given only while there is room, also when a ceiling was lowered below
\* the slots in use; started work is never told "not_started"; nobody is
\* answered while holding a slot.
THEOREM Refines == Spec => ImplementsContract
<1>1. CoreInv /\ CertaintyInv /\ [Next]_vars => [Contract!Next]_(Contract!vars)
    BY RefinementStep
<1> QED
    BY <1>1, RefinementInit, CoreInit, CoreStep, CertaintyInit, CertaintyStep,
       PTL DEF Spec, ImplementsContract, Contract!Spec

-----------------------------------------------------------------------------
(* Refinement: the queue of the gateway is one line.                       *)

\* Admission numbers grow.
LineNumbered == \A r \in Queued : ticket[r].order < nextOrder

\* A job that still waits keeps its number, and numbers are never given back.
LEMMA TicketsKept ==
    ASSUME CoreInv, [Next]_vars, ~(\E r \in Requests : Admit(r)),
           NEW q \in Requests, job'[q] = "queued"
    PROVE  /\ ticket'[q].order = ticket[q].order
           /\ nextOrder' \in {nextOrder, nextOrder + 1}
<1>1. /\ TypeOK /\ job \in [Requests -> JobStates]
      /\ ticket \in [Requests -> [order : Nat, left : Nat]]
    BY DEF CoreInv, TypeOK
<1>2. ASSUME NEW gone \in SUBSET Requests, ticket' = Forgotten(gone), q \notin gone
      PROVE  ticket'[q].order = ticket[q].order
    BY <1>2 DEF Forgotten
<1>3. CASE \E r \in Requests : RejectBudget(r) \/ RejectFull(r)
    <2>1. /\ job' = Removed(Swept) /\ ticket' = Forgotten(Swept)
          /\ nextOrder' \in {nextOrder, nextOrder + 1}
        BY <1>3 DEF RejectBudget, RejectFull
    <2> QED
        BY <1>2, <2>1, SweptQueued DEF Removed
<1>4. CASE SchedLock \/ PopNothing
    <2>1. /\ job' = Removed(Swept) /\ ticket' = Forgotten(Swept)
          /\ nextOrder' = nextOrder
        BY <1>4 DEF SchedLock, PopNothing, Maintain
    <2> QED
        BY <1>2, <2>1, SweptQueued DEF Removed
<1>5. CASE Pop
    <2>1. PICK r \in Requests :
            /\ job' = [Removed(Swept) EXCEPT ![r] = "selected"]
            /\ ticket' = Forgotten(Swept) /\ nextOrder' = nextOrder
        BY <1>5 DEF Pop, Queued
    <2> QED
        BY <1>2, <2>1, SweptQueued DEF Removed
<1>6. CASE \E r \in Requests : Discard(r) \/ Handoff(r)
    <2>1. PICK r \in Requests :
            /\ job' = Removed({r}) \/ job' = [job EXCEPT ![r] = "running"]
            /\ ticket' = Forgotten({r}) /\ nextOrder' = nextOrder
        BY <1>6 DEF Discard, Handoff
    <2> QED
        BY <1>1, <1>2, <2>1 DEF Removed
<1>7. CASE DropUnlocked \/ CleanUp
    BY <1>7 DEF DropUnlocked, CleanUp, RejectPending, Removed, Queued
<1>8. CASE Tick
    <2>1. /\ nextOrder' = nextOrder
          /\ ticket'[q] = IF ticket[q].left > 0
                          THEN [ticket[q] EXCEPT !.left = ticket[q].left - 1]
                          ELSE ticket[q]
        BY <1>8 DEF Tick
    <2> QED
        BY <1>1, <2>1
<1>9. CASE \E r \in Requests :
            \/ RejectTest(r) \/ RejectClosed(r) \/ NotifyAdmission(r)
            \/ Receive(r) \/ Cancel(r) \/ Executor(r)
    BY <1>9 DEF RejectTest, RejectClosed, NotifyAdmission, Receive, Cancel,
        Executor, Release, Unwind, Answer, queueVars
<1>10. CASE \/ FillDone \/ SchedStop \/ SchedSleep
            \/ WakeNotified \/ WakeJoined \/ WakeTimer \/ SchedAbort
            \/ Close \/ DropLocked
            \/ \E b \in Budgets : SetLimit(b)
            \/ UNCHANGED vars
    BY <1>10 DEF FillDone, SchedStop, SchedSleep, Wakes, WakeNotified,
        WakeJoined, WakeTimer, SchedAbort, Close, DropLocked, SetLimit,
        queueVars, vars
<1> QED
    BY <1>3, <1>4, <1>5, <1>6, <1>7, <1>8, <1>9, <1>10
    DEF Next, Handler, Scheduler

\* Only an admission gives a number, the next one.
LEMMA LineNumberedStep ==
    CoreInv /\ LineNumbered /\ [Next]_vars => LineNumbered'
<1> SUFFICES ASSUME CoreInv, LineNumbered, [Next]_vars,
                    NEW q \in Requests, job'[q] = "queued"
             PROVE  ticket'[q].order < nextOrder'
    BY DEF LineNumbered, Queued
<1>1. /\ TypeOK /\ job \in [Requests -> JobStates] /\ nextOrder \in Nat
      /\ ticket \in [Requests -> [order : Nat, left : Nat]]
    BY DEF CoreInv, TypeOK
<1>2. ticket[q].order \in Nat /\ (q \in Queued => ticket[q].order < nextOrder)
    BY <1>1 DEF LineNumbered
<1>3. ASSUME NEW r \in Requests, Admit(r)
      PROVE  ticket'[q].order < nextOrder'
    <2>1. /\ job' = [Removed(Swept) EXCEPT ![r] = "queued"]
          /\ ticket' = [Forgotten(Swept) EXCEPT ![r] =
                            [order |-> nextOrder, left |-> MaxWait[ClassOf(r)]]]
          /\ nextOrder' = nextOrder + 1
        BY <1>3 DEF Admit
    <2>2. CASE q = r
        <3>1. ticket'[q].order = nextOrder
            BY <2>1, <2>2 DEF Forgotten
        <3> QED
            BY <1>1, <2>1, <3>1
    <2>3. CASE q # r
        <3>1. q \in Queued /\ ticket'[q] = ticket[q]
            BY <2>1, <2>3 DEF Removed, Forgotten, Queued
        <3> QED
            BY <1>1, <1>2, <2>1, <3>1
    <2> QED
        BY <2>2, <2>3
<1>4. CASE ~(\E r \in Requests : Admit(r))
    <2>1. q \in Queued
        BY <1>4, QueuedMoves DEF Queued
    <2>2. /\ ticket'[q].order = ticket[q].order
          /\ nextOrder' \in {nextOrder, nextOrder + 1}
        BY <1>4, TicketsKept
    <2> QED
        BY <1>1, <1>2, <2>1, <2>2
<1> QED
    BY <1>3, <1>4

\* The line's own names for the waiting and the selected jobs.
LEMMA LineSets ==
    ASSUME CertaintyInv
    PROVE  /\ Line!Waiting = Queued
           /\ Line!Selected = {r \in Requests : job[r] = "selected"}
<1>1. ASSUME NEW r \in Requests
      PROVE  /\ PlaceOf(r) = "waiting" <=> job[r] = "queued"
             /\ PlaceOf(r) = "selected" <=> job[r] = "selected"
    <2>1. job[r] \in {"absent", "queued", "selected"} => r \notin started
        BY DEF CertaintyInv, RequestConsistent
    <2> QED
        BY <2>1 DEF PlaceOf
<1> QED
    BY <1>1 DEF Line!Waiting, Line!Selected, Line!At, LinePlace, Queued

\* What becomes of the place of a request whose job does not move, or goes.
LEMMA PlaceKept ==
    ASSUME CertaintyInv, NEW r \in Requests, r \in started' <=> r \in started,
           job[r] = "absent" =>
                (reply'[r] = "queue_full" <=> reply[r] = "queue_full")
    PROVE  /\ job'[r] = job[r] => PlaceOf(r)' = PlaceOf(r)
           /\ job[r] \in {"queued", "selected"} /\ job'[r] = "gone" =>
                PlaceOf(r)' = "gone"
<1>1. job[r] \in {"queued", "selected"} => r \notin started
    BY DEF CertaintyInv, RequestConsistent
<1>2. ASSUME job'[r] = job[r] PROVE PlaceOf(r)' = PlaceOf(r)
    BY <1>2 DEF PlaceOf
<1>3. ASSUME job[r] \in {"queued", "selected"}, job'[r] = "gone"
      PROVE  PlaceOf(r)' = "gone"
    BY <1>1, <1>3 DEF PlaceOf
<1> QED
    BY <1>2, <1>3

\* What changes no job, ticket or caller of a waiting or selected job, and
\* fills no queue, is a stutter of the line.
LEMMA LineUnmoved ==
    ASSUME CertaintyInv,
           UNCHANGED <<job, ticket, started, streak, competing>>,
           \A r \in Requests :
            /\ job[r] \in {"queued", "selected"} =>
                (call'[r] = "cancelled" <=> call[r] = "cancelled")
            /\ job[r] = "absent" =>
                (reply'[r] = "queue_full" <=> reply[r] = "queue_full")
    PROVE  UNCHANGED Line!vars
<1>1. LinePlace' = LinePlace
    BY PlaceKept DEF LinePlace
<1>2. Earlier' = Earlier
    BY DEF Earlier, Queued
<1>3. Spoilt' = Spoilt
    BY DEF Spoilt, Stale, Cancelled
<1> QED
    BY <1>1, <1>2, <1>3 DEF Line!vars

\* Waiting or selected jobs that go, all else as it was.
LEMMA LineThinned ==
    ASSUME CertaintyInv, NEW gone \in SUBSET Requests,
           \A r \in gone : job[r] \in {"queued", "selected"},
           job' = Removed(gone), ticket' = Forgotten(gone), started' = started,
           \A r \in Requests :
            /\ job[r] \in {"queued", "selected"} => call'[r] = call[r]
            /\ job[r] = "absent" =>
                (reply'[r] = "queue_full" <=> reply[r] = "queue_full")
    PROVE  /\ LinePlace' = Line!Moved(gone, "gone")
           /\ Earlier' = Line!Among(Queued \ gone)
           /\ Spoilt' = Spoilt \ gone
<1>1. \A r \in Requests :
        /\ job'[r] = IF r \in gone THEN "gone" ELSE job[r]
        /\ r \notin gone => ticket'[r] = ticket[r]
    BY DEF Removed, Forgotten
<1>2. LinePlace' = Line!Moved(gone, "gone")
    BY <1>1, PlaceKept DEF LinePlace, Line!Moved
<1>3. Queued' = Queued \ gone
    BY <1>1 DEF Queued
<1>4. Earlier' = Line!Among(Queued \ gone)
    BY <1>1, <1>3 DEF Earlier, Line!Among, Queued
<1>5. Spoilt' = Spoilt \ gone
    BY <1>1 DEF Spoilt, Stale, Cancelled
<1> QED
    BY <1>2, <1>4, <1>5

\* Outside the handoff nobody is selected; the lock is free only then.
LEMMA NobodySelected ==
    ASSUME CoreInv, CertaintyInv, sched # "handoff"
    PROVE  Line!Selected = {}
BY LineSets DEF CoreInv, OneSelected

\* maintain drops what may drop.
LEMMA SweptDroppable ==
    ASSUME CertaintyInv
    PROVE  Swept \in Line!Droppable
BY LineSets DEF Line!Droppable, Swept, Spoilt, Queued

\* What a sweep removes, and all it removes.
LEMMA SweepThins ==
    ASSUME CertaintyInv, job' = Removed(Swept), ticket' = Forgotten(Swept),
           started' = started,
           \A r \in Requests :
            /\ job[r] \in {"queued", "selected"} => call'[r] = call[r]
            /\ job[r] = "absent" =>
                (reply'[r] = "queue_full" <=> reply[r] = "queue_full")
    PROVE  /\ LinePlace' = Line!Moved(Swept, "gone")
           /\ Earlier' = Line!Among(Queued \ Swept)
           /\ Spoilt' = Spoilt \ Swept
<1>1. \A r \in Swept : r \in Requests /\ job[r] \in {"queued", "selected"}
    BY DEF Swept, Queued
<1> QED
    BY <1>1, LineThinned

\* A sweep that admits nobody: on the scheduler's way in, or before a request
\* that its budget turns away.
LEMMA DropLine ==
    ASSUME CoreInv, CertaintyInv,
           SchedLock \/ \E r \in Requests : RejectBudget(r)
    PROVE  Line!Drop
<1>1. /\ job' = Removed(Swept) /\ ticket' = Forgotten(Swept)
      /\ UNCHANGED <<started, streak, competing>> /\ sched # "handoff"
    BY DEF SchedLock, Maintain, RejectBudget, Enqueues, LockFree, schedVars
<1>2. \A q \in Requests :
        /\ job[q] \in {"queued", "selected"} => call'[q] = call[q]
        /\ job[q] = "absent" =>
            (reply'[q] = "queue_full" <=> reply[q] = "queue_full")
    <2>1. \A q \in Swept : job[q] = "queued"
        BY DEF Swept, Queued
    <2>2. CASE SchedLock
        BY <2>1, <2>2 DEF SchedLock, Maintain, Sent
    <2>3. ASSUME NEW r \in Requests, RejectBudget(r),
                 NEW q \in Requests
          PROVE  /\ job[q] \in {"queued", "selected"} => call'[q] = call[q]
                 /\ job[q] = "absent" =>
                        (reply'[q] = "queue_full" <=> reply[q] = "queue_full")
        <3>1. /\ job[r] = "absent" /\ reply[r] = "none"
              /\ call' = [call EXCEPT ![r] = "answered"]
              /\ reply' = [Sent(Swept, "queue_timeout")
                            EXCEPT ![r] = "budget_exhausted"]
            BY <2>3 DEF RejectBudget, Enqueues, CertaintyInv, RequestConsistent
        <3> QED
            BY <2>1, <3>1 DEF Sent, CoreInv, TypeOK
    <2> QED
        BY <2>2, <2>3
<1>3. /\ LinePlace' = Line!Moved(Swept, "gone")
      /\ Earlier' = Line!Among(Queued \ Swept)
      /\ Spoilt' = Spoilt \ Swept
    BY <1>1, <1>2, SweepThins
<1> QED
    BY <1>1, <1>3, SweptDroppable, NobodySelected, LineSets DEF Line!Drop

\* The line counts as the gateway does.
LEMMA LineCardinality == \A S : Line!Cardinality(S) = Cardinality(S)
BY DEF Cardinality, Line!Cardinality

\* The line and the handler agree on whether there is room.
LEMMA RoomAgrees ==
    ASSUME NEW r \in Requests
    PROVE  QueueFull(r) <=>
            ~(Line!Cardinality({q \in Queued \ Swept :
                    [x \in Requests |-> ClassOf(x)][q]
                        = [x \in Requests |-> ClassOf(x)][r]})
                < QueueCapacity)
<1> DEFINE mates == {q \in Queued \ Swept :
                        [x \in Requests |-> ClassOf(x)][q]
                            = [x \in Requests |-> ClassOf(x)][r]}
<1>1. mates = (Queued \ Swept) \intersect OfClass(ClassOf(r))
    BY DEF Queued, OfClass
<1>2. mates \in SUBSET Requests
    BY DEF Queued
<1>3. Cardinality(mates) \in Nat /\ QueueCapacity \in Nat
    BY <1>2, FiniteRequests, GatewayAssumption DEF GatewayAssumption
<1>4. Line!Cardinality(mates) = Cardinality(mates)
    BY LineCardinality
<1>5. QueueFull(r) <=> Cardinality(mates) >= QueueCapacity
    BY <1>1 DEF QueueFull
<1> HIDE DEF mates
<1>6. QueueFull(r) <=> ~(Line!Cardinality(mates) < QueueCapacity)
    BY <1>3, <1>4, <1>5
<1> QED
    BY <1>6 DEF mates

\* Past the budget, a request joins the line or finds its class full.
LEMMA ArriveLine ==
    ASSUME CoreInv, CertaintyInv, LineNumbered, NEW r \in Requests,
           RejectFull(r) \/ Admit(r)
    PROVE  Line!Arrive(r)
<1>1. /\ sched # "handoff" /\ call[r] = "idle"
      /\ UNCHANGED <<started, streak, competing>>
    BY DEF RejectFull, Admit, Enqueues, LockFree, schedVars
<1>2. /\ job[r] = "absent" /\ reply[r] = "none" /\ r \notin started
      /\ r \notin Queued /\ r \notin Swept /\ PlaceOf(r) = "new"
    BY <1>1 DEF CertaintyInv, RequestConsistent, PlaceOf, Queued, Swept
<1>3. /\ Line!Waiting = Queued /\ Line!Selected = {}
      /\ Swept \in Line!Droppable /\ LinePlace[r] = "new"
    BY <1>1, <1>2, NobodySelected, LineSets, SweptDroppable DEF LinePlace
<1>4. /\ TypeOK /\ nextOrder \in Nat
      /\ ticket \in [Requests -> [order : Nat, left : Nat]]
      /\ job \in [Requests -> JobStates] /\ reply \in [Requests -> Replies]
      /\ call \in [Requests ->
                {"idle", "posting", "awaiting", "answered", "cancelled"}]
    BY DEF CoreInv, TypeOK
<1>5. \A q \in Swept : q \in Queued /\ job[q] = "queued" /\ q \in Requests
    BY DEF Swept, Queued
<1>6. ASSUME NEW q \in Requests, q # r,
             job'[q] = Removed(Swept)[q], ticket'[q] = Forgotten(Swept)[q],
             reply'[q] = Sent(Swept, "queue_timeout")[q], call'[q] = call[q]
      PROVE  /\ PlaceOf(q)' = IF q \in Swept THEN "gone" ELSE PlaceOf(q)
             /\ q \in Queued' <=> q \in Queued \ Swept
             /\ q \notin Swept => ticket'[q] = ticket[q]
             /\ q \in Spoilt' <=> q \in Spoilt \ Swept
    <2>1. /\ job'[q] = IF q \in Swept THEN "gone" ELSE job[q]
          /\ q \notin Swept => ticket'[q] = ticket[q] /\ reply'[q] = reply[q]
        BY <1>6 DEF Removed, Forgotten, Sent
    <2>2. PlaceOf(q)' = IF q \in Swept THEN "gone" ELSE PlaceOf(q)
        BY <1>1, <1>5, <2>1, PlaceKept
    <2>3. q \in Queued' <=> q \in Queued \ Swept
        BY <2>1 DEF Queued
    <2>4. q \in Spoilt' <=> q \in Spoilt \ Swept
        BY <1>6, <2>1 DEF Spoilt, Stale, Cancelled
    <2> QED
        BY <2>1, <2>2, <2>3, <2>4
<1>7. CASE RejectFull(r)
    <2>1. /\ QueueFull(r)
          /\ job' = Removed(Swept) /\ ticket' = Forgotten(Swept)
          /\ reply' = [Sent(Swept, "queue_timeout") EXCEPT ![r] = "queue_full"]
          /\ call' = [call EXCEPT ![r] = "answered"]
        BY <1>7 DEF RejectFull
    <2>2. /\ job'[r] = "absent" /\ reply'[r] = "queue_full"
          /\ r \notin started'
        BY <1>1, <1>2, <2>1 DEF Removed, Sent
    <2>3. PlaceOf(r)' = "gone" /\ r \notin Queued' /\ r \notin Spoilt'
        BY <2>2 DEF PlaceOf, Queued, Spoilt
    <2>4. \A q \in Requests \ {r} :
            /\ PlaceOf(q)' = IF q \in Swept THEN "gone" ELSE PlaceOf(q)
            /\ q \in Queued' <=> q \in Queued \ Swept
            /\ q \notin Swept => ticket'[q] = ticket[q]
            /\ q \in Spoilt' <=> q \in Spoilt \ Swept
        BY <1>4, <1>6, <2>1 DEF Sent
    <2>5. LinePlace' = Line!Moved(Swept \union {r}, "gone")
        BY <2>3, <2>4 DEF LinePlace, Line!Moved
    <2>6. Queued' = Queued \ Swept
        BY <1>2, <2>3, <2>4 DEF Queued
    <2>7. Earlier' = Line!Among(Queued \ Swept)
        BY <1>2, <2>4, <2>6 DEF Earlier, Line!Among, Queued
    <2>8. Spoilt' = Spoilt \ Swept
        BY <1>2, <2>3, <2>4 DEF Spoilt
    <2> QED
        BY <1>1, <1>3, <2>1, <2>5, <2>7, <2>8, RoomAgrees DEF Line!Arrive
<1>8. CASE Admit(r)
    <2>1. /\ ~QueueFull(r)
          /\ job' = [Removed(Swept) EXCEPT ![r] = "queued"]
          /\ reply' = Sent(Swept, "queue_timeout")
          /\ ticket' = [Forgotten(Swept) EXCEPT ![r] =
                            [order |-> nextOrder, left |-> MaxWait[ClassOf(r)]]]
          /\ call' = [call EXCEPT ![r] = "posting"]
        BY <1>8 DEF Admit
    <2>2. /\ job'[r] = "queued" /\ r \notin started'
          /\ ticket'[r] = [order |-> nextOrder, left |-> MaxWait[ClassOf(r)]]
          /\ call'[r] = "posting"
        BY <1>1, <1>2, <1>4, <2>1 DEF Removed, Forgotten
    <2>3. MaxWait[ClassOf(r)] # 0
        BY GatewayAssumption DEF GatewayAssumption, ClassOf
    <2>4. PlaceOf(r)' = "waiting" /\ r \in Queued' /\ r \notin Spoilt'
        BY <2>2, <2>3 DEF PlaceOf, Queued, Spoilt, Stale, Cancelled
    <2>5. \A q \in Requests \ {r} :
            /\ PlaceOf(q)' = IF q \in Swept THEN "gone" ELSE PlaceOf(q)
            /\ q \in Queued' <=> q \in Queued \ Swept
            /\ q \notin Swept => ticket'[q] = ticket[q]
            /\ q \in Spoilt' <=> q \in Spoilt \ Swept
        BY <1>4, <1>6, <2>1 DEF Removed, Forgotten
    <2>6. LinePlace' = [Line!Moved(Swept, "gone") EXCEPT ![r] = "waiting"]
        BY <2>4, <2>5 DEF LinePlace, Line!Moved
    <2>7. Queued' = (Queued \ Swept) \union {r}
        BY <1>2, <2>4, <2>5 DEF Queued
    <2>8. Earlier' = Line!Among(Queued \ Swept)
                        \union ((Queued \ Swept) \X {r})
        <3>1. /\ \A q \in Queued \ Swept : ticket'[q] = ticket[q]
                    /\ ticket[q].order \in Nat /\ ticket[q].order < nextOrder
              /\ ticket'[r].order = nextOrder
            BY <1>2, <1>4, <2>2, <2>5 DEF LineNumbered, Queued
        <3> QED
            BY <1>2, <1>4, <2>7, <3>1 DEF Earlier, Line!Among
    <2>9. Spoilt' = Spoilt \ Swept
        BY <1>2, <2>4, <2>5 DEF Spoilt
    <2> QED
        BY <1>1, <1>3, <2>1, <2>6, <2>8, <2>9, RoomAgrees DEF Line!Arrive
<1> QED
    BY <1>7, <1>8

\* The first of some numbers is the least of them.
LEMMA FirstIsLeast ==
    ASSUME NEW S \in SUBSET Nat, S # {}
    PROVE  First(S) \in S /\ \A m \in S : First(S) <= m
<1>1. PICK n \in S : \A m \in S : <<m, n>> \notin OpToRel(<, Nat)
    BY WFMin, NatLessThanWellFounded, Zenon
<1>2. \A m \in S : ~(m < n)
    BY <1>1, Zenon DEF OpToRel
<1>3. \A m \in S : n <= m
    BY <1>2
<1> QED
    BY <1>3 DEF First

\* pop_next takes the job whose turn it is.
LEMMA PopLine ==
    ASSUME CoreInv, CertaintyInv, Pop
    PROVE  \E r \in Requests : Line!Select(r)
<1> DEFINE rest == Queued \ Swept
           interactive == rest \intersect OfClass("interactive")
           agents == rest \intersect OfClass("agent")
           prefers == PicksInteractive(Mode, streak, Orders(interactive),
                                       Orders(agents))
           chosen == IF prefers THEN interactive ELSE agents
<1>1. PICK r \in chosen :
        /\ \A q \in chosen : ticket[r].order <= ticket[q].order
        /\ job' = [Removed(Swept) EXCEPT ![r] = "selected"]
        /\ ticket' = Forgotten(Swept) /\ reply' = Sent(Swept, "queue_timeout")
        /\ competing' = (interactive # {} /\ agents # {})
        /\ UNCHANGED <<started, call, streak>> /\ sched = "fill"
    BY DEF Pop
<1>2. /\ TypeOK /\ streak \in Nat /\ Mode \in Modes
      /\ ticket \in [Requests -> [order : Nat, left : Nat]]
      /\ job \in [Requests -> JobStates] /\ reply \in [Requests -> Replies]
      /\ \A q \in Requests : ClassOf(q) \in Classes
    BY GatewayAssumption DEF GatewayAssumption, CoreInv, TypeOK, ClassOf
<1>3. /\ r \in Requests /\ r \in Queued /\ r \notin Swept /\ r \in rest
      /\ job[r] = "queued" /\ reply[r] = "none" /\ r \notin started
    BY <1>1 DEF Queued, CertaintyInv, RequestConsistent
<1>4. /\ Line!Waiting = Queued /\ Line!Selected = {} /\ Swept \in Line!Droppable
    BY <1>1, NobodySelected, LineSets, SweptDroppable
<1>5. \A q \in rest : q \in Requests /\ q \in Queued
    BY DEF Queued
<1>6. \A q \in rest : /\ q \in interactive <=> ClassOf(q) = "interactive"
                      /\ q \in agents <=> ClassOf(q) = "agent"
                      /\ q \in interactive \/ q \in agents
    BY <1>2, <1>5 DEF OfClass, Classes
<1>7. Line!Rivals(r, rest) = {q \in rest : ClassOf(q) # ClassOf(r)}
    BY <1>3, <1>5 DEF Line!Rivals
<1>8. competing' = (Line!Rivals(r, rest) # {})
    <2>1. interactive \subseteq rest /\ agents \subseteq rest
        OBVIOUS
    <2> QED
        BY <1>1, <1>3, <1>6, <1>7, <2>1
<1>9. {q \in rest : <<q, r>> \in Earlier}
        = {q \in rest : ticket[q].order < ticket[r].order}
    BY <1>3, <1>5 DEF Earlier
<1>10. \A q \in rest : ClassOf(q) = ClassOf(r) =>
            ~(ticket[q].order < ticket[r].order)
    <2> SUFFICES ASSUME NEW q \in rest, ClassOf(q) = ClassOf(r)
                 PROVE  ~(ticket[q].order < ticket[r].order)
        OBVIOUS
    <2>1. q \in chosen
        BY <1>1, <1>3, <1>6
    <2>2. ticket[r].order <= ticket[q].order
        BY <1>1, <2>1
    <2> QED
        BY <1>2, <1>3, <1>5, <2>2
<1>11. Mode = "fifo" =>
            \A q \in rest : ~(ticket[q].order < ticket[r].order)
    <2> SUFFICES ASSUME Mode = "fifo", NEW q \in rest,
                        ClassOf(q) # ClassOf(r)
                 PROVE  ticket[r].order <= ticket[q].order
        BY <1>2, <1>3, <1>5, <1>10
    <2> DEFINE fi == First(Orders(interactive))
               fa == First(Orders(agents))
    <2>1. /\ q \in Requests
          /\ prefers => r \in interactive /\ q \in agents
          /\ ~prefers => r \in agents /\ q \in interactive
        BY <1>1, <1>3, <1>5, <1>6
    <2>2. interactive # {} /\ agents # {}
        BY <2>1
    <2>3. \A jobs \in {interactive, agents} :
            /\ Orders(jobs) \in SUBSET Nat /\ Orders(jobs) # {}
            /\ \A p \in jobs : ticket[p].order \in Orders(jobs)
        BY <1>2, <1>5, <2>2 DEF Orders
    <2>4. /\ fi \in Orders(interactive) /\ \A m \in Orders(interactive) : fi <= m
          /\ fa \in Orders(agents) /\ \A m \in Orders(agents) : fa <= m
        BY <2>3, FirstIsLeast
    <2>5. prefers <=> fi < fa
        BY <2>2, <2>3 DEF PicksInteractive
    <2>6. /\ \E p \in interactive : fi = ticket[p].order
          /\ \E p \in agents : fa = ticket[p].order
        BY <2>4 DEF Orders
    <2>7. /\ fi \in Nat /\ fa \in Nat
          /\ ticket[r].order \in Nat /\ ticket[q].order \in Nat
        BY <1>2, <1>3, <2>1, <2>3, <2>4
    <2>8. CASE prefers
        <3>1. ticket[r].order <= fi
            BY <1>1, <2>6, <2>8
        <3>2. fa <= ticket[q].order
            BY <2>1, <2>3, <2>4, <2>8
        <3> QED
            BY <2>5, <2>7, <2>8, <3>1, <3>2
    <2>9. CASE ~prefers
        <3>1. ticket[r].order <= fa
            BY <1>1, <2>6, <2>9
        <3>2. fi <= ticket[q].order
            BY <2>1, <2>3, <2>4, <2>9
        <3> QED
            BY <2>5, <2>7, <2>9, <3>1, <3>2
    <2> QED
        BY <2>8, <2>9
<1>12. Mode = "weighted" /\ Line!Rivals(r, rest) # {} =>
            (ClassOf(r) = "interactive" <=> streak < StreakLimit)
    <2> SUFFICES ASSUME Mode = "weighted", Line!Rivals(r, rest) # {}
                 PROVE  ClassOf(r) = "interactive" <=> streak < StreakLimit
        OBVIOUS
    <2>1. interactive # {} /\ agents # {}
        BY <1>3, <1>6, <1>7
    <2>2. Orders(interactive) # {} /\ Orders(agents) # {}
        BY <2>1 DEF Orders
    <2>3. prefers <=> streak < StreakLimit
        BY <2>2 DEF PicksInteractive
    <2>4. r \in interactive <=> prefers
        <3>1. interactive \intersect agents = {}
            BY DEF OfClass
        <3> QED
            BY <1>1, <3>1
    <2> QED
        BY <1>3, <1>6, <2>3, <2>4
<1>13. Line!IsNext(r, rest)
    <2>1. {q \in rest : <<q, r>> \in Earlier} \subseteq Line!Rivals(r, rest)
        BY <1>7, <1>9, <1>10
    <2>2. Mode = "fifo" => {q \in rest : <<q, r>> \in Earlier} = {}
        BY <1>9, <1>11
    <2>3. [x \in Requests |-> ClassOf(x)][r] = ClassOf(r)
        BY <1>3
    <2> QED
        BY <1>2, <1>12, <2>1, <2>2, <2>3 DEF Line!IsNext, Modes
<1>14. \A q \in Requests :
        /\ job'[q] = IF q = r THEN "selected"
                     ELSE IF q \in Swept THEN "gone" ELSE job[q]
        /\ q \notin Swept => ticket'[q] = ticket[q] /\ reply'[q] = reply[q]
        /\ job[q] = "absent" => reply'[q] = reply[q]
    BY <1>1, <1>3 DEF Removed, Forgotten, Sent, Swept, Queued
<1>15. LinePlace' = [Line!Moved(Swept, "gone") EXCEPT ![r] = "selected"]
    <2>1. PlaceOf(r)' = "selected"
        BY <1>1, <1>3, <1>14 DEF PlaceOf
    <2>2. ASSUME NEW q \in Requests, q # r
          PROVE  PlaceOf(q)' = IF q \in Swept THEN "gone" ELSE PlaceOf(q)
        <3>1. q \in Swept => job[q] = "queued"
            BY DEF Swept, Queued
        <3> QED
            BY <1>1, <1>14, <2>2, <3>1, PlaceKept
    <2> QED
        BY <1>3, <2>1, <2>2 DEF LinePlace, Line!Moved
<1>16. Queued' = rest \ {r}
    BY <1>3, <1>14 DEF Queued
<1>17. Earlier' = Line!Among(rest \ {r})
    BY <1>5, <1>14, <1>16 DEF Earlier, Line!Among
<1>18. Spoilt' = Spoilt \ Swept
    <2>1. ASSUME NEW q \in Requests
          PROVE  q \in Spoilt' <=> q \in Spoilt \ Swept
        <3>1. q \notin Swept => (Stale(q)' <=> Stale(q))
            BY <1>1, <1>14 DEF Stale, Cancelled
        <3> QED
            BY <1>3, <1>14, <3>1 DEF Spoilt
    <2> QED
        BY <2>1 DEF Spoilt
<1> HIDE DEF rest
<1>19. \E gone \in Line!Droppable :
        LET left == Line!Waiting \ gone
        IN  /\ r \in left
            /\ Line!IsNext(r, left)
            /\ LinePlace' = [Line!Moved(gone, "gone") EXCEPT ![r] = "selected"]
            /\ Earlier' = Line!Among(left \ {r})
            /\ Spoilt' = Spoilt \ gone
            /\ competing' = (Line!Rivals(r, left) # {})
    <2>1. Line!Waiting \ Swept = rest
        BY <1>4 DEF rest
    <2> QED
        BY <1>3, <1>4, <1>8, <1>13, <1>15, <1>17, <1>18, <2>1
<1> QED
    BY <1>1, <1>3, <1>4, <1>19 DEF Line!Select

\* A scheduler that finds nobody empties the line.
LEMMA NothingLine ==
    ASSUME CoreInv, CertaintyInv, PopNothing
    PROVE  Line!Rest
<1>1. /\ sched = "fill" /\ Queued \ Swept = {} /\ streak' = 0
      /\ job' = Removed(Swept) /\ ticket' = Forgotten(Swept)
      /\ reply' = Sent(Swept, "queue_timeout")
      /\ UNCHANGED <<started, call, competing>>
    BY DEF PopNothing, Maintain
<1>2. Line!Waiting = Queued /\ Line!Selected = {}
    BY <1>1, NobodySelected, LineSets
<1>3. \A r \in Requests : job[r] = "absent" => reply'[r] = reply[r]
    BY <1>1 DEF Sent, Swept, Queued
<1>4. /\ LinePlace' = Line!Moved(Swept, "gone")
      /\ Earlier' = Line!Among(Queued \ Swept)
      /\ Spoilt' = Spoilt \ Swept
    BY <1>1, <1>3, SweepThins
<1>5. Swept = Queued /\ Queued \subseteq Spoilt
    BY <1>1, SweptQueued DEF Swept, Spoilt, Queued
<1>6. Line!Among({}) = {}
    BY DEF Line!Among
<1>7. Spoilt \subseteq Queued
    <2>1. \A r \in Requests : job[r] # "selected"
        BY <1>1 DEF CoreInv, OneSelected
    <2> QED
        BY <2>1 DEF Spoilt, Queued
<1> QED
    BY <1>1, <1>2, <1>4, <1>5, <1>6, <1>7 DEF Line!Rest

\* The end of a selection: the job is dropped at the last moment, or started.
LEMMA SettleLine ==
    ASSUME CoreInv, CertaintyInv, NEW r \in Requests
    PROVE  /\ Discard(r) => Line!Skip(r)
           /\ Handoff(r) => Line!Start(r)
<1>1. /\ job \in [Requests -> JobStates]
      /\ Line!Selected = {q \in Requests : job[q] = "selected"}
    BY LineSets DEF CoreInv, TypeOK
<1>2. job[r] = "selected" => (r \in Spoilt <=> Stale(r))
    BY DEF Spoilt
<1>3. Earlier = Line!Among(Queued)
    BY DEF Earlier, Line!Among
<1>4. ASSUME Discard(r) PROVE Line!Skip(r)
    <2>1. /\ job[r] = "selected" /\ Stale(r)
          /\ job' = Removed({r}) /\ ticket' = Forgotten({r})
          /\ reply' = Sent({r}, "queue_timeout")
          /\ UNCHANGED <<started, call, streak, competing>>
        BY <1>4 DEF Discard
    <2>2. \A q \in Requests : job[q] = "absent" => reply'[q] = reply[q]
        BY <2>1 DEF Sent
    <2>3. /\ LinePlace' = Line!Moved({r}, "gone")
          /\ Earlier' = Line!Among(Queued \ {r})
          /\ Spoilt' = Spoilt \ {r}
        BY <2>1, <2>2, LineThinned
    <2>4. Queued \ {r} = Queued
        BY <2>1 DEF Queued
    <2> QED
        BY <1>1, <1>2, <1>3, <2>1, <2>3, <2>4 DEF Line!Skip
<1>5. ASSUME Handoff(r) PROVE Line!Start(r)
    <2>1. /\ job[r] = "selected" /\ ~Stale(r)
          /\ job' = [job EXCEPT ![r] = "running"] /\ ticket' = Forgotten({r})
          /\ streak' = NextStreak(Mode, streak, competing, ClassOf(r))
          /\ started' = started \union {r}
          /\ UNCHANGED <<reply, call, competing>>
        BY <1>5 DEF Handoff
    <2>2. \A q \in Requests \ {r} :
            /\ job'[q] = job[q] /\ ticket'[q] = ticket[q]
            /\ q \in started' <=> q \in started
        BY <1>1, <2>1 DEF Forgotten
    <2>3. job'[r] = "running" /\ r \in started'
        BY <1>1, <2>1
    <2>4. LinePlace' = Line!Moved({r}, "started")
        <3>1. PlaceOf(r)' = "started"
            BY <2>3 DEF PlaceOf
        <3>2. \A q \in Requests \ {r} : PlaceOf(q)' = PlaceOf(q)
            BY <2>1, <2>2, PlaceKept
        <3> QED
            BY <3>1, <3>2 DEF LinePlace, Line!Moved
    <2>5. Queued' = Queued /\ r \notin Queued
        BY <2>1, <2>2, <2>3 DEF Queued
    <2>6. Earlier' = Earlier
        BY <2>2, <2>5 DEF Earlier, Queued
    <2>7. Spoilt' = Spoilt
        BY <1>2, <2>1, <2>2, <2>3 DEF Spoilt, Stale, Cancelled
    <2>8. r \in Line!Selected \ Spoilt
        BY <1>1, <1>2, <2>1
    <2>9. streak' = IF Mode = "weighted" /\ competing
                       /\ [x \in Requests |-> ClassOf(x)][r] = "interactive"
                    THEN streak + 1 ELSE 0
        BY <2>1 DEF NextStreak
    <2> QED
        BY <2>1, <2>4, <2>6, <2>7, <2>8, <2>9 DEF Line!Start
<1> QED
    BY <1>4, <1>5

\* Dropping the gateway sends everybody away, unless a selection is under way.
LEMMA ClearLine ==
    ASSUME CoreInv, CertaintyInv, DropUnlocked \/ CleanUp
    PROVE  Line!Clear
<1>1. /\ sched # "handoff"
      /\ job' = Removed(Queued) /\ ticket' = Forgotten(Queued)
      /\ reply' = Sent(Queued, "gateway_closed")
      /\ UNCHANGED <<started, call, streak, competing>>
    BY DEF DropUnlocked, CleanUp, RejectPending, LockFree, schedVars
<1>2. \A r \in Queued : r \in Requests /\ job[r] = "queued"
    BY DEF Queued
<1>3. \A r \in Requests : job[r] = "absent" => reply'[r] = reply[r]
    BY <1>1, <1>2 DEF Sent
<1>4. /\ LinePlace' = Line!Moved(Queued, "gone")
      /\ Earlier' = Line!Among(Queued \ Queued)
      /\ Spoilt' = Spoilt \ Queued
    BY <1>1, <1>2, <1>3, LineThinned
<1>5. Line!Among(Queued \ Queued) = {}
    BY DEF Line!Among
<1> QED
    BY <1>1, <1>4, <1>5, NobodySelected, LineSets DEF Line!Clear

\* Callers leave, and time passes, without moving the line.
LEMMA SpoilLine ==
    ASSUME CoreInv, CertaintyInv, Tick \/ \E r \in Requests : Cancel(r)
    PROVE  Line!Spoil
<1>1. /\ UNCHANGED <<job, reply, started, streak, competing>>
      /\ \A q \in Requests : /\ ticket'[q].order = ticket[q].order
                             /\ Stale(q) => Stale(q)'
    <2>1. /\ ticket \in [Requests -> [order : Nat, left : Nat]]
          /\ call \in [Requests ->
                    {"idle", "posting", "awaiting", "answered", "cancelled"}]
        BY DEF CoreInv, TypeOK
    <2>2. CASE Tick
        <3>1. \A q \in Requests :
                ticket'[q] = IF ticket[q].left > 0
                             THEN [ticket[q] EXCEPT !.left = ticket[q].left - 1]
                             ELSE ticket[q]
            BY <2>2 DEF Tick
        <3>2. \A q \in Requests : /\ ticket'[q].order = ticket[q].order
                                  /\ ticket[q].left = 0 => ticket'[q].left = 0
            <4> SUFFICES ASSUME NEW q \in Requests
                         PROVE  /\ ticket'[q].order = ticket[q].order
                                /\ ticket[q].left = 0 => ticket'[q].left = 0
                OBVIOUS
            <4>1. CASE ticket[q].left > 0
                <5>1. /\ ticket[q] \in [order : Nat, left : Nat]
                      /\ ticket'[q] =
                            [ticket[q] EXCEPT !.left = ticket[q].left - 1]
                    BY <2>1, <3>1, <4>1
                <5>2. ticket[q].left # 0 /\ ticket'[q].order = ticket[q].order
                    BY <4>1, <5>1
                <5> QED
                    BY <5>2
            <4>2. CASE ~(ticket[q].left > 0)
                BY <3>1, <4>2
            <4> QED
                BY <4>1, <4>2
        <3>3. UNCHANGED <<job, call, reply, started, streak, competing>>
            BY <2>2 DEF Tick, callVars
        <3>4. \A q \in Requests : Stale(q) => Stale(q)'
            BY <3>2, <3>3 DEF Stale, Cancelled
        <3> QED
            BY <3>2, <3>3, <3>4
    <2>3. CASE \E r \in Requests : Cancel(r)
        BY <2>1, <2>3 DEF Cancel, Stale, Cancelled, queueVars, schedVars
    <2> QED
        BY <2>2, <2>3
<1>2. LinePlace' = LinePlace
    BY <1>1 DEF LinePlace, PlaceOf
<1>3. Earlier' = Earlier
    BY <1>1 DEF Earlier, Queued
<1>4. /\ Spoilt \subseteq Spoilt'
      /\ Spoilt' \subseteq Line!Waiting \union Line!Selected
    <2>1. \A q \in Requests : Stale(q) => Stale(q)'
        BY <1>1
    <2> QED
        BY <1>1, <2>1, LineSets DEF Spoilt, Queued
<1>5. Spoilt' = Spoilt \union (Spoilt' \ Spoilt)
    BY <1>4
<1>6. \E more \in SUBSET (Line!Waiting \union Line!Selected) :
        Spoilt' = Spoilt \union more
    BY <1>4, <1>5
<1> QED
    BY <1>1, <1>2, <1>3, <1>6 DEF Line!Spoil

\* Executors work on jobs that left the line.
LEMMA ExecutorsBeyond ==
    ASSUME CoreInv, CertaintyInv, NEW r \in Requests, Executor(r)
    PROVE  UNCHANGED Line!vars
<1>1. /\ job[r] \in {"running", "released"} /\ job'[r] \in {"released", "gone"}
      /\ \A q \in Requests \ {r} : job'[q] = job[q] /\ reply'[q] = reply[q]
      /\ UNCHANGED <<ticket, call, started, streak, competing>>
    BY DEF Executor, Release, Unwind, Answer, Removed, Sent, callVars,
        schedVars, CoreInv, TypeOK
<1>2. r \in started /\ r \in started'
    BY <1>1 DEF CertaintyInv, RequestConsistent
<1>3. \A q \in Requests : PlaceOf(q)' = PlaceOf(q)
    BY <1>1, <1>2 DEF PlaceOf
<1>4. /\ LinePlace' = LinePlace
      /\ Queued' = Queued
    BY <1>1, <1>3 DEF LinePlace, Queued
<1>5. Earlier' = Earlier
    BY <1>1, <1>4 DEF Earlier
<1>6. Spoilt' = Spoilt
    BY <1>1 DEF Spoilt, Stale, Cancelled
<1> QED
    BY <1>1, <1>4, <1>5, <1>6 DEF Line!vars

\* A handler that does not enqueue is out of sight of the line.
LEMMA HandlersAside ==
    ASSUME CoreInv, CertaintyInv, NEW r \in Requests,
           \/ RejectTest(r) \/ RejectClosed(r) \/ NotifyAdmission(r)
           \/ Receive(r)
    PROVE  UNCHANGED Line!vars
<1>1. /\ UNCHANGED <<job, ticket, started, streak, competing>>
      /\ \/ call' = [call EXCEPT ![r] = "answered"] /\ call[r] # "cancelled"
         \/ call' = [call EXCEPT ![r] = "awaiting"] /\ call[r] # "cancelled"
      /\ reply' = reply
            \/ /\ job[r] = "absent" /\ reply[r] = "none"
               /\ \E what \in {"test_rejection", "gateway_closed"} :
                    reply' = [reply EXCEPT ![r] = what]
    BY DEF RejectTest, RejectClosed, Enqueues, NotifyAdmission, Receive,
        queueVars, schedVars, CertaintyInv, RequestConsistent
<1>2. \A q \in Requests :
        job[q] = "absent" => (reply'[q] = "queue_full" <=> reply[q] = "queue_full")
    BY <1>1 DEF CoreInv, TypeOK
<1>3. \A q \in Requests : call'[q] = "cancelled" <=> call[q] = "cancelled"
    BY <1>1 DEF CoreInv, TypeOK
<1> QED
    BY <1>1, <1>2, <1>3, LineUnmoved

\* Nor does it see the scheduler wake, sleep or stop, a resize, a close, or a
\* drop that leaves the queues to a later task.
LEMMA OthersAside ==
    ASSUME CertaintyInv,
           \/ FillDone \/ SchedStop \/ SchedSleep
           \/ WakeNotified \/ WakeJoined \/ WakeTimer \/ SchedAbort
           \/ Close \/ DropLocked
           \/ \E b \in Budgets : SetLimit(b)
           \/ UNCHANGED vars
    PROVE  UNCHANGED Line!vars
<1>1. UNCHANGED <<job, ticket, call, reply, started, streak, competing>>
    BY DEF FillDone, SchedStop, SchedSleep, Wakes, WakeNotified, WakeJoined,
        WakeTimer, SchedAbort, Close, DropLocked, SetLimit, queueVars,
        schedVars, callVars, vars
<1> QED
    BY <1>1, LineUnmoved

\* A fresh gateway has an empty line.
LEMMA LineInit == Init => Line!Init /\ LineNumbered
<1> SUFFICES ASSUME Init PROVE Line!Init /\ LineNumbered
    OBVIOUS
<1>1. Queued = {} /\ Spoilt = {} /\ Earlier = {}
    BY DEF Init, Queued, Spoilt, Earlier
<1>2. LinePlace = [r \in Requests |-> "new"]
    BY DEF Init, LinePlace, PlaceOf
<1>3. Mode \in {"fifo", "weighted"}
    BY GatewayAssumption DEF GatewayAssumption, Modes
<1> QED
    BY <1>1, <1>2, <1>3 DEF Line!Init, LineNumbered, Init

\* Every step of the gateway moves the line or leaves it alone.
LEMMA LineStep ==
    CoreInv /\ CertaintyInv /\ LineNumbered /\ [Next]_vars
        => [Line!Next]_(Line!vars)
<1> SUFFICES ASSUME CoreInv, CertaintyInv, LineNumbered, [Next]_vars
             PROVE  [Line!Next]_(Line!vars)
    OBVIOUS
<1>1. ASSUME NEW r \in Requests, Handler(r)
      PROVE  Line!Next \/ UNCHANGED Line!vars
    <2>1. CASE RejectBudget(r)
        BY <2>1, DropLine DEF Line!Next
    <2>2. CASE RejectFull(r) \/ Admit(r)
        BY <2>2, ArriveLine DEF Line!Next
    <2>3. CASE Cancel(r)
        BY <2>3, SpoilLine DEF Line!Next
    <2>4. CASE \/ RejectTest(r) \/ RejectClosed(r) \/ NotifyAdmission(r)
               \/ Receive(r)
        BY <2>4, HandlersAside
    <2> QED
        BY <1>1, <2>1, <2>2, <2>3, <2>4 DEF Handler
<1>2. ASSUME NEW r \in Requests, Executor(r)
      PROVE  UNCHANGED Line!vars
    BY <1>2, ExecutorsBeyond
<1>3. CASE Scheduler
    <2>1. CASE SchedLock
        BY <2>1, DropLine DEF Line!Next
    <2>2. CASE Pop
        BY <2>2, PopLine DEF Line!Next
    <2>3. CASE PopNothing
        BY <2>3, NothingLine DEF Line!Next
    <2>4. CASE \E r \in Requests : Discard(r) \/ Handoff(r)
        BY <2>4, SettleLine DEF Line!Next
    <2>5. CASE \/ FillDone \/ SchedStop \/ SchedSleep
               \/ WakeNotified \/ WakeJoined \/ WakeTimer \/ SchedAbort
        BY <2>5, OthersAside
    <2> QED
        BY <1>3, <2>1, <2>2, <2>3, <2>4, <2>5 DEF Scheduler
<1>4. CASE DropUnlocked \/ CleanUp
    BY <1>4, ClearLine DEF Line!Next
<1>5. CASE Tick
    BY <1>5, SpoilLine DEF Line!Next
<1>6. CASE Close \/ DropLocked \/ (\E b \in Budgets : SetLimit(b))
           \/ UNCHANGED vars
    BY <1>6, OthersAside
<1> QED
    BY <1>1, <1>2, <1>3, <1>4, <1>5, <1>6 DEF Next

\* src/queue.rs as the handlers, the scheduler and the executors of src/lib.rs
\* use it: whatever the order of their steps, the jobs of the gateway wait in
\* one line, are taken in their turn, and leave it early only when late or
\* unwanted.
THEOREM ServesTheLine == Spec => ImplementsLine
<1>1. Init => CoreInv /\ CertaintyInv /\ LineNumbered /\ Line!Init
    BY CoreInit, CertaintyInit, LineInit
<1>2. /\ CoreInv /\ CertaintyInv /\ LineNumbered /\ [Next]_vars
        => CoreInv' /\ CertaintyInv' /\ LineNumbered'
      /\ CoreInv /\ CertaintyInv /\ LineNumbered /\ [Next]_vars
        => [Line!Next]_(Line!vars)
    BY CoreStep, CertaintyStep, LineNumberedStep, LineStep
<1> QED
    BY <1>1, <1>2, PTL DEF Spec, ImplementsLine, Line!Spec

=============================================================================

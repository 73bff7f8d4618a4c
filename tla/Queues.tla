------------------------------- MODULE Queues -------------------------------
(***************************************************************************)
(* The admission queues in the detail of src/queue.rs: two deques, the     *)
(* rotating scan of maintain, one job at a time, and pop_next's loop.  Who *)
(* holds the queue lock is in pc; meanwhile callers leave and time passes, *)
(* and only then.  Gateway takes a scan for one step and the deques for    *)
(* sets ordered by admission number: the properties below are its warrant. *)
(***************************************************************************)
EXTENDS Selection, Sequences, FiniteSets

CONSTANTS
    Jobs,
    ClassOf,        \* The class of each job.
    QueueCapacity,  \* Waiting jobs per class.
    MaxWait         \* Clock ticks a job of each class may wait.

ASSUME QueuesAssumption ==
    /\ ClassOf \in [Jobs -> Classes]
    /\ QueueCapacity \in Nat \ {0}
    /\ MaxWait \in [Classes -> Nat \ {0}]

VARIABLES
    mode,       \* The scheduling mode the queues were made with.
    deque,      \* Per class, the waiting jobs, front first.
    streak,     \* interactive_streak.
    nextOrder,
    order,      \* The admission number of each job.
    left,       \* Ticks until the deadline of each waiting job.
    closed,     \* Jobs whose caller left: reply.is_closed().
    fate,       \* What has become of each job.
    pc,         \* What the holder of the lock does next.
    scan,       \* The deque under the scan, the jobs of it left to scan, the
                \* jobs that are late at the scan's instant, and what follows.
    competing,  \* Both classes were waiting when the selected job was.
    passed      \* History: handoffs of the other class since a waiting job
                \* arrived or its own class was last served.

vars == <<mode, deque, streak, nextOrder, order, left, closed, fate, pc, scan,
          competing, passed>>
lockVars == <<pc, scan>>

\* A job is gone once it expired, lost its caller, found the queue full or was
\* rejected; what its caller hears is Gateway's business.
Fates == {"new", "arriving", "waiting", "selected", "started", "gone"}

TypeOK ==
    /\ mode \in Modes
    /\ deque \in [Classes -> Seq(Jobs)]
    /\ streak \in 0 .. StreakLimit
    /\ nextOrder \in Nat
    /\ order \in [Jobs -> Nat]
    /\ left \in [Jobs -> Nat]
    /\ closed \subseteq Jobs
    /\ fate \in [Jobs -> Fates]
    /\ pc \in {"free", "scan", "push", "fill", "choose", "handoff"}
    /\ scan \in [class : Classes, remaining : Nat, late : SUBSET Jobs,
                 next : {"push", "fill", "choose"}]
    /\ competing \in BOOLEAN
    /\ passed \in [Jobs -> Nat]

Init ==
    /\ mode \in Modes
    /\ deque = [class \in Classes |-> <<>>]
    /\ streak = 0
    /\ nextOrder = 0
    /\ order = [j \in Jobs |-> 0]
    /\ left = [j \in Jobs |-> 0]
    /\ closed = {}
    /\ fate = [j \in Jobs |-> "new"]
    /\ pc = "free"
    /\ scan = [class |-> "interactive", remaining |-> 0, late |-> {},
               next |-> "push"]
    /\ competing = FALSE
    /\ passed = [j \in Jobs |-> 0]

InFate(what) == {j \in Jobs : fate[j] = what}

-----------------------------------------------------------------------------
(* maintain: a scan of both deques at one instant.                         *)

\* Mutant: the rotation stops one job short.
StartShortScan(next) ==
    LET length == Len(deque["interactive"])
    IN  /\ pc' = "scan"
        /\ scan' = [class |-> "interactive",
                    remaining |-> IF length > 0 THEN length - 1 ELSE 0,
                    late |-> {j \in InFate("waiting") : left[j] = 0},
                    next |-> next]

StartScan(next) ==
    /\ pc' = "scan"
    /\ scan' = [class |-> "interactive",
                remaining |-> Len(deque["interactive"]),
                late |-> {j \in InFate("waiting") : left[j] = 0},
                next |-> next]

\* Each scanned job leaves the front; a survivor rejoins the back.
Rotate ==
    LET j == Head(deque[scan.class])
        rest == Tail(deque[scan.class])
        survives == j \notin closed \union scan.late
    IN  /\ pc = "scan"
        /\ scan.remaining > 0
        /\ deque' = [deque EXCEPT ![scan.class] =
                        IF survives THEN Append(rest, j) ELSE rest]
        /\ fate' = [fate EXCEPT ![j] = IF survives THEN @ ELSE "gone"]
        /\ scan' = [scan EXCEPT !.remaining = @ - 1]
        /\ UNCHANGED <<mode, streak, nextOrder, order, left, closed, pc,
                       competing, passed>>

\* The agents' deque is scanned after the interactive one.
NextDeque ==
    /\ pc = "scan"
    /\ scan.remaining = 0
    /\ scan.class = "interactive"
    /\ scan' = [scan EXCEPT !.class = "agent",
                            !.remaining = Len(deque["agent"])]
    /\ UNCHANGED <<mode, deque, streak, nextOrder, order, left, closed, fate,
                   pc, competing, passed>>

EndScan ==
    /\ pc = "scan"
    /\ scan.remaining = 0
    /\ scan.class = "agent"
    /\ pc' = scan.next
    /\ scan' = [scan EXCEPT !.late = {}]
    /\ UNCHANGED <<mode, deque, streak, nextOrder, order, left, closed, fate,
                   competing, passed>>

-----------------------------------------------------------------------------
(* The critical section of enqueue.                                        *)

Arrive(j) ==
    /\ pc = "free"
    /\ fate[j] = "new"
    /\ fate' = [fate EXCEPT ![j] = "arriving"]
    /\ StartScan("push")
    /\ UNCHANGED <<mode, deque, streak, nextOrder, order, left, closed,
                   competing, passed>>

\* The number is taken before the capacity is looked at.
PushBack(j) ==
    LET class == ClassOf[j]
    IN  /\ pc = "push"
        /\ fate[j] = "arriving"
        /\ nextOrder' = nextOrder + 1
        /\ pc' = "free"
        /\ IF Len(deque[class]) >= QueueCapacity
           THEN /\ fate' = [fate EXCEPT ![j] = "gone"]
                /\ UNCHANGED <<deque, order, left>>
           ELSE /\ fate' = [fate EXCEPT ![j] = "waiting"]
                /\ deque' = [deque EXCEPT ![class] = Append(@, j)]
                /\ order' = [order EXCEPT ![j] = nextOrder]
                /\ left' = [left EXCEPT ![j] = MaxWait[class]]
        /\ UNCHANGED <<mode, streak, closed, scan, competing, passed>>

-----------------------------------------------------------------------------
(* The critical section of the scheduler.                                  *)

LockScheduler ==
    /\ pc = "free"
    /\ StartScan("fill")
    /\ UNCHANGED <<mode, deque, streak, nextOrder, order, left, closed, fate,
                   competing, passed>>

\* An executor is free: pop_next scans again, at its own instant.
PopNext ==
    /\ pc = "fill"
    /\ StartScan("choose")
    /\ UNCHANGED <<mode, deque, streak, nextOrder, order, left, closed, fate,
                   competing, passed>>

\* All executors are busy.
Unlock ==
    /\ pc = "fill"
    /\ pc' = "free"
    /\ UNCHANGED <<mode, deque, streak, nextOrder, order, left, closed, fate,
                   scan, competing, passed>>

OrdersOf(class) == {order[deque[class][i]] : i \in 1 .. Len(deque[class])}

\* Mutant: competition is judged after the job was taken out.
ChooseThenJudge ==
    LET class == IF PicksInteractive(mode, streak, OrdersOf("interactive"),
                                     OrdersOf("agent"))
                 THEN "interactive" ELSE "agent"
    IN  /\ pc = "choose"
        /\ deque[class] # <<>>
        /\ fate' = [fate EXCEPT ![Head(deque[class])] = "selected"]
        /\ deque' = [deque EXCEPT ![class] = Tail(@)]
        /\ competing' = \A c \in Classes : deque'[c] # <<>>
        /\ pc' = "handoff"
        /\ UNCHANGED <<mode, streak, nextOrder, order, left, closed, scan,
                       passed>>

\* The front of the chosen deque.
Choose ==
    LET class == IF PicksInteractive(mode, streak, OrdersOf("interactive"),
                                     OrdersOf("agent"))
                 THEN "interactive" ELSE "agent"
    IN  /\ pc = "choose"
        /\ deque[class] # <<>>
        /\ fate' = [fate EXCEPT ![Head(deque[class])] = "selected"]
        /\ deque' = [deque EXCEPT ![class] = Tail(@)]
        /\ competing' = \A c \in Classes : deque[c] # <<>>
        /\ pc' = "handoff"
        /\ UNCHANGED <<mode, streak, nextOrder, order, left, closed, scan,
                       passed>>

ChooseNothing ==
    /\ pc = "choose"
    /\ \A class \in Classes : deque[class] = <<>>
    /\ streak' = 0
    /\ pc' = "free"
    /\ UNCHANGED <<mode, deque, nextOrder, order, left, closed, fate, scan,
                   competing, passed>>

\* pop_next goes round again: a new scan, the streak as it was.
SkipStale(j) ==
    /\ pc = "handoff"
    /\ fate[j] = "selected"
    /\ j \in closed \/ left[j] = 0
    /\ fate' = [fate EXCEPT ![j] = "gone"]
    /\ StartScan("choose")
    /\ UNCHANGED <<mode, deque, streak, nextOrder, order, left, closed,
                   competing, passed>>

Handoff(j) ==
    /\ pc = "handoff"
    /\ fate[j] = "selected"
    /\ j \notin closed
    /\ left[j] > 0
    /\ fate' = [fate EXCEPT ![j] = "started"]
    /\ streak' = NextStreak(mode, streak, competing, ClassOf[j])
    /\ passed' = [q \in Jobs |->
                    IF fate[q] # "waiting" \/ ClassOf[q] = ClassOf[j]
                    THEN 0 ELSE passed[q] + 1]
    /\ pc' = "fill"
    /\ UNCHANGED <<mode, deque, nextOrder, order, left, closed, scan,
                   competing>>

-----------------------------------------------------------------------------

\* Mutant: only one deque is drained.
RejectInteractive ==
    /\ pc = "free"
    /\ fate' = [j \in Jobs |-> IF fate[j] = "waiting" THEN "gone" ELSE fate[j]]
    /\ deque' = [deque EXCEPT !["interactive"] = <<>>]
    /\ UNCHANGED <<mode, streak, nextOrder, order, left, closed, pc, scan,
                   competing, passed>>

RejectPending ==
    /\ pc = "free"
    /\ fate' = [j \in Jobs |-> IF fate[j] = "waiting" THEN "gone" ELSE fate[j]]
    /\ deque' = [class \in Classes |-> <<>>]
    /\ UNCHANGED <<mode, streak, nextOrder, order, left, closed, pc, scan,
                   competing, passed>>

\* The caller of a job leaves, whoever holds the lock.
Leave(j) ==
    /\ fate[j] \in {"waiting", "selected"}
    /\ closed' = closed \union {j}
    /\ UNCHANGED <<mode, deque, streak, nextOrder, order, left, fate,
                   lockVars, competing, passed>>

Ticking == {j \in InFate("waiting") \union InFate("selected") : left[j] > 0}

Tick ==
    /\ Ticking # {}
    /\ left' = [j \in Jobs |-> IF j \in Ticking THEN left[j] - 1 ELSE left[j]]
    /\ UNCHANGED <<mode, deque, streak, nextOrder, order, closed, fate,
                   lockVars, competing, passed>>

Next ==
    \/ Rotate \/ NextDeque \/ EndScan
    \/ LockScheduler \/ PopNext \/ Unlock
    \/ Choose \/ ChooseNothing
    \/ \E j \in Jobs :
        Arrive(j) \/ PushBack(j) \/ SkipStale(j) \/ Handoff(j) \/ Leave(j)
    \/ RejectPending
    \/ Tick

Spec == Init /\ [][Next]_vars
-----------------------------------------------------------------------------
(* Properties.                                                             *)

Places == UNION {{class} \X DOMAIN deque[class] : class \in Classes}

Positions(j) == {p \in Places : deque[p[1]][p[2]] = j}

\* Popping, pushing back, expiring and rejecting never lose a job nor keep one
\* twice: a job waits if and only if it is in its class's deque, once.
NoJobLost ==
    \A j \in Jobs :
        /\ Cardinality(Positions(j)) = IF fate[j] = "waiting" THEN 1 ELSE 0
        /\ \A p \in Positions(j) : p[1] = ClassOf[j]

\* In weighted mode a waiting agent job sees at most three interactive jobs
\* start before an agent job does, and a waiting interactive job at most one
\* agent job, although jobs expire, leave and arrive in between.
BoundedOvertaking ==
    mode = "weighted" =>
        \A j \in InFate("waiting") :
            passed[j] <= IF ClassOf[j] = "agent" THEN StreakLimit ELSE 1

\* No job starts while an earlier one of its class waits; in fifo mode, while
\* any earlier one waits.
ServedInOrder ==
    [][\A j, q \in Jobs :
        /\ fate[j] # "started" /\ fate'[j] = "started"
        /\ fate[q] = "waiting"
        /\ mode = "fifo" \/ ClassOf[q] = ClassOf[j]
        => order[j] < order[q]]_vars

-----------------------------------------------------------------------------
(* The queues implement the one line that Gateway implements too.          *)

\* What the line sees of the jobs: where each is, who of those waiting came
\* before whom, and who of those not settled is unwanted or late.
LinePlace ==
    [j \in Jobs |-> IF fate[j] = "arriving" THEN "new" ELSE fate[j]]

Earlier ==
    {pair \in InFate("waiting") \X InFate("waiting") :
        order[pair[1]] < order[pair[2]]}

Spoilt ==
    {j \in InFate("waiting") \union InFate("selected") :
        j \in closed \/ left[j] = 0}

Line == INSTANCE WaitingLine WITH
    JobClass <- ClassOf,
    place <- LinePlace,
    before <- Earlier,
    stale <- Spoilt,
    contested <- competing

\* Rotating two deques under a lock, in as many steps as there are jobs, looks
\* like one line of jobs in the order of their arrival.
ImplementsLine == Line!Spec
=============================================================================

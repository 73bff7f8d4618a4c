---------------------------- MODULE WaitingLine ----------------------------
(***************************************************************************)
(* What the admission queues promise, with no deque, scan, clock or        *)
(* admission number: one line of waiting jobs in the order of their        *)
(* arrival, of which only unwanted or late jobs may drop out, and from     *)
(* which the scheduler takes one job at a time.  Queues and Gateway both   *)
(* implement it, so their two views of src/queue.rs agree.                 *)
(***************************************************************************)
EXTENDS Naturals, FiniteSets

CONSTANTS
    Jobs,
    JobClass,       \* The class of each job, "agent" or "interactive".
    QueueCapacity,  \* Waiting jobs per class.
    StreakLimit     \* Interactive jobs before a waiting agent job is due.

VARIABLES
    mode,       \* "fifo" or "weighted".
    place,      \* Where each job is.
    before,     \* The waiting jobs in pairs, the earlier one first.
    stale,      \* Waiting and selected jobs that are unwanted or late.
    streak,     \* Contested interactive starts since an uncontested one or
                \* an agent's.
    contested   \* The other class was waiting when the selected job was.

vars == <<mode, place, before, stale, streak, contested>>

Init ==
    /\ mode \in {"fifo", "weighted"}
    /\ place = [j \in Jobs |-> "new"]
    /\ before = {}
    /\ stale = {}
    /\ streak = 0
    /\ contested = FALSE

At(where) == {j \in Jobs : place[j] = where}
Waiting == At("waiting")
Selected == At("selected")

Moved(jobs, where) ==
    [j \in Jobs |-> IF j \in jobs THEN where ELSE place[j]]

Among(jobs) == {pair \in before : pair[1] \in jobs /\ pair[2] \in jobs}

\* What may leave the line before its turn.
Droppable == SUBSET (Waiting \intersect stale)

\* Callers leave and deadlines pass.
Spoil ==
    /\ \E more \in SUBSET (Waiting \union Selected) :
        stale' = stale \union more
    /\ UNCHANGED <<mode, place, before, streak, contested>>

Drop ==
    /\ Selected = {}
    /\ \E gone \in Droppable :
        /\ place' = Moved(gone, "gone")
        /\ before' = Among(Waiting \ gone)
        /\ stale' = stale \ gone
    /\ UNCHANGED <<mode, streak, contested>>

\* A job joins at the end if its class has room once the dropped jobs left,
\* and is turned away only if it has none.
Arrive(j) ==
    /\ Selected = {}
    /\ place[j] = "new"
    /\ \E gone \in Droppable :
        LET rest == Waiting \ gone
            mates == {q \in rest : JobClass[q] = JobClass[j]}
        IN  /\ IF Cardinality(mates) < QueueCapacity
               THEN /\ place' = [Moved(gone, "gone") EXCEPT ![j] = "waiting"]
                    /\ before' = Among(rest) \union (rest \X {j})
               ELSE /\ place' = Moved(gone \union {j}, "gone")
                    /\ before' = Among(rest)
            /\ stale' = stale \ gone
    /\ UNCHANGED <<mode, streak, contested>>

\* Everybody is sent away.
Clear ==
    /\ Selected = {}
    /\ place' = Moved(Waiting, "gone")
    /\ before' = {}
    /\ stale' = stale \ Waiting
    /\ UNCHANGED <<mode, streak, contested>>

Rivals(j, rest) == {q \in rest : JobClass[q] # JobClass[j]}

\* It is the turn of the first of a class: of the only class that waits, of
\* the one that came first, or of the one that the streak calls for.
IsNext(j, rest) ==
    LET ahead == {q \in rest : <<q, j>> \in before}
    IN  /\ ahead \subseteq Rivals(j, rest)
        /\ \/ Rivals(j, rest) = {}
           \/ mode = "fifo" /\ ahead = {}
           \/ /\ mode = "weighted"
              /\ JobClass[j] = "interactive" <=> streak < StreakLimit

Select(j) ==
    /\ Selected = {}
    /\ \E gone \in Droppable :
        LET rest == Waiting \ gone
        IN  /\ j \in rest
            /\ IsNext(j, rest)
            /\ place' = [Moved(gone, "gone") EXCEPT ![j] = "selected"]
            /\ before' = Among(rest \ {j})
            /\ stale' = stale \ gone
            /\ contested' = (Rivals(j, rest) # {})
    /\ UNCHANGED <<mode, streak>>

\* A selected job that nobody wants any more, or that is late, costs its
\* class no turn.
Skip(j) ==
    /\ j \in Selected \intersect stale
    /\ place' = Moved({j}, "gone")
    /\ stale' = stale \ {j}
    /\ UNCHANGED <<mode, before, streak, contested>>

Start(j) ==
    /\ j \in Selected \ stale
    /\ place' = Moved({j}, "started")
    /\ streak' = IF mode = "weighted" /\ contested /\ JobClass[j] = "interactive"
                 THEN streak + 1 ELSE 0
    /\ UNCHANGED <<mode, before, stale, contested>>

\* Only a scheduler that finds nobody forgets the streak.
Rest ==
    /\ Selected = {}
    /\ Waiting \subseteq stale
    /\ place' = Moved(Waiting, "gone")
    /\ before' = {}
    /\ stale' = {}
    /\ streak' = 0
    /\ UNCHANGED <<mode, contested>>

Next ==
    \/ Spoil \/ Drop \/ Clear \/ Rest
    \/ \E j \in Jobs : Arrive(j) \/ Select(j) \/ Skip(j) \/ Start(j)

Spec == Init /\ [][Next]_vars
=============================================================================

----------------------------- MODULE Selection -----------------------------
(***************************************************************************)
(* Which class the scheduler serves next: the decision at the heart of     *)
(* Queues::pop_next (src/queue.rs).  It is shared by Queues, which keeps   *)
(* the two deques as sequences, and by Gateway, which keeps the waiting    *)
(* jobs as sets ordered by their admission number.                         *)
(***************************************************************************)
EXTENDS Naturals

Classes == {"agent", "interactive"}

Modes == {"weighted", "fifo"}

\* Under competition this many interactive jobs go before one agent job.
StreakLimit == 3

\* The admission number at the front of a nonempty deque.
First(orders) == CHOOSE n \in orders : \A m \in orders : n <= m

\* interactive and agents are the admission numbers waiting in each class.
PicksInteractive(mode, streak, interactive, agents) ==
    /\ interactive # {}
    /\ \/ agents = {}
       \/ mode = "fifo" /\ First(interactive) < First(agents)
       \/ mode = "weighted" /\ streak < StreakLimit

\* The streak after a job is handed to an executor: only an interactive job
\* that was preferred to a waiting agent job extends it.
NextStreak(mode, streak, competing, class) ==
    IF mode = "weighted" /\ competing /\ class = "interactive"
    THEN streak + 1
    ELSE 0
=============================================================================

---------------------------- MODULE QueuesProofs ----------------------------
(***************************************************************************)
(* Proofs about Queues, for any number of jobs, any capacity and waiting   *)
(* times: types, that the streak of pop_next bounds overtaking, that no    *)
(* scan loses a job or its place, and that Queues implements WaitingLine.  *)
(***************************************************************************)
EXTENDS Queues, SequenceTheorems, FunctionTheorems, FiniteSetTheorems, TLAPS

-----------------------------------------------------------------------------
(* Deques.                                                                 *)

\* Taking the front job of a deque and pushing a job to its back.
LEMMA DequeOps ==
    ASSUME NEW s \in Seq(Jobs)
    PROVE  /\ Len(s) \in Nat
           /\ s # <<>> <=> Len(s) > 0
           /\ s # <<>> =>
                /\ Head(s) \in Jobs /\ Head(s) = s[1]
                /\ Tail(s) \in Seq(Jobs) /\ Len(Tail(s)) = Len(s) - 1
                /\ \A i \in 1 .. Len(Tail(s)) : Tail(s)[i] = s[i + 1]
           /\ \A j \in Jobs :
                /\ Append(s, j) \in Seq(Jobs) /\ Len(Append(s, j)) = Len(s) + 1
                /\ \A i \in 1 .. Len(s) : Append(s, j)[i] = s[i]
                /\ Append(s, j)[Len(s) + 1] = j
BY EmptySeq, HeadTailProperties, LenProperties

\* A deque holds jobs of its own class only.
DequeClasses ==
    \A class \in Classes :
        \A i \in 1 .. Len(deque[class]) : ClassOf[deque[class][i]] = class

\* A scan never pops from an empty deque.
ScanFits == pc = "scan" => scan.remaining <= Len(deque[scan.class])

\* One job is out of the deques, and only at the handoff.
OneSelected ==
    /\ \A j \in Jobs : fate[j] = "selected" => pc = "handoff"
    /\ \A j, q \in Jobs :
        fate[j] = "selected" /\ fate[q] = "selected" => j = q

\* How the selected job was chosen: under competition the streak decided.
StreakDecides ==
    \A j \in Jobs :
        fate[j] = "selected" /\ competing /\ mode = "weighted" =>
            IF ClassOf[j] = "interactive"
            THEN streak < StreakLimit ELSE streak = StreakLimit

ShapeInv ==
    /\ TypeOK
    /\ DequeClasses
    /\ ScanFits
    /\ OneSelected
    /\ StreakDecides

\* No step changes the scheduling mode.
LEMMA ModeKept == [Next]_vars => mode' = mode
<1> USE DEF vars
<1>1. CASE Rotate \/ NextDeque \/ EndScan
    BY <1>1 DEF Rotate, NextDeque, EndScan
<1>2. CASE LockScheduler \/ PopNext \/ Unlock
    BY <1>2 DEF LockScheduler, PopNext, Unlock
<1>3. CASE Choose \/ ChooseNothing \/ RejectPending \/ Tick
    BY <1>3 DEF Choose, ChooseNothing, RejectPending, Tick
<1>4. ASSUME NEW j \in Jobs,
             Arrive(j) \/ PushBack(j) \/ SkipStale(j) \/ Handoff(j) \/ Leave(j)
      PROVE  mode' = mode
    BY <1>4 DEF Arrive, PushBack, SkipStale, Handoff, Leave
<1>5. CASE UNCHANGED vars
    BY <1>5
<1> QED
    BY <1>1, <1>2, <1>3, <1>4, <1>5 DEF Next

\* The queues start empty.
LEMMA ShapeInit == Init => ShapeInv
<1> SUFFICES ASSUME Init PROVE ShapeInv
    OBVIOUS
<1>1. deque \in [Classes -> Seq(Jobs)]
    BY EmptySeq DEF Init
<1>2. scan \in [class : Classes, remaining : Nat, late : SUBSET Jobs,
                next : {"push", "fill", "choose"}]
    BY DEF Init, Classes
<1>3. TypeOK
    <2>1. /\ order \in [Jobs -> Nat] /\ left \in [Jobs -> Nat]
          /\ passed \in [Jobs -> Nat] /\ fate \in [Jobs -> Fates]
        BY DEF Init, Fates
    <2>2. /\ streak \in 0 .. StreakLimit /\ nextOrder \in Nat
          /\ closed \subseteq Jobs /\ competing \in BOOLEAN
          /\ pc \in {"free", "scan", "push", "fill", "choose", "handoff"}
        <3>1. streak = 0 /\ nextOrder = 0 /\ closed = {} /\ pc = "free"
            BY DEF Init
        <3>2. competing \in BOOLEAN
            BY DEF Init
        <3>3. 0 \in 0 .. StreakLimit
            BY DEF StreakLimit
        <3> QED
            BY <3>1, <3>2, <3>3
    <2>3. mode \in Modes
        BY DEF Init
    <2> QED
        BY <1>1, <1>2, <2>1, <2>2, <2>3 DEF TypeOK
<1>4. DequeClasses
    BY EmptySeq DEF Init, DequeClasses
<1> QED
    BY <1>3, <1>4 DEF Init, ShapeInv, ScanFits, OneSelected, StreakDecides

\* The scan record at the start of a scan.
LEMMA ScanStarts ==
    ASSUME TypeOK, NEW next \in {"push", "fill", "choose"}, StartScan(next)
    PROVE  /\ pc' = "scan"
           /\ scan' \in [class : Classes, remaining : Nat, late : SUBSET Jobs,
                         next : {"push", "fill", "choose"}]
           /\ scan'.class = "interactive"
           /\ scan'.remaining = Len(deque["interactive"])
<1>1. deque["interactive"] \in Seq(Jobs)
    BY DEF TypeOK, Classes
<1>2. Len(deque["interactive"]) \in Nat
    BY <1>1, DequeOps
<1> QED
    BY <1>2 DEF StartScan, Classes, InFate

\* Every step keeps the types.
LEMMA TypeStep == ShapeInv /\ [Next]_vars => TypeOK'
<1> SUFFICES ASSUME ShapeInv, [Next]_vars PROVE TypeOK'
    OBVIOUS
<1>1. TypeOK
    BY DEF ShapeInv
<1>2. \A class \in Classes :
        /\ deque[class] \in Seq(Jobs) /\ Len(deque[class]) \in Nat
        /\ deque[class] # <<>> =>
            Head(deque[class]) \in Jobs /\ Tail(deque[class]) \in Seq(Jobs)
        /\ \A j \in Jobs : Append(deque[class], j) \in Seq(Jobs)
    BY <1>1, DequeOps DEF TypeOK
<1>3. ASSUME Rotate PROVE TypeOK'
    <2> DEFINE j == Head(deque[scan.class])
               rest == Tail(deque[scan.class])
    <2>1. scan.class \in Classes /\ scan.remaining \in Nat
        BY <1>1 DEF TypeOK
    <2>2. deque[scan.class] # <<>>
        BY <1>2, <1>3, <2>1, DequeOps DEF Rotate, ShapeInv, ScanFits, TypeOK
    <2>3. /\ j \in Jobs /\ rest \in Seq(Jobs)
          /\ Append(rest, j) \in Seq(Jobs)
        BY <1>2, <2>1, <2>2, DequeOps
    <2>4. deque' \in [Classes -> Seq(Jobs)] /\ fate' \in [Jobs -> Fates]
        BY <1>1, <1>3, <2>3 DEF Rotate, TypeOK, Fates
    <2>5. scan' \in [class : Classes, remaining : Nat, late : SUBSET Jobs,
                     next : {"push", "fill", "choose"}]
        <3>1. scan.remaining - 1 \in Nat
            BY <1>3, <2>1 DEF Rotate
        <3>2. scan' = [scan EXCEPT !.remaining = scan.remaining - 1]
            BY <1>3 DEF Rotate
        <3> QED
            BY <1>1, <3>1, <3>2 DEF TypeOK
    <2> QED
        BY <1>1, <1>3, <2>4, <2>5 DEF Rotate, TypeOK
<1>4. ASSUME NextDeque PROVE TypeOK'
    <2>1. scan' \in [class : Classes, remaining : Nat, late : SUBSET Jobs,
                     next : {"push", "fill", "choose"}]
        BY <1>1, <1>2, <1>4 DEF NextDeque, TypeOK, Classes
    <2> QED
        BY <1>1, <1>4, <2>1 DEF NextDeque, TypeOK
<1>5. ASSUME EndScan PROVE TypeOK'
    <2>1. scan' \in [class : Classes, remaining : Nat, late : SUBSET Jobs,
                     next : {"push", "fill", "choose"}]
        BY <1>1, <1>5 DEF EndScan, TypeOK
    <2> QED
        BY <1>1, <1>5, <2>1 DEF EndScan, TypeOK
<1>6. ASSUME \/ LockScheduler \/ PopNext
             \/ \E j \in Jobs : Arrive(j) \/ SkipStale(j)
      PROVE  TypeOK'
    BY <1>1, <1>6, ScanStarts
    DEF LockScheduler, PopNext, Arrive, SkipStale, TypeOK, Fates
<1>7. ASSUME NEW j \in Jobs, PushBack(j) PROVE TypeOK'
    <2>1. ClassOf[j] \in Classes /\ MaxWait[ClassOf[j]] \in Nat
        BY QueuesAssumption DEF QueuesAssumption
    <2>2. deque' \in [Classes -> Seq(Jobs)]
        <3>1. CASE deque' = deque
            BY <1>1, <3>1 DEF TypeOK
        <3>2. CASE deque' = [deque EXCEPT ![ClassOf[j]] =
                                Append(deque[ClassOf[j]], j)]
            BY <1>1, <1>2, <2>1, <3>2 DEF TypeOK
        <3> QED
            BY <1>7, <3>1, <3>2 DEF PushBack
    <2>3. /\ fate' \in [Jobs -> Fates] /\ nextOrder' \in Nat
          /\ order' \in [Jobs -> Nat] /\ left' \in [Jobs -> Nat]
        <3>1. nextOrder \in Nat /\ nextOrder + 1 \in Nat
            BY <1>1 DEF TypeOK
        <3>2. /\ nextOrder' = nextOrder + 1
              /\ \/ fate' = [fate EXCEPT ![j] = "gone"]
                 \/ fate' = [fate EXCEPT ![j] = "waiting"]
              /\ order' = order \/ order' = [order EXCEPT ![j] = nextOrder]
              /\ \/ left' = left
                 \/ left' = [left EXCEPT ![j] = MaxWait[ClassOf[j]]]
            BY <1>7 DEF PushBack
        <3>3. fate' \in [Jobs -> Fates]
            BY <1>1, <3>2 DEF TypeOK, Fates
        <3>4. order' \in [Jobs -> Nat]
            BY <1>1, <3>1, <3>2 DEF TypeOK
        <3>5. left' \in [Jobs -> Nat]
            BY <1>1, <2>1, <3>2 DEF TypeOK
        <3> QED
            BY <3>1, <3>2, <3>3, <3>4, <3>5
    <2> QED
        BY <1>1, <1>7, <2>2, <2>3 DEF PushBack, TypeOK
<1>8. ASSUME Choose PROVE TypeOK'
    <2>1. PICK class \in Classes :
            /\ deque[class] # <<>>
            /\ fate' = [fate EXCEPT ![Head(deque[class])] = "selected"]
            /\ deque' = [deque EXCEPT ![class] = Tail(@)]
        BY <1>8 DEF Choose, Classes
    <2>2. fate' \in [Jobs -> Fates] /\ deque' \in [Classes -> Seq(Jobs)]
        BY <1>1, <1>2, <2>1 DEF TypeOK, Fates
    <2> QED
        BY <1>1, <1>8, <2>2 DEF Choose, TypeOK
<1>9. ASSUME NEW j \in Jobs, Handoff(j) PROVE TypeOK'
    <2>1. streak' \in 0 .. StreakLimit
        <3>1. streak \in 0 .. StreakLimit /\ fate[j] = "selected"
            BY <1>1, <1>9 DEF TypeOK, Handoff
        <3>2. streak' = NextStreak(mode, streak, competing, ClassOf[j])
            BY <1>9 DEF Handoff
        <3>3. CASE mode = "weighted" /\ competing
                    /\ ClassOf[j] = "interactive"
            <4>1. streak < StreakLimit
                BY <3>1, <3>3 DEF ShapeInv, StreakDecides
            <4> QED
                BY <3>1, <3>2, <3>3, <4>1 DEF NextStreak, StreakLimit
        <3>4. CASE ~(mode = "weighted" /\ competing
                      /\ ClassOf[j] = "interactive")
            BY <3>2, <3>4 DEF NextStreak, StreakLimit
        <3> QED
            BY <3>3, <3>4
    <2>2. passed' \in [Jobs -> Nat] /\ fate' \in [Jobs -> Fates]
        BY <1>1, <1>9 DEF Handoff, TypeOK, Fates
    <2> QED
        BY <1>1, <1>9, <2>1, <2>2 DEF Handoff, TypeOK
<1>10. ASSUME RejectPending PROVE TypeOK'
    <2>1. deque' \in [Classes -> Seq(Jobs)] /\ fate' \in [Jobs -> Fates]
        BY <1>1, <1>10, EmptySeq DEF RejectPending, TypeOK, Fates
    <2> QED
        BY <1>1, <1>10, <2>1 DEF RejectPending, TypeOK
<1>11. ASSUME Tick PROVE TypeOK'
    <2>1. left' \in [Jobs -> Nat]
        BY <1>1, <1>11 DEF Tick, Ticking, TypeOK
    <2> QED
        BY <1>1, <1>11, <2>1 DEF Tick, TypeOK, lockVars
<1>12. ASSUME \/ Unlock \/ ChooseNothing \/ \E j \in Jobs : Leave(j)
              \/ UNCHANGED vars
       PROVE  TypeOK'
    BY <1>1, <1>12
    DEF Unlock, ChooseNothing, Leave, vars, lockVars, TypeOK, StreakLimit
<1> QED
    BY <1>3, <1>4, <1>5, <1>6, <1>7, <1>8, <1>9, <1>10, <1>11, <1>12 DEF Next

\* What each deque may become: itself, itself without its front, rotated,
\* longer by one job at the back, or empty.
DequeMove(class) ==
    LET s == deque[class]
    IN  \/ deque'[class] = s
        \/ s # <<>> /\ deque'[class] = Tail(s)
        \/ s # <<>> /\ deque'[class] = Append(Tail(s), Head(s))
        \/ \E j \in Jobs : ClassOf[j] = class /\ deque'[class] = Append(s, j)
        \/ deque'[class] = <<>>

\* Every step moves each deque in one of these ways.
LEMMA DequeMoves ==
    ASSUME ShapeInv, [Next]_vars, NEW class \in Classes
    PROVE  DequeMove(class)
<1>1. TypeOK /\ deque \in [Classes -> Seq(Jobs)]
    BY DEF ShapeInv, TypeOK
<1>2. ASSUME Rotate PROVE DequeMove(class)
    <2>1. scan.class \in Classes /\ deque[scan.class] # <<>>
        BY <1>1, <1>2, DequeOps DEF Rotate, ShapeInv, ScanFits, TypeOK
    <2>2. \/ deque' = [deque EXCEPT ![scan.class] =
                        Append(Tail(deque[scan.class]), Head(deque[scan.class]))]
          \/ deque' = [deque EXCEPT ![scan.class] = Tail(deque[scan.class])]
        BY <1>2 DEF Rotate
    <2> QED
        BY <1>1, <2>1, <2>2 DEF DequeMove
<1>3. ASSUME NEW j \in Jobs, PushBack(j) PROVE DequeMove(class)
    <2>1. \/ deque' = deque
          \/ deque' = [deque EXCEPT ![ClassOf[j]] = Append(deque[ClassOf[j]], j)]
        BY <1>3 DEF PushBack
    <2> QED
        BY <1>1, <2>1 DEF DequeMove
<1>4. ASSUME Choose PROVE DequeMove(class)
    <2>1. PICK c \in Classes :
            deque[c] # <<>> /\ deque' = [deque EXCEPT ![c] = Tail(deque[c])]
        BY <1>4 DEF Choose, Classes
    <2> QED
        BY <1>1, <2>1 DEF DequeMove
<1>5. ASSUME RejectPending PROVE DequeMove(class)
    BY <1>5 DEF RejectPending, DequeMove
<1>6. ASSUME \/ NextDeque \/ EndScan \/ LockScheduler \/ PopNext \/ Unlock
             \/ ChooseNothing \/ Tick
             \/ \E j \in Jobs :
                    Arrive(j) \/ SkipStale(j) \/ Handoff(j) \/ Leave(j)
             \/ UNCHANGED vars
      PROVE  DequeMove(class)
    BY <1>6 DEF NextDeque, EndScan, LockScheduler, PopNext, Unlock,
        ChooseNothing, Tick, Arrive, SkipStale, Handoff, Leave, vars, DequeMove
<1> QED
    BY <1>2, <1>3, <1>4, <1>5, <1>6 DEF Next

\* None of the moves brings in a job of the other class.
LEMMA DequeClassesStep == ShapeInv /\ [Next]_vars => DequeClasses'
<1> SUFFICES ASSUME ShapeInv, [Next]_vars, NEW class \in Classes,
                    NEW i \in 1 .. Len(deque'[class])
             PROVE  ClassOf[deque'[class][i]] = class
    BY DEF DequeClasses
<1> DEFINE s == deque[class]
<1>1. /\ s \in Seq(Jobs) /\ DequeMove(class)
      /\ \A k \in 1 .. Len(s) : ClassOf[s[k]] = class
    BY DequeMoves DEF ShapeInv, TypeOK, DequeClasses
<1>2. CASE deque'[class] = s
    BY <1>1, <1>2
<1>3. CASE s # <<>> /\ deque'[class] = Tail(s)
    BY <1>1, <1>3, DequeOps
<1>4. CASE s # <<>> /\ deque'[class] = Append(Tail(s), Head(s))
    <2> DEFINE t == Tail(s)
    <2>1. /\ t \in Seq(Jobs) /\ Head(s) \in Jobs /\ Head(s) = s[1]
          /\ Len(t) = Len(s) - 1 /\ Len(s) > 0 /\ Len(s) \in Nat
          /\ \A k \in 1 .. Len(t) : t[k] = s[k + 1]
        BY <1>1, <1>4, DequeOps
    <2>2. /\ Len(Append(t, Head(s))) = Len(t) + 1
          /\ \A k \in 1 .. Len(t) : Append(t, Head(s))[k] = t[k]
          /\ Append(t, Head(s))[Len(t) + 1] = Head(s)
        BY <2>1, DequeOps
    <2>3. CASE i = Len(t) + 1
        BY <1>1, <1>4, <2>1, <2>2, <2>3
    <2>4. CASE i \in 1 .. Len(t)
        <3>1. deque'[class][i] = s[i + 1] /\ i + 1 \in 1 .. Len(s)
            BY <1>4, <2>1, <2>2, <2>4
        <3> QED
            BY <1>1, <3>1
    <2> QED
        BY <1>4, <2>1, <2>2, <2>3, <2>4
<1>5. ASSUME NEW j \in Jobs, ClassOf[j] = class, deque'[class] = Append(s, j)
      PROVE  ClassOf[deque'[class][i]] = class
    <2>1. /\ Len(s) \in Nat /\ Len(Append(s, j)) = Len(s) + 1
          /\ \A k \in 1 .. Len(s) : Append(s, j)[k] = s[k]
          /\ Append(s, j)[Len(s) + 1] = j
        BY <1>1, DequeOps
    <2> QED
        BY <1>1, <1>5, <2>1
<1>6. CASE deque'[class] = <<>>
    BY <1>6, EmptySeq
<1> QED
    BY <1>1, <1>2, <1>3, <1>4, <1>5, <1>6 DEF DequeMove

\* A scan is as long as its deque, which shrinks by at most what is scanned.
LEMMA ScanFitsStep == ShapeInv /\ [Next]_vars => ScanFits'
<1> SUFFICES ASSUME ShapeInv, [Next]_vars, pc' = "scan"
             PROVE  scan'.remaining <= Len(deque'[scan'.class])
    BY DEF ScanFits
<1>1. TypeOK /\ ScanFits
    BY DEF ShapeInv
<1>2. \A class \in Classes :
        deque[class] \in Seq(Jobs) /\ Len(deque[class]) \in Nat
    BY <1>1, DequeOps DEF TypeOK
<1>3. scan.class \in Classes /\ scan.remaining \in Nat
    BY <1>1 DEF TypeOK
<1>4. CASE Rotate
    <2> DEFINE s == deque[scan.class]
    <2>1. s # <<>> /\ s \in Seq(Jobs) /\ Len(s) \in Nat
        BY <1>1, <1>2, <1>3, <1>4, DequeOps DEF Rotate, ScanFits
    <2>2. /\ Head(s) \in Jobs /\ Tail(s) \in Seq(Jobs)
          /\ Len(Tail(s)) = Len(s) - 1
        BY <2>1, DequeOps
    <2>3. Len(Append(Tail(s), Head(s))) = Len(s)
        BY <2>1, <2>2, DequeOps
    <2>4. \/ deque' = [deque EXCEPT ![scan.class] = Append(Tail(s), Head(s))]
          \/ deque' = [deque EXCEPT ![scan.class] = Tail(s)]
        BY <1>4 DEF Rotate
    <2>5. /\ scan'.class = scan.class
          /\ scan'.remaining = scan.remaining - 1
          /\ scan.remaining <= Len(s)
        <3>1. scan' = [scan EXCEPT !.remaining = scan.remaining - 1]
            BY <1>4 DEF Rotate
        <3>2. scan \in [class : Classes, remaining : Nat, late : SUBSET Jobs,
                        next : {"push", "fill", "choose"}]
            BY <1>1 DEF TypeOK
        <3>3. scan.remaining <= Len(s)
            BY <1>1, <1>4 DEF Rotate, ScanFits
        <3> QED
            BY <3>1, <3>2, <3>3
    <2>6. deque'[scan.class] \in {Append(Tail(s), Head(s)), Tail(s)}
        BY <1>1, <1>3, <2>4 DEF TypeOK
    <2>7. Len(deque'[scan.class]) \in {Len(s), Len(s) - 1}
        BY <2>2, <2>3, <2>6
    <2> HIDE DEF s
    <2> QED
        BY <1>3, <2>1, <2>5, <2>7
<1>5. CASE NextDeque
    <2>1. /\ scan'.class = "agent" /\ UNCHANGED deque
          /\ scan'.remaining = Len(deque["agent"])
        BY <1>1, <1>5 DEF NextDeque, TypeOK
    <2> QED
        BY <2>1, <1>2 DEF Classes
<1>6. CASE \/ LockScheduler \/ PopNext
           \/ \E j \in Jobs : Arrive(j) \/ SkipStale(j)
    <2>1. /\ scan'.class = "interactive" /\ UNCHANGED deque
          /\ scan'.remaining = Len(deque["interactive"])
        BY <1>1, <1>6, ScanStarts
        DEF LockScheduler, PopNext, Arrive, SkipStale
    <2> QED
        BY <2>1, <1>2 DEF Classes
<1>7. CASE Tick \/ (\E j \in Jobs : Leave(j)) \/ UNCHANGED vars
    BY <1>1, <1>7 DEF Tick, Leave, lockVars, vars, ScanFits
<1>8. CASE \/ EndScan \/ Unlock \/ Choose \/ ChooseNothing \/ RejectPending
           \/ \E j \in Jobs : PushBack(j) \/ Handoff(j)
    BY <1>1, <1>8 DEF EndScan, Unlock, Choose, ChooseNothing, RejectPending,
        PushBack, Handoff, TypeOK
<1> QED
    BY <1>4, <1>5, <1>6, <1>7, <1>8 DEF Next

\* What a selection does: the front job of the class that PicksInteractive
\* prefers leaves its deque.
LEMMA Chosen ==
    ASSUME ShapeInv, Choose
    PROVE  \E class \in Classes :
            /\ pc = "choose" /\ pc' = "handoff"
            /\ deque[class] # <<>> /\ Head(deque[class]) \in Jobs
            /\ ClassOf[Head(deque[class])] = class
            /\ fate' = [fate EXCEPT ![Head(deque[class])] = "selected"]
            /\ deque' = [deque EXCEPT ![class] = Tail(deque[class])]
            /\ competing' = \A c \in Classes : deque[c] # <<>>
            /\ UNCHANGED <<streak, passed>>
            /\ (\A c \in Classes : deque[c] # <<>>) /\ mode = "weighted" =>
                (class = "interactive" <=> streak < StreakLimit)
<1> DEFINE picks == PicksInteractive(mode, streak, OrdersOf("interactive"),
                                     OrdersOf("agent"))
           class == IF picks THEN "interactive" ELSE "agent"
<1>1. /\ pc = "choose" /\ pc' = "handoff" /\ deque[class] # <<>>
      /\ fate' = [fate EXCEPT ![Head(deque[class])] = "selected"]
      /\ deque' = [deque EXCEPT ![class] = Tail(deque[class])]
      /\ competing' = \A c \in Classes : deque[c] # <<>>
      /\ UNCHANGED <<streak, passed>>
    BY DEF Choose
<1>2. class \in Classes
    BY DEF Classes
<1>3. deque[class] \in Seq(Jobs)
    BY <1>2 DEF ShapeInv, TypeOK
<1>4. Head(deque[class]) \in Jobs /\ Head(deque[class]) = deque[class][1]
    BY <1>1, <1>3, DequeOps
<1>5. 1 \in 1 .. Len(deque[class])
    BY <1>1, <1>3, DequeOps
<1>6. ClassOf[Head(deque[class])] = class
    BY <1>2, <1>4, <1>5 DEF ShapeInv, DequeClasses
<1>7. (\A c \in Classes : deque[c] # <<>>) /\ mode = "weighted" =>
            (class = "interactive" <=> streak < StreakLimit)
    <2> SUFFICES ASSUME \A c \in Classes : deque[c] # <<>>, mode = "weighted"
                 PROVE  picks <=> streak < StreakLimit
        OBVIOUS
    <2>1. ASSUME NEW c \in Classes PROVE OrdersOf(c) # {}
        <3>1. deque[c] \in Seq(Jobs) /\ deque[c] # <<>>
            BY <2>1 DEF ShapeInv, TypeOK
        <3>2. 1 \in 1 .. Len(deque[c])
            BY <3>1, DequeOps
        <3> QED
            BY <3>2 DEF OrdersOf
    <2>2. OrdersOf("interactive") # {} /\ OrdersOf("agent") # {}
        BY <2>1 DEF Classes
    <2> QED
        BY <2>2 DEF PicksInteractive
<1> QED
    BY <1>1, <1>2, <1>4, <1>6, <1>7

\* Outside Choose and the handoff nobody is selected and nobody gets selected.
LEMMA Unselected ==
    ASSUME ShapeInv, [Next]_vars, ~Choose,
           ~(\E j \in Jobs : SkipStale(j) \/ Handoff(j))
    PROVE  /\ UNCHANGED <<fate, pc>> \/ pc # "handoff"
           /\ \A j \in Jobs : fate'[j] = "selected" => fate[j] = "selected"
           /\ UNCHANGED passed
           /\ UNCHANGED <<streak, competing>> \/ ChooseNothing
<1>1. TypeOK
    BY DEF ShapeInv
<1>2. CASE Rotate
    <2>1. \/ fate' = [fate EXCEPT ![Head(deque[scan.class])] =
                        fate[Head(deque[scan.class])]]
          \/ fate' = [fate EXCEPT ![Head(deque[scan.class])] = "gone"]
        BY <1>2 DEF Rotate
    <2>2. \A j \in Jobs : fate'[j] = "selected" => fate[j] = "selected"
        BY <1>1, <2>1 DEF TypeOK
    <2> QED
        BY <1>2, <2>2 DEF Rotate
<1>3. ASSUME NEW j \in Jobs, PushBack(j)
      PROVE  /\ pc # "handoff" /\ UNCHANGED <<passed, streak, competing>>
             /\ \A q \in Jobs : fate'[q] = "selected" => fate[q] = "selected"
    <2>1. \/ fate' = [fate EXCEPT ![j] = "gone"]
          \/ fate' = [fate EXCEPT ![j] = "waiting"]
        BY <1>3 DEF PushBack
    <2>2. \A q \in Jobs : fate'[q] = "selected" => fate[q] = "selected"
        BY <1>1, <2>1 DEF TypeOK
    <2> QED
        BY <1>3, <2>2 DEF PushBack
<1>4. ASSUME NEW j \in Jobs, Arrive(j)
      PROVE  /\ pc # "handoff" /\ UNCHANGED <<passed, streak, competing>>
             /\ \A q \in Jobs : fate'[q] = "selected" => fate[q] = "selected"
    BY <1>1, <1>4 DEF Arrive, TypeOK
<1>5. CASE RejectPending
    BY <1>1, <1>5 DEF RejectPending, TypeOK
<1>6. CASE \/ NextDeque \/ EndScan \/ LockScheduler \/ PopNext \/ Unlock
           \/ ChooseNothing
    BY <1>6 DEF NextDeque, EndScan, LockScheduler, PopNext, Unlock,
        ChooseNothing
<1>7. CASE Tick \/ (\E j \in Jobs : Leave(j)) \/ UNCHANGED vars
    BY <1>7 DEF Tick, Leave, lockVars, vars
<1> QED
    BY <1>2, <1>3, <1>4, <1>5, <1>6, <1>7 DEF Next

\* The end of a selection, by a handoff or because the job is stale.
LEMMA Deselected ==
    ASSUME ShapeInv, NEW j \in Jobs, SkipStale(j) \/ Handoff(j)
    PROVE  /\ fate[j] = "selected" /\ pc = "handoff"
           /\ \A q \in Jobs : fate'[q] # "selected"
           /\ \A q \in Jobs \ {j} : fate'[q] = fate[q]
           /\ fate'[j] \in {"gone", "started"}
<1>1. /\ fate[j] = "selected" /\ pc = "handoff"
      /\ \/ fate' = [fate EXCEPT ![j] = "gone"]
         \/ fate' = [fate EXCEPT ![j] = "started"]
    BY DEF SkipStale, Handoff
<1>2. \A q \in Jobs \ {j} : fate[q] # "selected"
    BY <1>1 DEF ShapeInv, OneSelected
<1> QED
    BY <1>1, <1>2 DEF ShapeInv, TypeOK

\* Choose selects the only job that is out of the deques; a handoff or a skip
\* leaves none.
LEMMA OneSelectedStep == ShapeInv /\ [Next]_vars => OneSelected'
<1> SUFFICES ASSUME ShapeInv, [Next]_vars PROVE OneSelected'
    OBVIOUS
<1>1. TypeOK /\ OneSelected
    BY DEF ShapeInv
<1>2. CASE Choose
    <2>1. PICK class \in Classes :
            /\ pc = "choose" /\ pc' = "handoff"
            /\ fate' = [fate EXCEPT ![Head(deque[class])] = "selected"]
        BY <1>2, Chosen
    <2>2. \A j \in Jobs : fate[j] # "selected"
        BY <1>1, <2>1 DEF OneSelected
    <2>3. \A j \in Jobs : fate'[j] = "selected" => j = Head(deque[class])
        BY <1>1, <2>1, <2>2 DEF TypeOK
    <2> QED
        BY <2>1, <2>3 DEF OneSelected
<1>3. ASSUME NEW j \in Jobs, SkipStale(j) \/ Handoff(j) PROVE OneSelected'
    <2>1. \A q \in Jobs : fate'[q] # "selected"
        BY <1>3, Deselected
    <2> QED
        BY <2>1 DEF OneSelected
<1>4. CASE ~Choose /\ ~(\E j \in Jobs : SkipStale(j) \/ Handoff(j))
    <2>1. /\ UNCHANGED <<fate, pc>> \/ pc # "handoff"
          /\ \A j \in Jobs : fate'[j] = "selected" => fate[j] = "selected"
        BY <1>4, Unselected
    <2> QED
        BY <1>1, <2>1 DEF OneSelected
<1> QED
    BY <1>2, <1>3, <1>4

\* The streak decides at Choose and nothing changes it before the handoff.
LEMMA StreakDecidesStep == ShapeInv /\ [Next]_vars => StreakDecides'
<1> SUFFICES ASSUME ShapeInv, [Next]_vars PROVE StreakDecides'
    OBVIOUS
<1>1. TypeOK /\ OneSelected /\ StreakDecides
    BY DEF ShapeInv
<1>2. CASE Choose
    <2>1. PICK class \in Classes :
            /\ pc = "choose" /\ ClassOf[Head(deque[class])] = class
            /\ fate' = [fate EXCEPT ![Head(deque[class])] = "selected"]
            /\ competing' = \A c \in Classes : deque[c] # <<>>
            /\ streak' = streak
            /\ (\A c \in Classes : deque[c] # <<>>) /\ mode = "weighted" =>
                (class = "interactive" <=> streak < StreakLimit)
        BY <1>2, Chosen
    <2>2. \A j \in Jobs : fate[j] # "selected"
        BY <1>1, <2>1 DEF OneSelected
    <2> SUFFICES ASSUME NEW j \in Jobs, fate'[j] = "selected", competing',
                        mode = "weighted"
                 PROVE  IF ClassOf[j] = "interactive"
                        THEN streak' < StreakLimit ELSE streak' = StreakLimit
        BY ModeKept DEF StreakDecides
    <2>3. ClassOf[j] = class
        BY <1>1, <2>1, <2>2 DEF TypeOK
    <2>4. class = "interactive" <=> streak < StreakLimit
        BY <2>1
    <2>5. streak \in 0 .. StreakLimit
        BY <1>1 DEF TypeOK
    <2> QED
        BY <2>1, <2>3, <2>4, <2>5 DEF StreakLimit
<1>3. ASSUME NEW j \in Jobs, SkipStale(j) \/ Handoff(j) PROVE StreakDecides'
    <2>1. \A q \in Jobs : fate'[q] # "selected"
        BY <1>3, Deselected
    <2> QED
        BY <2>1 DEF StreakDecides
<1>4. CASE ~Choose /\ ~(\E j \in Jobs : SkipStale(j) \/ Handoff(j))
    <2>1. /\ \A j \in Jobs : fate'[j] = "selected" => fate[j] = "selected"
          /\ UNCHANGED <<streak, competing>> \/ ChooseNothing
        BY <1>4, Unselected
    <2>2. CASE UNCHANGED <<streak, competing>>
        BY <1>1, <2>1, <2>2, ModeKept DEF StreakDecides
    <2>3. CASE ChooseNothing
        <3>1. \A j \in Jobs : fate[j] # "selected"
            BY <1>1, <2>3 DEF ChooseNothing, OneSelected
        <3> QED
            BY <2>1, <3>1 DEF StreakDecides
    <2> QED
        BY <2>1, <2>2, <2>3
<1> QED
    BY <1>2, <1>3, <1>4

\* Every step keeps the shape.
LEMMA ShapeStep == ShapeInv /\ [Next]_vars => ShapeInv'
BY TypeStep, DequeClassesStep, ScanFitsStep, OneSelectedStep,
   StreakDecidesStep DEF ShapeInv

\* The shape is an invariant.
LEMMA ShapeInvariant == Spec => []ShapeInv
BY ShapeInit, ShapeStep, PTL DEF Spec

\* The rotations of maintain and the loop of pop_next keep every variable in
\* its type: a scan never pops from an empty deque, and interactive_streak,
\* which the code never bounds explicitly, stays within three.
THEOREM QueueTypes == Spec => []TypeOK
<1>1. ShapeInv => TypeOK
    BY DEF ShapeInv
<1> QED
    BY <1>1, ShapeInvariant, PTL

-----------------------------------------------------------------------------
(* Overtaking: the streak counts the handoffs that a waiting agent saw.    *)

\* j is somewhere in s.
Holds(s, j) == \E i \in 1 .. Len(s) : s[i] = j

\* A waiting job is in the deque of its class.
WaitingQueued ==
    \A j \in Jobs : fate[j] = "waiting" => Holds(deque[ClassOf[j]], j)

\* Competition is judged soundly: when a job of the other class still waits at
\* the handoff, both deques held a job at the selection.
Contested ==
    \A j, q \in Jobs :
        /\ fate[j] = "selected"
        /\ fate[q] = "waiting"
        /\ ClassOf[q] # ClassOf[j]
        => competing

\* A job that is not in its deque yet has been overtaken by nobody.
PassedFresh ==
    \A j \in Jobs : fate[j] \in {"new", "arriving"} => passed[j] = 0

\* The streak is an upper bound of what a waiting agent has seen; an agent
\* that overtook an interactive job has reset it.
Overtaken ==
    mode = "weighted" =>
        \A j \in InFate("waiting") :
            IF ClassOf[j] = "agent"
            THEN passed[j] <= streak
            ELSE passed[j] = 0 \/ (passed[j] = 1 /\ streak = 0)

OvertakingInv ==
    /\ WaitingQueued
    /\ Contested
    /\ PassedFresh
    /\ Overtaken

\* Nobody waits at first.
LEMMA OvertakingInit == Init => OvertakingInv
BY DEF Init, OvertakingInv, WaitingQueued, Contested, PassedFresh, Overtaken,
    InFate

\* Popping the front keeps every other job of a deque, pushing keeps all, and
\* a rotated deque holds what it held.
LEMMA StillHeld ==
    ASSUME NEW s \in Seq(Jobs), NEW j \in Jobs, NEW k \in Jobs
    PROVE  /\ Holds(Append(s, j), j)
           /\ Holds(s, j) => s # <<>> /\ Holds(Append(s, k), j)
           /\ Holds(s, j) /\ j # Head(s) => Holds(Tail(s), j)
           /\ Holds(s, j) => Holds(Append(Tail(s), Head(s)), j)
<1>1. ASSUME NEW t \in Seq(Jobs), NEW m \in Jobs
      PROVE  Holds(Append(t, m), m)
             /\ \A q \in Jobs : Holds(t, q) => Holds(Append(t, m), q)
    <2>1. /\ Len(t) \in Nat /\ Len(Append(t, m)) = Len(t) + 1
          /\ \A i \in 1 .. Len(t) : Append(t, m)[i] = t[i]
          /\ Append(t, m)[Len(t) + 1] = m
        BY DequeOps
    <2> QED
        BY <2>1 DEF Holds
<1>2. ASSUME Holds(s, j)
      PROVE  /\ s # <<>> /\ Head(s) \in Jobs /\ Tail(s) \in Seq(Jobs)
             /\ j # Head(s) => Holds(Tail(s), j)
    <2>1. Len(s) \in Nat /\ s # <<>>
        BY <1>2, DequeOps DEF Holds
    <2>2. /\ Head(s) \in Jobs /\ Head(s) = s[1] /\ Tail(s) \in Seq(Jobs)
          /\ Len(Tail(s)) = Len(s) - 1
          /\ \A i \in 1 .. Len(Tail(s)) : Tail(s)[i] = s[i + 1]
        BY <2>1, DequeOps
    <2>3. ASSUME j # Head(s) PROVE Holds(Tail(s), j)
        <3>1. PICK i \in 1 .. Len(s) : s[i] = j
            BY <1>2 DEF Holds
        <3>2. i - 1 \in 1 .. Len(Tail(s)) /\ Tail(s)[i - 1] = j
            BY <2>1, <2>2, <2>3, <3>1
        <3> QED
            BY <3>2 DEF Holds
    <2> QED
        BY <2>1, <2>2, <2>3
<1>3. ASSUME Holds(s, j) PROVE Holds(Append(Tail(s), Head(s)), j)
    <2>1. CASE j = Head(s)
        BY <1>1, <1>2, <1>3, <2>1
    <2>2. CASE j # Head(s)
        BY <1>1, <1>2, <1>3, <2>2
    <2> QED
        BY <2>1, <2>2
<1> QED
    BY <1>1, <1>2, <1>3

\* A job comes to wait only by being pushed, and is new or arriving only
\* before that.
LEMMA FateMoves ==
    ASSUME ShapeInv, [Next]_vars, NEW q \in Jobs
    PROVE  /\ fate'[q] = "waiting" =>
                fate[q] = "waiting" \/ (PushBack(q) /\ fate[q] = "arriving")
           /\ fate'[q] \in {"new", "arriving"} =>
                fate[q] \in {"new", "arriving"}
<1>1. fate \in [Jobs -> Fates]
    BY DEF ShapeInv, TypeOK
<1>2. CASE Rotate
    <2>1. \/ fate' = [fate EXCEPT ![Head(deque[scan.class])] =
                        fate[Head(deque[scan.class])]]
          \/ fate' = [fate EXCEPT ![Head(deque[scan.class])] = "gone"]
        BY <1>2 DEF Rotate
    <2> QED
        BY <1>1, <2>1
<1>3. ASSUME NEW j \in Jobs, PushBack(j)
      PROVE  /\ fate'[q] = "waiting" =>
                    fate[q] = "waiting" \/ (q = j /\ fate[q] = "arriving")
             /\ fate'[q] \in {"new", "arriving"} =>
                    fate[q] \in {"new", "arriving"}
    <2>1. /\ fate[j] = "arriving"
          /\ \/ fate' = [fate EXCEPT ![j] = "gone"]
             \/ fate' = [fate EXCEPT ![j] = "waiting"]
        BY <1>3 DEF PushBack
    <2> QED
        BY <1>1, <2>1
<1>4. ASSUME NEW j \in Jobs, Arrive(j) \/ SkipStale(j) \/ Handoff(j)
      PROVE  /\ fate'[q] = "waiting" => fate[q] = "waiting"
             /\ fate'[q] \in {"new", "arriving"} =>
                    fate[q] \in {"new", "arriving"}
    <2>1. \/ fate[j] = "new" /\ fate' = [fate EXCEPT ![j] = "arriving"]
          \/ fate' = [fate EXCEPT ![j] = "gone"]
          \/ fate' = [fate EXCEPT ![j] = "started"]
        BY <1>4 DEF Arrive, SkipStale, Handoff
    <2> QED
        BY <1>1, <2>1
<1>5. CASE Choose
    <2>1. PICK j \in Jobs : fate' = [fate EXCEPT ![j] = "selected"]
        BY <1>5, Chosen
    <2> QED
        BY <1>1, <2>1
<1>6. CASE RejectPending
    BY <1>1, <1>6 DEF RejectPending
<1>7. CASE \/ NextDeque \/ EndScan \/ LockScheduler \/ PopNext \/ Unlock
           \/ ChooseNothing \/ Tick \/ (\E j \in Jobs : Leave(j))
           \/ UNCHANGED vars
    BY <1>7 DEF NextDeque, EndScan, LockScheduler, PopNext, Unlock,
        ChooseNothing, Tick, Leave, vars
<1> QED
    BY <1>2, <1>3, <1>4, <1>5, <1>6, <1>7 DEF Next

\* Rotating, popping and pushing leave every waiting job in its deque.
LEMMA WaitingQueuedStep == ShapeInv /\ WaitingQueued /\ [Next]_vars
                            => WaitingQueued'
<1> SUFFICES ASSUME ShapeInv, WaitingQueued, [Next]_vars,
                    NEW q \in Jobs, fate'[q] = "waiting"
             PROVE  Holds(deque'[ClassOf[q]], q)
    BY DEF WaitingQueued, Holds
<1> DEFINE class == ClassOf[q]
<1>1. /\ deque \in [Classes -> Seq(Jobs)] /\ fate \in [Jobs -> Fates]
      /\ scan.class \in Classes /\ class \in Classes
    BY QueuesAssumption DEF ShapeInv, TypeOK
<1>2. deque[class] \in Seq(Jobs)
    BY <1>1
<1>3. \/ fate[q] = "waiting" /\ Holds(deque[class], q)
      \/ PushBack(q) /\ fate[q] = "arriving"
    BY FateMoves DEF WaitingQueued
<1> HIDE DEF class
<1>4. ASSUME fate[q] = "waiting", Holds(deque[class], q), Rotate
      PROVE  Holds(deque'[class], q)
    <2> DEFINE s == deque[scan.class]
    <2>1. \/ /\ deque' = [deque EXCEPT ![scan.class] =
                            Append(Tail(s), Head(s))]
          \/ /\ deque' = [deque EXCEPT ![scan.class] = Tail(s)]
             /\ fate' = [fate EXCEPT ![Head(s)] = "gone"]
        BY <1>4 DEF Rotate
    <2>2. CASE scan.class # class
        BY <1>1, <1>4, <2>1, <2>2
    <2>3. CASE scan.class = class
        <3>1. s # <<>> /\ Head(s) \in Jobs
            BY <1>2, <1>4, <2>3, StillHeld, DequeOps
        <3>2. CASE deque' = [deque EXCEPT ![scan.class] =
                                Append(Tail(s), Head(s))]
            <4>1. deque'[class] = Append(Tail(deque[class]),
                                         Head(deque[class]))
                BY <1>1, <2>3, <3>2
            <4> QED
                BY <1>2, <1>4, <4>1, StillHeld
        <3>3. CASE /\ deque' = [deque EXCEPT ![scan.class] = Tail(s)]
                   /\ fate' = [fate EXCEPT ![Head(s)] = "gone"]
            <4>1. deque'[class] = Tail(deque[class])
                BY <1>1, <2>3, <3>3
            <4>2. q # Head(deque[class])
                BY <1>1, <2>3, <3>1, <3>3
            <4> QED
                BY <1>2, <1>4, <4>1, <4>2, StillHeld
        <3> QED
            BY <2>1, <3>2, <3>3
    <2> QED
        BY <2>2, <2>3
<1>5. ASSUME fate[q] = "waiting", Holds(deque[class], q),
             NEW j \in Jobs, PushBack(j)
      PROVE  Holds(deque'[class], q)
    <2>1. \/ deque' = deque
          \/ deque' = [deque EXCEPT ![ClassOf[j]] =
                        Append(deque[ClassOf[j]], j)]
        BY <1>5 DEF PushBack
    <2>2. deque'[class] \in {deque[class], Append(deque[class], j)}
        BY <1>1, <2>1
    <2>3. Holds(Append(deque[class], j), q)
        BY <1>2, <1>5, StillHeld
    <2>4. CASE deque'[class] = deque[class]
        BY <1>5, <2>4
    <2>5. CASE deque'[class] = Append(deque[class], j)
        BY <2>3, <2>5
    <2> QED
        BY <2>2, <2>4, <2>5
<1>6. ASSUME fate[q] = "arriving", PushBack(q)
      PROVE  Holds(deque'[class], q)
    <2>1. \/ fate' = [fate EXCEPT ![q] = "gone"]
          \/ deque' = [deque EXCEPT ![class] = Append(deque[class], q)]
        BY <1>6 DEF PushBack, class
    <2>2. deque'[class] = Append(deque[class], q)
        BY <1>1, <2>1
    <2> QED
        BY <1>2, <2>2, StillHeld
<1>7. ASSUME fate[q] = "waiting", Holds(deque[class], q), Choose
      PROVE  Holds(deque'[class], q)
    <2>1. PICK c \in Classes :
            /\ deque[c] # <<>> /\ Head(deque[c]) \in Jobs
            /\ fate' = [fate EXCEPT ![Head(deque[c])] = "selected"]
            /\ deque' = [deque EXCEPT ![c] = Tail(deque[c])]
        BY <1>7, Chosen
    <2>2. CASE c # class
        BY <1>1, <1>7, <2>1, <2>2
    <2>3. CASE c = class
        <3>1. q # Head(deque[class]) /\ deque'[class] = Tail(deque[class])
            BY <1>1, <2>1, <2>3
        <3> QED
            BY <1>2, <1>7, <3>1, StillHeld
    <2> QED
        BY <2>2, <2>3
<1>8. ASSUME RejectPending PROVE FALSE
    BY <1>8 DEF RejectPending
<1>9. ASSUME Holds(deque[class], q),
             \/ NextDeque \/ EndScan \/ LockScheduler \/ PopNext \/ Unlock
             \/ ChooseNothing \/ Tick
             \/ \E j \in Jobs :
                    Arrive(j) \/ SkipStale(j) \/ Handoff(j) \/ Leave(j)
             \/ UNCHANGED vars
      PROVE  Holds(deque'[class], q)
    <2>1. UNCHANGED deque
        BY <1>9 DEF NextDeque, EndScan, LockScheduler, PopNext, Unlock,
            ChooseNothing, Tick, Arrive, SkipStale, Handoff, Leave, vars
    <2> QED
        BY <1>9, <2>1
<1>10. Holds(deque'[class], q)
    BY <1>3, <1>4, <1>5, <1>6, <1>7, <1>8, <1>9 DEF Next
<1> QED
    BY <1>10 DEF class

\* Both deques are looked at before the job is taken out.
LEMMA ContestedStep ==
    ShapeInv /\ WaitingQueued /\ Contested /\ [Next]_vars => Contested'
<1> SUFFICES ASSUME ShapeInv, WaitingQueued, Contested, [Next]_vars,
                    NEW j \in Jobs, NEW q \in Jobs, fate'[j] = "selected",
                    fate'[q] = "waiting", ClassOf[q] # ClassOf[j]
             PROVE  competing'
    BY DEF Contested
<1>1. /\ deque \in [Classes -> Seq(Jobs)] /\ fate \in [Jobs -> Fates]
      /\ ClassOf[j] \in Classes /\ ClassOf[q] \in Classes
      /\ OneSelected
    BY QueuesAssumption DEF ShapeInv, TypeOK
<1>2. fate[q] = "waiting" \/ (PushBack(q) /\ fate[q] = "arriving")
    BY FateMoves
<1>3. CASE Choose
    <2>1. PICK class \in Classes :
            /\ pc = "choose" /\ deque[class] # <<>>
            /\ ClassOf[Head(deque[class])] = class
            /\ fate' = [fate EXCEPT ![Head(deque[class])] = "selected"]
            /\ competing' = \A c \in Classes : deque[c] # <<>>
        BY <1>3, Chosen
    <2>2. ClassOf[j] = class
        <3>1. fate[j] # "selected"
            BY <1>1, <2>1 DEF OneSelected
        <3> QED
            BY <1>1, <2>1, <3>1
    <2>3. deque[ClassOf[q]] # <<>>
        <3>1. fate[q] = "waiting"
            BY <1>2, <2>1 DEF PushBack
        <3>2. Holds(deque[ClassOf[q]], q) /\ deque[ClassOf[q]] \in Seq(Jobs)
            BY <1>1, <3>1 DEF WaitingQueued
        <3> QED
            BY <3>2, StillHeld
    <2>4. \A c \in Classes : c = ClassOf[j] \/ c = ClassOf[q]
        BY <1>1 DEF Classes
    <2> QED
        BY <2>1, <2>2, <2>3, <2>4
<1>4. CASE \E k \in Jobs : SkipStale(k) \/ Handoff(k)
    BY <1>4, Deselected
<1>5. CASE ~Choose /\ ~(\E k \in Jobs : SkipStale(k) \/ Handoff(k))
    <2>1. /\ fate[j] = "selected"
          /\ UNCHANGED <<streak, competing>> \/ ChooseNothing
        BY <1>5, Unselected
    <2>2. pc = "handoff"
        BY <1>1, <2>1 DEF OneSelected
    <2>3. fate[q] = "waiting" /\ competing' = competing
        BY <1>2, <2>1, <2>2 DEF PushBack, ChooseNothing
    <2> QED
        BY <2>1, <2>3 DEF Contested
<1> QED
    BY <1>3, <1>4, <1>5

\* What a handoff does to the history and to the streak.
LEMMA HandoffCounts ==
    ASSUME ShapeInv, mode = "weighted", NEW j \in Jobs, Handoff(j),
           NEW q \in Jobs
    PROVE  /\ passed'[q] = IF fate[q] # "waiting" \/ ClassOf[q] = ClassOf[j]
                           THEN 0 ELSE passed[q] + 1
           /\ streak' = IF competing /\ ClassOf[j] = "interactive"
                        THEN streak + 1 ELSE 0
BY DEF Handoff, NextStreak

\* Only a handoff counts, and only for jobs that wait.
LEMMA PassedFreshStep ==
    ShapeInv /\ PassedFresh /\ [Next]_vars => PassedFresh'
<1> SUFFICES ASSUME ShapeInv, PassedFresh, [Next]_vars,
                    NEW q \in Jobs, fate'[q] \in {"new", "arriving"}
             PROVE  passed'[q] = 0
    BY DEF PassedFresh
<1>1. fate[q] \in {"new", "arriving"} /\ passed[q] = 0
    BY FateMoves DEF PassedFresh
<1>2. ASSUME NEW j \in Jobs, Handoff(j) PROVE passed'[q] = 0
    BY <1>1, <1>2 DEF Handoff
<1>3. CASE Choose \/ \E j \in Jobs : SkipStale(j)
    BY <1>1, <1>3 DEF Choose, SkipStale
<1>4. CASE ~Choose /\ ~(\E j \in Jobs : SkipStale(j) \/ Handoff(j))
    BY <1>1, <1>4, Unselected
<1> QED
    BY <1>2, <1>3, <1>4

\* An agent that is overtaken under competition extends the streak; an agent
\* goes first under competition only when the streak is at its limit, and then
\* no waiting interactive job has seen an agent go since the streak began.
LEMMA OvertakenStep ==
    ShapeInv /\ OvertakingInv /\ [Next]_vars => Overtaken'
<1> SUFFICES ASSUME ShapeInv, OvertakingInv, [Next]_vars, mode = "weighted",
                    NEW q \in Jobs, fate'[q] = "waiting"
             PROVE  IF ClassOf[q] = "agent"
                    THEN passed'[q] <= streak'
                    ELSE passed'[q] = 0 \/ (passed'[q] = 1 /\ streak' = 0)
    BY ModeKept DEF Overtaken, InFate
<1>1. /\ ClassOf \in [Jobs -> {"agent", "interactive"}]
      /\ streak \in 0 .. 3 /\ passed[q] \in Nat /\ TypeOK
    BY QueuesAssumption DEF ShapeInv, TypeOK, Classes, StreakLimit
<1>2. fate[q] = "waiting" \/ (PushBack(q) /\ fate[q] = "arriving")
    BY FateMoves
<1>3. fate[q] = "waiting" =>
        IF ClassOf[q] = "agent"
        THEN passed[q] <= streak
        ELSE passed[q] = 0 \/ (passed[q] = 1 /\ streak = 0)
    BY DEF OvertakingInv, Overtaken, InFate
<1>4. ASSUME NEW j \in Jobs, Handoff(j)
      PROVE  IF ClassOf[q] = "agent"
             THEN passed'[q] <= streak'
             ELSE passed'[q] = 0 \/ (passed'[q] = 1 /\ streak' = 0)
    <2>1. fate[j] = "selected" /\ fate[q] = "waiting"
        BY <1>2, <1>4 DEF Handoff, PushBack
    <2>2. /\ passed'[q] = IF ClassOf[q] = ClassOf[j]
                          THEN 0 ELSE passed[q] + 1
          /\ streak' = IF competing /\ ClassOf[j] = "interactive"
                       THEN streak + 1 ELSE 0
        BY <1>4, <2>1, HandoffCounts
    <2>3. CASE ClassOf[q] = ClassOf[j]
        <3>1. passed'[q] = 0 /\ streak' \in Nat
            BY <1>1, <2>2, <2>3
        <3> QED
            BY <3>1
    <2>4. CASE ClassOf[q] = "agent" /\ ClassOf[j] = "interactive"
        <3>1. competing
            BY <2>1, <2>4 DEF OvertakingInv, Contested
        <3>2. passed'[q] = passed[q] + 1 /\ streak' = streak + 1
            BY <2>2, <2>4, <3>1
        <3>3. passed[q] <= streak
            BY <1>3, <2>1, <2>4
        <3> QED
            BY <1>1, <2>4, <3>2, <3>3
    <2>5. CASE ClassOf[q] = "interactive" /\ ClassOf[j] = "agent"
        <3>1. competing
            BY <2>1, <2>5 DEF OvertakingInv, Contested
        <3>2. streak = 3
            BY <2>1, <2>5, <3>1 DEF ShapeInv, StreakDecides, StreakLimit
        <3>3. passed[q] = 0
            BY <1>3, <2>1, <2>5, <3>2
        <3>4. passed'[q] = passed[q] + 1 /\ streak' = 0
            BY <2>2, <2>5
        <3> QED
            BY <2>5, <3>3, <3>4
    <2> QED
        BY <1>1, <2>3, <2>4, <2>5
<1>5. CASE ChooseNothing
    <2>1. fate[q] = "waiting" /\ deque[ClassOf[q]] = <<>>
        BY <1>1, <1>2, <1>5 DEF ChooseNothing, PushBack, Classes
    <2>2. deque[ClassOf[q]] \in Seq(Jobs) /\ Holds(deque[ClassOf[q]], q)
        BY <1>1, <2>1
        DEF OvertakingInv, WaitingQueued, TypeOK, Classes
    <2> QED
        BY <2>1, <2>2, StillHeld
<1>6. CASE ~ChooseNothing /\ ~(\E j \in Jobs : Handoff(j))
    <2>1. UNCHANGED <<passed, streak>>
        <3>1. CASE Choose \/ \E j \in Jobs : SkipStale(j)
            BY <3>1 DEF Choose, SkipStale
        <3>2. CASE ~Choose /\ ~(\E j \in Jobs : SkipStale(j) \/ Handoff(j))
            BY <1>6, <3>2, Unselected
        <3> QED
            BY <1>6, <3>1, <3>2
    <2>2. CASE fate[q] = "waiting"
        BY <1>3, <2>1, <2>2
    <2>3. CASE fate[q] = "arriving"
        <3>1. passed'[q] = 0 /\ streak' \in Nat
            BY <1>1, <2>1, <2>3 DEF OvertakingInv, PassedFresh
        <3> QED
            BY <3>1
    <2> QED
        BY <1>2, <2>2, <2>3
<1> QED
    BY <1>4, <1>5, <1>6

\* Every step keeps the bounds.
LEMMA OvertakingStep ==
    ShapeInv /\ OvertakingInv /\ [Next]_vars => OvertakingInv'
BY WaitingQueuedStep, ContestedStep, PassedFreshStep, OvertakenStep
DEF OvertakingInv

\* BoundedOvertaking, for any number of jobs and any waiting times: in
\* weighted mode no sequence of arrivals, departures, expiries, rejections and
\* skipped selections lets more than three interactive jobs start past a
\* waiting agent job, nor more than one agent job past a waiting interactive.
THEOREM OvertakingBounded == Spec => []BoundedOvertaking
<1>1. ShapeInv /\ OvertakingInv => BoundedOvertaking
    <2> SUFFICES ASSUME ShapeInv, OvertakingInv, mode = "weighted",
                        NEW j \in InFate("waiting")
                 PROVE  passed[j] <= IF ClassOf[j] = "agent"
                                     THEN StreakLimit ELSE 1
        BY DEF BoundedOvertaking
    <2>1. /\ streak \in 0 .. 3 /\ passed[j] \in Nat
          /\ IF ClassOf[j] = "agent"
             THEN passed[j] <= streak
             ELSE passed[j] = 0 \/ (passed[j] = 1 /\ streak = 0)
        BY DEF ShapeInv, TypeOK, StreakLimit, OvertakingInv, Overtaken, InFate
    <2> QED
        BY <2>1 DEF StreakLimit
<1>2. Init => ShapeInv /\ OvertakingInv
    BY ShapeInit, OvertakingInit
<1>3. ShapeInv /\ OvertakingInv /\ [Next]_vars
        => ShapeInv' /\ OvertakingInv'
    BY ShapeStep, OvertakingStep
<1> QED
    BY <1>1, <1>2, <1>3, PTL DEF Spec

-----------------------------------------------------------------------------
(* Order: a scan rotates a deque without changing who is before whom.      *)

\* In s, whose first r jobs a scan has not looked at, the admission numbers
\* grow, but for the survivors of the scan behind those r: they were in front.
Rotated(s, num, r) ==
    \A i, k \in 1 .. Len(s) :
        i < k => IF i <= r /\ r < k
                 THEN num[s[k]] < num[s[i]]
                 ELSE num[s[i]] < num[s[k]]

\* How many jobs of a deque the scan has not looked at.
Unscanned(class) ==
    IF pc = "scan" /\ scan.class = class THEN scan.remaining ELSE 0

DequesOrdered ==
    \A class \in Classes : Rotated(deque[class], order, Unscanned(class))

\* Whoever is in a deque waits.
QueuedWaits ==
    \A class \in Classes :
        \A i \in 1 .. Len(deque[class]) : fate[deque[class][i]] = "waiting"

\* Admission numbers are given once, in order.
Numbered ==
    /\ \A j \in InFate("waiting") : order[j] < nextOrder
    /\ \A j, q \in InFate("waiting") : order[j] = order[q] => j = q

\* Nobody who waits should have been selected instead.
SelectedFirst ==
    \A j, q \in Jobs :
        /\ fate[j] = "selected"
        /\ fate[q] = "waiting"
        /\ mode = "fifo" \/ ClassOf[q] = ClassOf[j]
        => order[j] < order[q]

OrderInv ==
    /\ WaitingQueued
    /\ QueuedWaits
    /\ Numbered
    /\ DequesOrdered
    /\ SelectedFirst

\* The front job leaves the deque, or goes behind the survivors of the scan.
LEMMA RotationOrdered ==
    ASSUME NEW s \in Seq(Jobs), NEW num \in [Jobs -> Nat],
           NEW r \in Nat, r > 0, r <= Len(s), Rotated(s, num, r)
    PROVE  /\ Rotated(Tail(s), num, r - 1)
           /\ Rotated(Append(Tail(s), Head(s)), num, r - 1)
<1> DEFINE t == Tail(s)
           u == Append(Tail(s), Head(s))
<1>1. /\ s # <<>> /\ Len(s) \in Nat /\ Head(s) = s[1] /\ Head(s) \in Jobs
      /\ t \in Seq(Jobs) /\ Len(t) = Len(s) - 1
      /\ \A i \in 1 .. Len(t) : t[i] = s[i + 1]
    BY DequeOps
<1>2. /\ Len(u) = Len(s)
      /\ \A i \in 1 .. Len(t) : u[i] = s[i + 1]
      /\ u[Len(s)] = s[1]
    BY <1>1, DequeOps
<1>3. \A i \in 1 .. Len(s) : s[i] \in Jobs
    BY ElementOfSeq
<1> HIDE DEF t, u
<1>4. Rotated(t, num, r - 1)
    <2> SUFFICES ASSUME NEW i \in 1 .. Len(t), NEW k \in 1 .. Len(t), i < k
                 PROVE  IF i <= r - 1 /\ r - 1 < k
                        THEN num[t[k]] < num[t[i]]
                        ELSE num[t[i]] < num[t[k]]
        BY DEF Rotated
    <2>1. /\ i + 1 \in 1 .. Len(s) /\ k + 1 \in 1 .. Len(s)
          /\ t[i] = s[i + 1] /\ t[k] = s[k + 1]
        BY <1>1
    <2>2. IF i + 1 <= r /\ r < k + 1
          THEN num[s[k + 1]] < num[s[i + 1]]
          ELSE num[s[i + 1]] < num[s[k + 1]]
        BY <2>1 DEF Rotated
    <2> QED
        BY <2>1, <2>2
<1>5. Rotated(u, num, r - 1)
    <2> SUFFICES ASSUME NEW i \in 1 .. Len(u), NEW k \in 1 .. Len(u), i < k
                 PROVE  IF i <= r - 1 /\ r - 1 < k
                        THEN num[u[k]] < num[u[i]]
                        ELSE num[u[i]] < num[u[k]]
        BY DEF Rotated
    <2>1. /\ i \in Nat /\ k \in Nat /\ 1 <= i
          /\ i \in 1 .. Len(s) - 1 /\ i + 1 \in 1 .. Len(s)
          /\ k < Len(s) \/ k = Len(s)
        <3>1. Len(s) \in Nat /\ Len(u) = Len(s)
            BY <1>1, <1>2
        <3> QED
            BY <3>1
    <2>2. i + 1 \in 1 .. Len(s) /\ u[i] = s[i + 1]
        BY <1>1, <1>2, <2>1
    <2>3. CASE k < Len(s)
        <3>1. k + 1 \in 1 .. Len(s) /\ u[k] = s[k + 1]
            <4>1. Len(s) \in Nat /\ Len(t) = Len(s) - 1
                BY <1>1
            <4>2. k + 1 \in 1 .. Len(s) /\ k \in 1 .. Len(t)
                BY <2>1, <2>3, <4>1
            <4> QED
                BY <1>2, <4>2
        <3>2. i + 1 < k + 1
            BY <2>1
        <3>3. IF i + 1 <= r /\ r < k + 1
              THEN num[s[k + 1]] < num[s[i + 1]]
              ELSE num[s[i + 1]] < num[s[k + 1]]
            BY <2>2, <3>1, <3>2 DEF Rotated
        <3>4. (i <= r - 1 /\ r - 1 < k) <=> (i + 1 <= r /\ r < k + 1)
            BY <2>1
        <3> QED
            BY <2>2, <3>1, <3>3, <3>4
    <2>4. CASE k = Len(s)
        <3>1. u[k] = s[1]
            BY <1>1, <1>2, <2>4
        <3>2. 1 \in 1 .. Len(s) /\ 1 < i + 1 /\ r - 1 < k
            BY <1>1, <2>1, <2>4
        <3>3. IF 1 <= r /\ r < i + 1
              THEN num[s[i + 1]] < num[s[1]]
              ELSE num[s[1]] < num[s[i + 1]]
            BY <2>2, <3>2 DEF Rotated
        <3>4. (i <= r - 1) <=> ~(1 <= r /\ r < i + 1)
            BY <2>1
        <3> QED
            BY <2>2, <3>1, <3>2, <3>3, <3>4
    <2> QED
        BY <2>1, <2>3, <2>4
<1> QED
    BY <1>4, <1>5 DEF t, u

\* What a deque without a scan gives: its front is first, it stays ordered
\* without it and with a later job behind it, and it is ready for a scan.
LEMMA DequeOrdered ==
    ASSUME NEW s \in Seq(Jobs), NEW num \in [Jobs -> Nat], Rotated(s, num, 0)
    PROVE  /\ Rotated(s, num, Len(s))
           /\ s # <<>> =>
                /\ Rotated(Tail(s), num, 0)
                /\ \A j \in Jobs :
                    Holds(s, j) => j = Head(s) \/ num[Head(s)] < num[j]
           /\ \A j \in Jobs :
                (\A i \in 1 .. Len(s) : num[s[i]] < num[j])
                    => Rotated(Append(s, j), num, 0)
<1>1. Len(s) \in Nat /\ \A i \in 1 .. Len(s) : s[i] \in Jobs
    BY DequeOps, ElementOfSeq
<1>2. \A i, k \in 1 .. Len(s) : i < k => num[s[i]] < num[s[k]]
    BY DEF Rotated
<1>3. Rotated(s, num, Len(s))
    BY <1>1, <1>2 DEF Rotated
<1>4. ASSUME s # <<>>
      PROVE  /\ Rotated(Tail(s), num, 0)
             /\ \A j \in Jobs :
                    Holds(s, j) => j = Head(s) \/ num[Head(s)] < num[j]
    <2>1. /\ Head(s) = s[1] /\ Len(Tail(s)) = Len(s) - 1 /\ Len(s) > 0
          /\ \A i \in 1 .. Len(Tail(s)) : Tail(s)[i] = s[i + 1]
        BY <1>4, DequeOps
    <2>2. Rotated(Tail(s), num, 0)
        <3> SUFFICES ASSUME NEW i \in 1 .. Len(Tail(s)),
                            NEW k \in 1 .. Len(Tail(s)), i < k
                     PROVE  num[Tail(s)[i]] < num[Tail(s)[k]]
            BY DEF Rotated
        <3>1. /\ i + 1 \in 1 .. Len(s) /\ k + 1 \in 1 .. Len(s)
              /\ i + 1 < k + 1
            BY <1>1, <2>1
        <3> QED
            BY <1>2, <2>1, <3>1
    <2>3. ASSUME NEW j \in Jobs, Holds(s, j)
          PROVE  j = Head(s) \/ num[Head(s)] < num[j]
        <3>1. PICK i \in 1 .. Len(s) : s[i] = j
            BY <2>3 DEF Holds
        <3>2. i = 1 \/ (1 \in 1 .. Len(s) /\ 1 < i)
            BY <1>1
        <3> QED
            BY <1>2, <2>1, <3>1, <3>2
    <2> QED
        BY <2>2, <2>3
<1>5. ASSUME NEW j \in Jobs, \A i \in 1 .. Len(s) : num[s[i]] < num[j]
      PROVE  Rotated(Append(s, j), num, 0)
    <2>1. /\ Len(Append(s, j)) = Len(s) + 1
          /\ \A i \in 1 .. Len(s) : Append(s, j)[i] = s[i]
          /\ Append(s, j)[Len(s) + 1] = j
        BY DequeOps
    <2> SUFFICES ASSUME NEW i \in 1 .. Len(s) + 1, NEW k \in 1 .. Len(s) + 1,
                        i < k
                 PROVE  num[Append(s, j)[i]] < num[Append(s, j)[k]]
        BY <1>1, <2>1 DEF Rotated
    <2>2. i \in 1 .. Len(s) /\ Append(s, j)[i] = s[i]
        BY <1>1, <2>1
    <2>3. CASE k = Len(s) + 1
        BY <1>5, <2>1, <2>2, <2>3
    <2>4. CASE k \in 1 .. Len(s)
        BY <1>2, <2>1, <2>2, <2>4
    <2> QED
        BY <1>1, <2>3, <2>4
<1> QED
    BY <1>3, <1>4, <1>5

\* The deques start empty, and so does the numbering.
LEMMA OrderInit == Init => OrderInv
<1> SUFFICES ASSUME Init PROVE OrderInv
    OBVIOUS
<1>1. \A class \in Classes : deque[class] = <<>> /\ Len(deque[class]) = 0
    BY EmptySeq DEF Init
<1> QED
    BY <1>1 DEF Init, OrderInv, WaitingQueued, QueuedWaits, Numbered,
        DequesOrdered, Rotated, SelectedFirst, InFate

\* Two places of a deque hold two jobs.
LEMMA RotatedApart ==
    ASSUME NEW s \in Seq(Jobs), NEW num \in [Jobs -> Nat], NEW r \in Nat,
           Rotated(s, num, r), NEW i \in 1 .. Len(s), NEW k \in 1 .. Len(s),
           i # k
    PROVE  s[i] # s[k]
<1>1. s[i] \in Jobs /\ s[k] \in Jobs /\ Len(s) \in Nat
    BY ElementOfSeq, DequeOps
<1>2. num[s[i]] \in Nat /\ num[s[k]] \in Nat
    BY <1>1
<1>3. i < k \/ k < i
    BY <1>1
<1>4. num[s[i]] < num[s[k]] \/ num[s[k]] < num[s[i]]
    BY <1>3 DEF Rotated
<1> QED
    BY <1>2, <1>4

\* What the order of the deques says of one of them.
LEMMA OneDeque ==
    ASSUME ShapeInv, OrderInv, NEW class \in Classes
    PROVE  /\ deque[class] \in Seq(Jobs)
           /\ order \in [Jobs -> Nat]
           /\ Unscanned(class) \in Nat
           /\ Rotated(deque[class], order, Unscanned(class))
           /\ pc # "scan" => Unscanned(class) = 0
           /\ \A i \in 1 .. Len(deque[class]) :
                /\ deque[class][i] \in Jobs
                /\ ClassOf[deque[class][i]] = class
                /\ fate[deque[class][i]] = "waiting"
<1>1. deque[class] \in Seq(Jobs) /\ scan.remaining \in Nat
      /\ order \in [Jobs -> Nat]
    BY DEF ShapeInv, TypeOK
<1>2. \A i \in 1 .. Len(deque[class]) : deque[class][i] \in Jobs
    BY <1>1, ElementOfSeq
<1> QED
    BY <1>1, <1>2
    DEF ShapeInv, DequeClasses, OrderInv, QueuedWaits, DequesOrdered,
        Unscanned

\* Nothing is given a number or newly selected: who waited is still in order.
LEMMA Settled ==
    ASSUME Numbered, SelectedFirst, order' = order, nextOrder' = nextOrder,
           mode' = mode,
           \A j \in Jobs : fate'[j] = "waiting" => fate[j] = "waiting",
           \A j \in Jobs : fate'[j] = "selected" => fate[j] = "selected"
    PROVE  Numbered' /\ SelectedFirst'
BY DEF Numbered, SelectedFirst, InFate

\* Rotating keeps the order.
LEMMA RotateOrder ==
    ASSUME ShapeInv, OrderInv, Rotate
    PROVE  QueuedWaits' /\ Numbered' /\ DequesOrdered' /\ SelectedFirst'
<1> DEFINE c == scan.class
           s == deque[c]
           r == scan.remaining
<1>1. /\ c \in Classes /\ r \in Nat /\ fate \in [Jobs -> Fates]
      /\ deque \in [Classes -> Seq(Jobs)]
    BY DEF ShapeInv, TypeOK
<1>2. /\ s \in Seq(Jobs) /\ order \in [Jobs -> Nat]
      /\ Rotated(s, order, r)
    BY <1>1, OneDeque DEF Rotate, Unscanned
<1>3. r > 0 /\ r <= Len(s) /\ s # <<>>
    BY <1>1, <1>2, DequeOps DEF Rotate, ShapeInv, ScanFits
<1>4. /\ Len(s) \in Nat /\ Head(s) = s[1] /\ Head(s) \in Jobs
      /\ Tail(s) \in Seq(Jobs) /\ Len(Tail(s)) = Len(s) - 1
      /\ \A i \in 1 .. Len(Tail(s)) : Tail(s)[i] = s[i + 1]
      /\ Append(Tail(s), Head(s)) \in Seq(Jobs)
      /\ Len(Append(Tail(s), Head(s))) = Len(s)
      /\ \A i \in 1 .. Len(Tail(s)) : Append(Tail(s), Head(s))[i] = s[i + 1]
      /\ Append(Tail(s), Head(s))[Len(s)] = Head(s)
    BY <1>2, <1>3, DequeOps
<1>5. /\ order' = order /\ nextOrder' = nextOrder /\ mode' = mode
      /\ pc = "scan" /\ pc' = "scan"
      /\ scan' = [scan EXCEPT !.remaining = r - 1]
      /\ \/ /\ deque' = [deque EXCEPT ![c] = Append(Tail(s), Head(s))]
            /\ fate' = [fate EXCEPT ![Head(s)] = fate[Head(s)]]
         \/ /\ deque' = [deque EXCEPT ![c] = Tail(s)]
            /\ fate' = [fate EXCEPT ![Head(s)] = "gone"]
    BY DEF Rotate
<1>6. scan'.class = c /\ scan'.remaining = r - 1
    BY <1>5 DEF ShapeInv, TypeOK
<1>7. \A class \in Classes \ {c} : deque'[class] = deque[class]
    BY <1>1, <1>5
<1>8. \/ deque'[c] = Append(Tail(s), Head(s)) /\ fate' = fate
      \/ /\ deque'[c] = Tail(s)
         /\ fate' = [fate EXCEPT ![Head(s)] = "gone"]
    BY <1>1, <1>4, <1>5
<1>9. DequesOrdered'
    <2> SUFFICES ASSUME NEW class \in Classes
                 PROVE  Rotated(deque'[class], order',
                                IF pc' = "scan" /\ scan'.class = class
                                THEN scan'.remaining ELSE 0)
        BY DEF DequesOrdered, Rotated, Unscanned
    <2>1. CASE class = c
        <3>1. /\ Rotated(Tail(s), order, r - 1)
              /\ Rotated(Append(Tail(s), Head(s)), order, r - 1)
            BY <1>1, <1>2, <1>3, RotationOrdered
        <3>2. Rotated(deque'[c], order, r - 1)
            BY <1>8, <3>1
        <3> QED
            BY <1>5, <1>6, <2>1, <3>2
    <2>2. CASE class # c
        <3>1. Rotated(deque[class], order, 0)
            BY <2>2, OneDeque DEF Unscanned
        <3> QED
            BY <1>5, <1>6, <1>7, <2>2, <3>1
    <2> QED
        BY <2>1, <2>2
<1>10. QueuedWaits'
    <2> SUFFICES ASSUME NEW class \in Classes,
                        NEW i \in 1 .. Len(deque'[class])
                 PROVE  fate'[deque'[class][i]] = "waiting"
        BY DEF QueuedWaits
    <2>1. CASE class # c
        <3>1. /\ deque[class][i] \in Jobs /\ ClassOf[deque[class][i]] = class
              /\ fate[deque[class][i]] = "waiting"
            BY <1>7, <2>1, OneDeque
        <3>2. ClassOf[Head(s)] = c
            BY <1>1, <1>3, <1>4, OneDeque
        <3> QED
            BY <1>1, <1>7, <1>8, <2>1, <3>1, <3>2
    <2>2. CASE class = c
        <3>1. \A k \in 1 .. Len(s) : s[k] \in Jobs /\ fate[s[k]] = "waiting"
            BY <1>1, OneDeque
        <3>2. CASE deque'[c] = Append(Tail(s), Head(s)) /\ fate' = fate
            <4>1. i = Len(s) \/ i \in 1 .. Len(Tail(s))
                BY <1>4, <2>2, <3>2
            <4>2. \E k \in 1 .. Len(s) : deque'[c][i] = s[k]
                BY <1>3, <1>4, <3>2, <4>1
            <4> QED
                BY <2>2, <3>1, <3>2, <4>2
        <3>3. CASE /\ deque'[c] = Tail(s)
                   /\ fate' = [fate EXCEPT ![Head(s)] = "gone"]
            <4>1. /\ deque'[c][i] = s[i + 1] /\ i + 1 \in 1 .. Len(s)
                  /\ 1 \in 1 .. Len(s) /\ i + 1 # 1
                BY <1>4, <2>2, <3>3
            <4>2. s[i + 1] # Head(s)
                BY <1>1, <1>2, <1>4, <4>1, RotatedApart
            <4> QED
                BY <1>1, <2>2, <3>1, <3>3, <4>1, <4>2
        <3> QED
            BY <1>8, <3>2, <3>3
    <2> QED
        BY <2>1, <2>2
<1>11. Numbered' /\ SelectedFirst'
    <2>1. \A j \in Jobs :
            /\ fate'[j] = "waiting" => fate[j] = "waiting"
            /\ fate'[j] = "selected" => fate[j] = "selected"
        BY <1>1, <1>8
    <2> QED
        BY <1>5, <2>1, Settled DEF OrderInv
<1> QED
    BY <1>9, <1>10, <1>11

\* A job that is pushed gets the highest number and goes to the back.
LEMMA PushOrder ==
    ASSUME ShapeInv, OrderInv, NEW j \in Jobs, PushBack(j)
    PROVE  QueuedWaits' /\ Numbered' /\ DequesOrdered' /\ SelectedFirst'
<1> DEFINE c == ClassOf[j]
<1>1. /\ c \in Classes /\ fate \in [Jobs -> Fates] /\ order \in [Jobs -> Nat]
      /\ deque \in [Classes -> Seq(Jobs)] /\ nextOrder \in Nat
    BY QueuesAssumption DEF ShapeInv, TypeOK
<1>2. /\ pc = "push" /\ pc' = "free" /\ fate[j] = "arriving"
      /\ nextOrder' = nextOrder + 1 /\ mode' = mode
      /\ \/ /\ fate' = [fate EXCEPT ![j] = "gone"]
            /\ deque' = deque /\ order' = order
         \/ /\ fate' = [fate EXCEPT ![j] = "waiting"]
            /\ deque' = [deque EXCEPT ![c] = Append(deque[c], j)]
            /\ order' = [order EXCEPT ![j] = nextOrder]
    BY DEF PushBack
<1>3. \A q \in Jobs : fate'[q] # "selected"
    <2>1. \A q \in Jobs : fate[q] # "selected"
        BY <1>2 DEF ShapeInv, OneSelected
    <2> QED
        BY <1>1, <1>2, <2>1
<1>4. SelectedFirst'
    BY <1>3 DEF SelectedFirst
<1>5. \A class \in Classes :
        /\ deque[class] \in Seq(Jobs) /\ Len(deque[class]) \in Nat
        /\ Rotated(deque[class], order, 0)
        /\ \A i \in 1 .. Len(deque[class]) :
            /\ deque[class][i] \in Jobs /\ deque[class][i] # j
            /\ fate[deque[class][i]] = "waiting"
            /\ order[deque[class][i]] < nextOrder
    <2> SUFFICES ASSUME NEW class \in Classes
                 PROVE  /\ deque[class] \in Seq(Jobs)
                        /\ Len(deque[class]) \in Nat
                        /\ Rotated(deque[class], order, 0)
                        /\ \A i \in 1 .. Len(deque[class]) :
                            /\ deque[class][i] \in Jobs
                            /\ deque[class][i] # j
                            /\ fate[deque[class][i]] = "waiting"
                            /\ order[deque[class][i]] < nextOrder
        OBVIOUS
    <2>1. Unscanned(class) = 0
        BY <1>2, OneDeque
    <2> QED
        BY <1>2, <2>1, OneDeque, DequeOps DEF OrderInv, Numbered, InFate
<1>6. CASE /\ fate' = [fate EXCEPT ![j] = "gone"]
           /\ deque' = deque /\ order' = order
    <2>1. QueuedWaits'
        BY <1>1, <1>5, <1>6 DEF QueuedWaits
    <2>2. DequesOrdered'
        BY <1>2, <1>5, <1>6 DEF DequesOrdered, Rotated, Unscanned
    <2>3. Numbered'
        <3>1. \A q \in Jobs : fate'[q] = "waiting" => fate[q] = "waiting"
            BY <1>1, <1>6
        <3>2. \A q \in Jobs : order[q] < nextOrder => order[q] < nextOrder'
            BY <1>1, <1>2
        <3> QED
            BY <1>6, <3>1, <3>2 DEF OrderInv, Numbered, InFate
    <2> QED
        BY <1>4, <2>1, <2>2, <2>3
<1>7. CASE /\ fate' = [fate EXCEPT ![j] = "waiting"]
           /\ deque' = [deque EXCEPT ![c] = Append(deque[c], j)]
           /\ order' = [order EXCEPT ![j] = nextOrder]
    <2> DEFINE s == deque[c]
    <2>1. /\ order' \in [Jobs -> Nat] /\ order'[j] = nextOrder
          /\ \A q \in Jobs \ {j} : order'[q] = order[q]
          /\ fate'[j] = "waiting"
          /\ \A q \in Jobs \ {j} : fate'[q] = fate[q]
        BY <1>1, <1>7
    <2>2. /\ deque'[c] = Append(s, j)
          /\ \A class \in Classes \ {c} : deque'[class] = deque[class]
        BY <1>1, <1>7
    <2>3. /\ s \in Seq(Jobs) /\ Len(s) \in Nat
          /\ Len(Append(s, j)) = Len(s) + 1
          /\ \A i \in 1 .. Len(s) : Append(s, j)[i] = s[i]
          /\ Append(s, j)[Len(s) + 1] = j
        BY <1>1, DequeOps
    <2>4. \A class \in Classes : Rotated(deque[class], order', 0)
        BY <1>5, <2>1 DEF Rotated
    <2>5. Rotated(Append(s, j), order', 0)
        <3>1. \A i \in 1 .. Len(s) : order'[s[i]] < order'[j]
            BY <1>1, <1>5, <2>1
        <3>2. Rotated(s, order', 0)
            BY <1>1, <2>4
        <3> HIDE DEF s, c
        <3> QED
            BY <2>1, <2>3, <3>1, <3>2, DequeOrdered
    <2>6. DequesOrdered'
        <3> SUFFICES ASSUME NEW class \in Classes
                     PROVE  Rotated(deque'[class], order', 0)
            BY <1>2 DEF DequesOrdered, Rotated, Unscanned
        <3>1. CASE class = c
            BY <2>2, <2>5, <3>1
        <3>2. CASE class # c
            BY <2>2, <2>4, <3>2
        <3> QED
            BY <3>1, <3>2
    <2>7. QueuedWaits'
        <3> SUFFICES ASSUME NEW class \in Classes,
                            NEW i \in 1 .. Len(deque'[class])
                     PROVE  fate'[deque'[class][i]] = "waiting"
            BY DEF QueuedWaits
        <3>1. CASE class # c
            BY <1>5, <2>1, <2>2, <3>1
        <3>2. CASE class = c
            <4>1. i = Len(s) + 1 \/ i \in 1 .. Len(s)
                BY <2>2, <2>3, <3>2
            <4>2. CASE i = Len(s) + 1
                BY <2>1, <2>2, <2>3, <3>2, <4>2
            <4>3. CASE i \in 1 .. Len(s)
                <5>1. deque'[class][i] = s[i] /\ s[i] \in Jobs \ {j}
                      /\ fate[s[i]] = "waiting"
                    BY <1>1, <1>5, <2>2, <2>3, <3>2, <4>3
                <5> QED
                    BY <2>1, <5>1
            <4> QED
                BY <4>1, <4>2, <4>3
        <3> QED
            BY <3>1, <3>2
    <2>8. Numbered'
        <3>1. \A q \in Jobs \ {j} : fate'[q] = "waiting" =>
                fate[q] = "waiting" /\ order'[q] < nextOrder
            BY <2>1 DEF OrderInv, Numbered, InFate
        <3>2. \A q \in Jobs : fate'[q] = "waiting" => order'[q] < nextOrder'
            BY <1>1, <1>2, <2>1, <3>1
        <3>3. ASSUME NEW q \in Jobs, NEW k \in Jobs, fate'[q] = "waiting",
                     fate'[k] = "waiting", order'[q] = order'[k]
              PROVE  q = k
            <4>1. CASE q # j /\ k # j
                BY <2>1, <3>3, <4>1 DEF OrderInv, Numbered, InFate
            <4>2. CASE q = j \/ k = j
                <5>1. order'[q] = nextOrder /\ order'[k] = nextOrder
                    BY <2>1, <3>3, <4>2
                <5>2. ~(nextOrder < nextOrder)
                    BY <1>1
                <5> QED
                    BY <3>1, <3>3, <5>1, <5>2
            <4> QED
                BY <4>1, <4>2
        <3> QED
            BY <3>2, <3>3 DEF Numbered, InFate
    <2> QED
        BY <1>4, <2>6, <2>7, <2>8
<1> QED
    BY <1>2, <1>6, <1>7

\* The least number of a deque is the number of its front.
LEMMA FirstIsFront ==
    ASSUME ShapeInv, OrderInv, pc # "scan", NEW class \in Classes,
           deque[class] # <<>>
    PROVE  /\ First(OrdersOf(class)) = order[Head(deque[class])]
           /\ OrdersOf(class) # {}
           /\ Head(deque[class]) \in Jobs
           /\ \A q \in Jobs :
                fate[q] = "waiting" /\ ClassOf[q] = class
                /\ q # Head(deque[class])
                    => order[Head(deque[class])] < order[q]
<1> DEFINE s == deque[class]
           h == Head(deque[class])
<1>1. /\ s \in Seq(Jobs) /\ order \in [Jobs -> Nat] /\ Rotated(s, order, 0)
      /\ \A i \in 1 .. Len(s) : s[i] \in Jobs
    BY OneDeque
<1>2. /\ h \in Jobs /\ h = s[1] /\ Len(s) \in Nat /\ 1 \in 1 .. Len(s)
    BY <1>1, DequeOps
<1>3. \A i, k \in 1 .. Len(s) : i < k => order[s[i]] < order[s[k]]
    BY <1>1 DEF Rotated
<1>4. \A n \in OrdersOf(class) : n \in Nat /\ order[h] <= n
    <2> SUFFICES ASSUME NEW i \in 1 .. Len(s)
                 PROVE  order[s[i]] \in Nat /\ order[h] <= order[s[i]]
        BY DEF OrdersOf
    <2>1. order[s[i]] \in Nat /\ order[h] \in Nat
        BY <1>1, <1>2
    <2>2. CASE i = 1
        BY <1>2, <2>1, <2>2
    <2>3. CASE i # 1
        <3>1. 1 < i
            BY <2>3
        <3>2. order[h] < order[s[i]]
            BY <1>2, <1>3, <3>1
        <3> QED
            BY <2>1, <3>2
    <2> QED
        BY <2>2, <2>3
<1>5. order[h] \in OrdersOf(class) /\ order[h] \in Nat
    BY <1>1, <1>2 DEF OrdersOf
<1>6. First(OrdersOf(class)) = order[h]
    <2>1. \A n \in OrdersOf(class) :
            (\A m \in OrdersOf(class) : n <= m) => n = order[h]
        BY <1>4, <1>5
    <2> QED
        BY <1>4, <1>5, <2>1 DEF First
<1>7. ASSUME NEW q \in Jobs, fate[q] = "waiting", ClassOf[q] = class, q # h
      PROVE  order[h] < order[q]
    <2>1. Holds(s, q)
        BY <1>7 DEF OrderInv, WaitingQueued
    <2> QED
        BY <1>1, <1>7, <2>1, DequeOrdered
<1> QED
    BY <1>2, <1>5, <1>6, <1>7

\* The front of the chosen deque is the earliest waiting job of its class, in
\* fifo mode of both.
LEMMA ChosenEarliest ==
    ASSUME ShapeInv, OrderInv, Choose
    PROVE  \E class \in Classes :
            LET h == Head(deque[class]) IN
            /\ deque[class] # <<>> /\ h \in Jobs
            /\ fate' = [fate EXCEPT ![h] = "selected"]
            /\ deque' = [deque EXCEPT ![class] = Tail(deque[class])]
            /\ \A q \in Jobs :
                /\ fate[q] = "waiting" /\ q # h
                /\ mode = "fifo" \/ ClassOf[q] = ClassOf[h]
                => order[h] < order[q]
<1> DEFINE picks == PicksInteractive(mode, streak, OrdersOf("interactive"),
                                     OrdersOf("agent"))
           class == IF picks THEN "interactive" ELSE "agent"
           h == Head(deque[class])
<1>1. /\ pc = "choose" /\ deque[class] # <<>>
      /\ fate' = [fate EXCEPT ![h] = "selected"]
      /\ deque' = [deque EXCEPT ![class] = Tail(deque[class])]
    BY DEF Choose
<1>2. class \in Classes /\ order \in [Jobs -> Nat]
      /\ \A q \in Jobs : ClassOf[q] \in Classes
    BY QueuesAssumption DEF Classes, ShapeInv, TypeOK
<1>3. /\ h \in Jobs /\ First(OrdersOf(class)) = order[h]
      /\ OrdersOf(class) # {}
      /\ \A q \in Jobs :
            fate[q] = "waiting" /\ ClassOf[q] = class /\ q # h
                => order[h] < order[q]
    BY <1>1, <1>2, FirstIsFront
<1>4. ClassOf[h] = class
    <2>1. h = deque[class][1] /\ 1 \in 1 .. Len(deque[class])
        BY <1>1, <1>2, OneDeque, DequeOps
    <2> QED
        BY <1>2, <2>1, OneDeque
<1>5. ASSUME NEW q \in Jobs, fate[q] = "waiting", mode = "fifo",
             ClassOf[q] # class
      PROVE  order[h] < order[q]
    <2> DEFINE d == ClassOf[q]
    <2>1. d \in Classes /\ Holds(deque[d], q) /\ deque[d] \in Seq(Jobs)
        BY <1>2, <1>5, OneDeque DEF OrderInv, WaitingQueued
    <2>2. deque[d] # <<>>
        BY <2>1, StillHeld
    <2>3. /\ First(OrdersOf(d)) = order[Head(deque[d])]
          /\ OrdersOf(d) # {} /\ Head(deque[d]) \in Jobs
          /\ q # Head(deque[d]) => order[Head(deque[d])] < order[q]
        BY <1>1, <1>5, <2>1, <2>2, FirstIsFront
    <2>4. order[Head(deque[d])] <= order[q]
        BY <1>2, <2>3
    <2>5. order[h] \in Nat /\ order[q] \in Nat /\ order[Head(deque[d])] \in Nat
        BY <1>2, <1>3, <2>3
    <2>6. CASE class = "interactive"
        <3>1. d = "agent" /\ picks
            BY <1>5, <2>1, <2>6 DEF Classes
        <3>2. First(OrdersOf("interactive")) < First(OrdersOf("agent"))
            BY <1>5, <2>3, <3>1 DEF PicksInteractive
        <3> QED
            BY <1>3, <2>3, <2>4, <2>5, <2>6, <3>1, <3>2
    <2>7. CASE class = "agent"
        <3>1. d = "interactive" /\ ~picks
            BY <1>5, <2>1, <2>7 DEF Classes
        <3>2. ~(First(OrdersOf("interactive")) < First(OrdersOf("agent")))
            BY <1>5, <2>3, <3>1 DEF PicksInteractive
        <3>3. order[h] <= order[Head(deque[d])]
            BY <1>3, <2>3, <2>5, <2>7, <3>1, <3>2
        <3>4. order[h] # order[q]
            <4>1. fate[h] = "waiting"
                <5>1. h = deque[class][1] /\ 1 \in 1 .. Len(deque[class])
                    BY <1>1, <1>2, OneDeque, DequeOps
                <5> QED
                    BY <1>2, <5>1, OneDeque
            <4> QED
                BY <1>3, <1>4, <1>5, <4>1 DEF OrderInv, Numbered, InFate
        <3> QED
            BY <2>4, <2>5, <3>3, <3>4
    <2> QED
        BY <2>6, <2>7
<1> HIDE DEF picks
<1>6. /\ deque[class] # <<>> /\ h \in Jobs
      /\ fate' = [fate EXCEPT ![h] = "selected"]
      /\ deque' = [deque EXCEPT ![class] = Tail(deque[class])]
      /\ \A q \in Jobs :
            /\ fate[q] = "waiting" /\ q # h
            /\ mode = "fifo" \/ ClassOf[q] = ClassOf[h]
            => order[h] < order[q]
    BY <1>1, <1>3, <1>4, <1>5
<1> HIDE DEF class
<1> QED
    BY <1>2, <1>6

\* Taking the front job out keeps the order, and the job is the earliest.
LEMMA ChooseOrder ==
    ASSUME ShapeInv, OrderInv, Choose
    PROVE  QueuedWaits' /\ Numbered' /\ DequesOrdered' /\ SelectedFirst'
<1>1. PICK c \in Classes :
        /\ deque[c] # <<>> /\ Head(deque[c]) \in Jobs
        /\ fate' = [fate EXCEPT ![Head(deque[c])] = "selected"]
        /\ deque' = [deque EXCEPT ![c] = Tail(deque[c])]
        /\ \A q \in Jobs :
            /\ fate[q] = "waiting" /\ q # Head(deque[c])
            /\ mode = "fifo" \/ ClassOf[q] = ClassOf[Head(deque[c])]
            => order[Head(deque[c])] < order[q]
    BY ChosenEarliest
<1> DEFINE s == deque[c]
           h == Head(deque[c])
<1>2. /\ fate \in [Jobs -> Fates] /\ deque \in [Classes -> Seq(Jobs)]
      /\ pc = "choose" /\ pc' = "handoff" /\ mode' = mode
      /\ order' = order /\ nextOrder' = nextOrder
    BY DEF ShapeInv, TypeOK, Choose
<1>3. /\ s \in Seq(Jobs) /\ order \in [Jobs -> Nat] /\ Rotated(s, order, 0)
    BY <1>2, OneDeque
<1>4. /\ h = s[1] /\ Len(s) \in Nat /\ 1 \in 1 .. Len(s)
      /\ Len(Tail(s)) = Len(s) - 1
      /\ \A i \in 1 .. Len(Tail(s)) : Tail(s)[i] = s[i + 1]
    BY <1>1, <1>3, DequeOps
<1>5. /\ deque'[c] = Tail(s)
      /\ \A class \in Classes \ {c} : deque'[class] = deque[class]
      /\ fate'[h] = "selected"
      /\ \A q \in Jobs \ {h} : fate'[q] = fate[q]
    BY <1>1, <1>2
<1>6. DequesOrdered'
    <2> SUFFICES ASSUME NEW class \in Classes
                 PROVE  Rotated(deque'[class], order', 0)
        BY <1>2 DEF DequesOrdered, Rotated, Unscanned
    <2>1. CASE class = c
        <3>1. Rotated(Tail(s), order, 0)
            BY <1>1, <1>3, DequeOrdered
        <3> QED
            BY <1>2, <1>5, <2>1, <3>1
    <2>2. CASE class # c
        <3>1. Rotated(deque[class], order, 0)
            BY <1>2, OneDeque
        <3> QED
            BY <1>2, <1>5, <2>2, <3>1
    <2> QED
        BY <2>1, <2>2
<1>7. QueuedWaits'
    <2> SUFFICES ASSUME NEW class \in Classes,
                        NEW i \in 1 .. Len(deque'[class])
                 PROVE  fate'[deque'[class][i]] = "waiting"
        BY DEF QueuedWaits
    <2>1. CASE class # c
        <3>1. /\ deque[class][i] \in Jobs /\ ClassOf[deque[class][i]] = class
              /\ fate[deque[class][i]] = "waiting" /\ ClassOf[h] = c
            BY <1>4, <1>5, <2>1, OneDeque
        <3> QED
            BY <1>5, <2>1, <3>1
    <2>2. CASE class = c
        <3>1. /\ deque'[class][i] = s[i + 1] /\ i + 1 \in 1 .. Len(s)
              /\ i + 1 # 1
            <4>1. i \in 1 .. Len(Tail(s)) /\ deque'[class][i] = Tail(s)[i]
                BY <1>5, <2>2
            <4>2. i + 1 \in 1 .. Len(s) /\ i + 1 # 1
                BY <1>4, <4>1
            <4> QED
                BY <1>4, <4>1, <4>2
        <3>2. s[i + 1] # h
            BY <1>3, <1>4, <3>1, RotatedApart
        <3>3. s[i + 1] \in Jobs /\ fate[s[i + 1]] = "waiting"
            BY <3>1, OneDeque
        <3> QED
            BY <1>5, <3>1, <3>2, <3>3
    <2> QED
        BY <2>1, <2>2
<1>8. Numbered'
    <2>1. \A q \in Jobs : fate'[q] = "waiting" => fate[q] = "waiting"
        BY <1>1, <1>5
    <2> QED
        BY <1>2, <2>1 DEF OrderInv, Numbered, InFate
<1>9. SelectedFirst'
    <2>1. \A q \in Jobs : fate[q] # "selected"
        BY <1>2 DEF ShapeInv, OneSelected
    <2>2. \A q \in Jobs :
            /\ fate'[q] = "selected" => q = h
            /\ fate'[q] = "waiting" => q # h /\ fate[q] = "waiting"
        BY <1>5, <2>1
    <2> QED
        BY <1>1, <1>2, <2>2 DEF SelectedFirst
<1> QED
    BY <1>6, <1>7, <1>8, <1>9

\* Every other step moves no deque and gives no number, or empties all.
LEMMA OtherOrder ==
    ASSUME ShapeInv, OrderInv, [Next]_vars,
           ~Rotate, ~Choose, ~(\E j \in Jobs : PushBack(j))
    PROVE  QueuedWaits' /\ Numbered' /\ DequesOrdered' /\ SelectedFirst'
<1>1. /\ fate \in [Jobs -> Fates] /\ TypeOK
      /\ OneSelected /\ QueuedWaits /\ DequesOrdered
    BY DEF ShapeInv, TypeOK, OrderInv
<1>2. /\ order' = order /\ nextOrder' = nextOrder /\ mode' = mode
      /\ \A q \in Jobs :
            /\ fate'[q] = "waiting" => fate[q] = "waiting"
            /\ fate'[q] = "selected" => fate[q] = "selected"
    <2>1. CASE NextDeque \/ EndScan
        BY <2>1 DEF NextDeque, EndScan
    <2>2. CASE LockScheduler \/ PopNext \/ Unlock \/ ChooseNothing
        BY <2>2 DEF LockScheduler, PopNext, Unlock, ChooseNothing
    <2>3. ASSUME NEW j \in Jobs,
                 Arrive(j) \/ SkipStale(j) \/ Handoff(j) \/ Leave(j)
          PROVE  /\ order' = order /\ nextOrder' = nextOrder /\ mode' = mode
                 /\ \A q \in Jobs :
                        /\ fate'[q] = "waiting" => fate[q] = "waiting"
                        /\ fate'[q] = "selected" => fate[q] = "selected"
        <3>1. /\ order' = order /\ nextOrder' = nextOrder /\ mode' = mode
              /\ \/ fate' = fate
                 \/ \E what \in {"arriving", "gone", "started"} :
                        fate' = [fate EXCEPT ![j] = what]
            BY <2>3 DEF Arrive, SkipStale, Handoff, Leave
        <3> QED
            BY <1>1, <3>1
    <2>4. CASE RejectPending \/ Tick \/ UNCHANGED vars
        BY <1>1, <2>4 DEF RejectPending, Tick, vars
    <2> QED
        BY <2>1, <2>2, <2>3, <2>4 DEF Next
<1>3. Numbered' /\ SelectedFirst'
    BY <1>2, Settled DEF OrderInv
<1>4. CASE RejectPending
    <2>1. \A class \in Classes : deque'[class] = <<>> /\ Len(deque'[class]) = 0
        BY <1>4, EmptySeq DEF RejectPending
    <2> QED
        BY <1>3, <2>1 DEF QueuedWaits, DequesOrdered, Rotated
<1>5. ASSUME deque' = deque,
             \A q \in Jobs : fate[q] = "waiting" => fate'[q] = "waiting",
             \A class \in Classes :
                Unscanned(class)' \in {Unscanned(class), 0, Len(deque[class])},
             \A class \in Classes :
                Unscanned(class)' # Unscanned(class) => Unscanned(class) = 0
      PROVE  QueuedWaits' /\ DequesOrdered'
    <2>1. QueuedWaits'
        BY <1>5, OneDeque DEF QueuedWaits
    <2>2. DequesOrdered'
        <3> SUFFICES ASSUME NEW class \in Classes
                     PROVE  Rotated(deque'[class], order', Unscanned(class)')
            BY DEF DequesOrdered, Rotated
        <3>1. /\ deque[class] \in Seq(Jobs) /\ order \in [Jobs -> Nat]
              /\ Rotated(deque[class], order, Unscanned(class))
            BY OneDeque
        <3>2. CASE Unscanned(class)' = Unscanned(class)
            BY <1>2, <1>5, <3>1, <3>2
        <3>3. CASE Unscanned(class)' # Unscanned(class)
            <4>1. Unscanned(class) = 0
                  /\ Unscanned(class)' = Len(deque[class])
                BY <1>5, <3>3
            <4>2. Rotated(deque[class], order, Len(deque[class]))
                BY <3>1, <4>1, DequeOrdered
            <4> QED
                BY <1>2, <1>5, <4>1, <4>2
        <3> QED
            BY <3>2, <3>3
    <2> QED
        BY <2>1, <2>2
<1>6. CASE \/ LockScheduler \/ PopNext
           \/ \E j \in Jobs : Arrive(j) \/ SkipStale(j)
    <2>1. /\ pc # "scan" /\ deque' = deque /\ pc' = "scan"
          /\ scan'.class = "interactive"
          /\ scan'.remaining = Len(deque["interactive"])
        BY <1>1, <1>6, ScanStarts
        DEF LockScheduler, PopNext, Arrive, SkipStale
    <2>2. \A q \in Jobs : fate[q] = "waiting" => fate'[q] = "waiting"
        <3>1. CASE LockScheduler \/ PopNext
            BY <3>1 DEF LockScheduler, PopNext
        <3>2. ASSUME NEW j \in Jobs, Arrive(j) \/ SkipStale(j)
              PROVE  \A q \in Jobs : fate[q] = "waiting" => fate'[q] = "waiting"
            BY <1>1, <3>2 DEF Arrive, SkipStale
        <3> QED
            BY <1>6, <3>1, <3>2
    <2>3. \A class \in Classes :
            /\ Unscanned(class) = 0
            /\ Unscanned(class)' \in {0, Len(deque[class])}
        BY <2>1 DEF Unscanned
    <2> QED
        BY <1>3, <1>5, <2>1, <2>2, <2>3
<1>7. CASE NextDeque
    <2>1. /\ pc = "scan" /\ scan.remaining = 0 /\ scan.class = "interactive"
          /\ pc' = pc /\ deque' = deque /\ fate' = fate
          /\ scan'.class = "agent" /\ scan'.remaining = Len(deque["agent"])
        BY <1>1, <1>7 DEF NextDeque, TypeOK
    <2>2. \A class \in Classes :
            /\ Unscanned(class) = 0
            /\ Unscanned(class)' \in {0, Len(deque[class])}
        BY <2>1 DEF Unscanned
    <2> QED
        BY <1>3, <1>5, <2>1, <2>2
<1>8. CASE EndScan
    <2>1. /\ pc = "scan" /\ scan.remaining = 0 /\ pc' # "scan"
          /\ deque' = deque /\ fate' = fate
        BY <1>1, <1>8 DEF EndScan, TypeOK
    <2>2. \A class \in Classes :
            Unscanned(class) = 0 /\ Unscanned(class)' = 0
        BY <2>1 DEF Unscanned
    <2> QED
        BY <1>3, <1>5, <2>1, <2>2
<1>9. CASE Unlock \/ ChooseNothing \/ \E j \in Jobs : Handoff(j)
    <2>1. /\ pc # "scan" /\ pc' # "scan" /\ deque' = deque
        BY <1>9 DEF Unlock, ChooseNothing, Handoff
    <2>2. \A q \in Jobs : fate[q] = "waiting" => fate'[q] = "waiting"
        <3>1. CASE Unlock \/ ChooseNothing
            BY <3>1 DEF Unlock, ChooseNothing
        <3>2. ASSUME NEW j \in Jobs, Handoff(j)
              PROVE  \A q \in Jobs : fate[q] = "waiting" => fate'[q] = "waiting"
            BY <1>1, <3>2 DEF Handoff
        <3> QED
            BY <1>9, <3>1, <3>2
    <2>3. \A class \in Classes :
            Unscanned(class) = 0 /\ Unscanned(class)' = 0
        BY <2>1 DEF Unscanned
    <2> QED
        BY <1>3, <1>5, <2>1, <2>2, <2>3
<1>10. CASE Tick \/ (\E j \in Jobs : Leave(j)) \/ UNCHANGED vars
    <2>1. UNCHANGED <<deque, fate, pc, scan>>
        BY <1>10 DEF Tick, Leave, vars, lockVars
    <2>2. \A class \in Classes : Unscanned(class)' = Unscanned(class)
        BY <2>1 DEF Unscanned
    <2> QED
        BY <1>3, <1>5, <2>1, <2>2
<1> QED
    BY <1>4, <1>6, <1>7, <1>8, <1>9, <1>10 DEF Next

\* Every step keeps the order.
LEMMA OrderStep == ShapeInv /\ OrderInv /\ [Next]_vars => OrderInv'
<1> SUFFICES ASSUME ShapeInv, OrderInv, [Next]_vars PROVE OrderInv'
    OBVIOUS
<1>1. WaitingQueued'
    BY WaitingQueuedStep DEF OrderInv
<1>2. QueuedWaits' /\ Numbered' /\ DequesOrdered' /\ SelectedFirst'
    BY RotateOrder, PushOrder, ChooseOrder, OtherOrder
<1> QED
    BY <1>1, <1>2 DEF OrderInv

\* The order is an invariant.
LEMMA OrderInvariant == Spec => [](ShapeInv /\ OrderInv)
<1>1. Init => ShapeInv /\ OrderInv
    BY ShapeInit, OrderInit
<1>2. ShapeInv /\ OrderInv /\ [Next]_vars => ShapeInv' /\ OrderInv'
    BY ShapeStep, OrderStep
<1> QED
    BY <1>1, <1>2, PTL DEF Spec

\* NoJobLost, for any number of jobs: whatever the scans rotate, drop and put
\* back, a job waits if and only if it is in the deque of its class, once.
THEOREM NothingLost == Spec => []NoJobLost
<1>1. ASSUME ShapeInv, OrderInv, NEW j \in Jobs
      PROVE  /\ Cardinality(Positions(j)) =
                    IF fate[j] = "waiting" THEN 1 ELSE 0
             /\ \A p \in Positions(j) : p[1] = ClassOf[j]
    <2>1. ASSUME NEW p \in Positions(j)
          PROVE  /\ p = <<p[1], p[2]>> /\ p[1] \in Classes
                 /\ p[2] \in 1 .. Len(deque[p[1]]) /\ deque[p[1]][p[2]] = j
                 /\ p[1] = ClassOf[j] /\ fate[j] = "waiting"
        <3>1. PICK class \in Classes : p \in {class} \X DOMAIN deque[class]
            BY <2>1 DEF Positions, Places
        <3>2. /\ p = <<p[1], p[2]>> /\ p[1] = class
              /\ p[2] \in DOMAIN deque[class]
            BY <3>1
        <3>3. DOMAIN deque[class] = 1 .. Len(deque[class])
            BY <1>1, OneDeque, LenProperties
        <3>4. deque[p[1]][p[2]] = j
            BY <2>1 DEF Positions
        <3> QED
            BY <1>1, <3>2, <3>3, <3>4, OneDeque
    <2>2. CASE fate[j] = "waiting"
        <3> DEFINE class == ClassOf[j]
        <3>1. class \in Classes
            BY QueuesAssumption
        <3>2. PICK i \in 1 .. Len(deque[class]) : deque[class][i] = j
            BY <1>1, <2>2 DEF OrderInv, WaitingQueued, Holds
        <3>3. <<class, i>> \in Positions(j)
            <4>1. DOMAIN deque[class] = 1 .. Len(deque[class])
                BY <1>1, <3>1, OneDeque, LenProperties
            <4>2. <<class, i>> \in {class} \X DOMAIN deque[class]
                BY <4>1
            <4> QED
                BY <3>1, <3>2, <4>2 DEF Positions, Places
        <3>4. ASSUME NEW p \in Positions(j) PROVE p = <<class, i>>
            <4>1. /\ p = <<p[1], p[2]>> /\ p[1] = class
                  /\ p[2] \in 1 .. Len(deque[class])
                  /\ deque[class][p[2]] = j
                BY <2>1
            <4>2. p[2] = i
                <5>1. /\ deque[class] \in Seq(Jobs)
                      /\ order \in [Jobs -> Nat] /\ Unscanned(class) \in Nat
                      /\ Rotated(deque[class], order, Unscanned(class))
                    BY <1>1, <3>1, OneDeque
                <5> QED
                    BY <3>2, <4>1, <5>1, RotatedApart
            <4> QED
                BY <4>1, <4>2
        <3>5. Positions(j) = {<<class, i>>}
            BY <3>3, <3>4
        <3> QED
            BY <2>1, <2>2, <3>5, FS_Singleton
    <2>3. CASE fate[j] # "waiting"
        <3>1. Positions(j) = {}
            BY <2>1, <2>3
        <3> QED
            BY <2>3, <3>1, FS_EmptySet
    <2> QED
        BY <2>2, <2>3
<1>2. ShapeInv /\ OrderInv => NoJobLost
    BY <1>1 DEF NoJobLost
<1> QED
    BY <1>2, OrderInvariant, PTL

\* ServedInOrder, for any number of jobs: no expiry, departure, rejection or
\* arrival in the middle of a scan lets a job start before an earlier one of
\* its class, or in fifo mode before any earlier one, that still waits.
THEOREM OrderServed == Spec => ServedInOrder
<1>1. ASSUME ShapeInv, OrderInv, [Next]_vars, NEW j \in Jobs,
             fate[j] # "started", fate'[j] = "started"
      PROVE  fate[j] = "selected"
    <2>1. fate \in [Jobs -> Fates]
        BY <1>1 DEF ShapeInv, TypeOK
    <2>2. CASE \E k \in Jobs : Handoff(k)
        <3>1. PICK k \in Jobs : Handoff(k)
            BY <2>2
        <3>2. fate[k] = "selected" /\ fate' = [fate EXCEPT ![k] = "started"]
            BY <3>1 DEF Handoff
        <3> QED
            BY <1>1, <2>1, <3>2
    <2>3. CASE Rotate
        <3>1. \/ fate' = [fate EXCEPT ![Head(deque[scan.class])] =
                            fate[Head(deque[scan.class])]]
              \/ fate' = [fate EXCEPT ![Head(deque[scan.class])] = "gone"]
            BY <2>3 DEF Rotate
        <3> QED
            BY <1>1, <2>1, <3>1
    <2>4. CASE Choose
        BY <1>1, <2>1, <2>4, Chosen
    <2>5. ASSUME NEW k \in Jobs,
                 Arrive(k) \/ PushBack(k) \/ SkipStale(k) \/ Leave(k)
          PROVE  FALSE
        <3>1. \/ fate' = fate
              \/ \E what \in {"arriving", "waiting", "gone"} :
                    fate' = [fate EXCEPT ![k] = what]
            BY <2>5 DEF Arrive, PushBack, SkipStale, Leave
        <3> QED
            BY <1>1, <2>1, <3>1
    <2>6. CASE \/ NextDeque \/ EndScan \/ LockScheduler \/ PopNext \/ Unlock
               \/ ChooseNothing \/ Tick \/ UNCHANGED vars
        BY <1>1, <2>6 DEF NextDeque, EndScan, LockScheduler, PopNext, Unlock,
            ChooseNothing, Tick, vars
    <2>7. CASE RejectPending
        BY <1>1, <2>1, <2>7 DEF RejectPending
    <2> QED
        BY <1>1, <2>2, <2>3, <2>4, <2>5, <2>6, <2>7 DEF Next
<1>2. ShapeInv /\ OrderInv /\ [Next]_vars
        => [\A j, q \in Jobs :
                /\ fate[j] # "started" /\ fate'[j] = "started"
                /\ fate[q] = "waiting"
                /\ mode = "fifo" \/ ClassOf[q] = ClassOf[j]
                => order[j] < order[q]]_vars
    BY <1>1 DEF OrderInv, SelectedFirst
<1> QED
    BY <1>2, OrderInvariant, PTL DEF Spec, ServedInOrder

-----------------------------------------------------------------------------
(* Refinement: the deques and their scans are one line.                    *)

\* Nobody leaves before being admitted, and who is late at a scan's instant is
\* late for good.
LineInv ==
    /\ \A j \in closed : fate[j] \notin {"new", "arriving"}
    /\ pc = "scan" => \A j \in scan.late : left[j] = 0

\* Nobody has left or is late at first.
LEMMA LineInit == Init => LineInv
BY DEF Init, LineInv

\* Only a push gives a new deadline, and not during a scan.
LEMMA LineInvStep == ShapeInv /\ LineInv /\ [Next]_vars => LineInv'
<1> SUFFICES ASSUME ShapeInv, LineInv, [Next]_vars PROVE LineInv'
    OBVIOUS
<1>1. /\ fate \in [Jobs -> Fates] /\ closed \subseteq Jobs
      /\ scan.late \subseteq Jobs /\ left \in [Jobs -> Nat]
    BY DEF ShapeInv, TypeOK
<1>2. CASE Rotate
    <2>1. /\ \/ fate' = [fate EXCEPT ![Head(deque[scan.class])] =
                            fate[Head(deque[scan.class])]]
             \/ fate' = [fate EXCEPT ![Head(deque[scan.class])] = "gone"]
          /\ scan'.late = scan.late
          /\ UNCHANGED <<closed, left, pc>>
        BY <1>2 DEF Rotate, ShapeInv, TypeOK
    <2> QED
        BY <1>1, <2>1 DEF LineInv
<1>3. CASE NextDeque \/ EndScan
    BY <1>3 DEF NextDeque, EndScan, LineInv, ShapeInv, TypeOK
<1>4. CASE LockScheduler \/ PopNext
    BY <1>4 DEF LockScheduler, PopNext, StartScan, LineInv
<1>5. CASE Unlock \/ ChooseNothing
    BY <1>5 DEF Unlock, ChooseNothing, LineInv
<1>6. CASE Choose
    <2>1. \A q \in Jobs : fate'[q] \in {fate[q], "selected"}
        BY <1>1, <1>6, Chosen
    <2> QED
        BY <1>1, <1>6, <2>1 DEF Choose, LineInv
<1>7. ASSUME NEW j \in Jobs, Arrive(j) \/ SkipStale(j) PROVE LineInv'
    <2>1. /\ \/ fate[j] = "new" /\ fate' = [fate EXCEPT ![j] = "arriving"]
             \/ fate' = [fate EXCEPT ![j] = "gone"]
          /\ UNCHANGED <<closed, left>>
          /\ \A q \in scan'.late : left[q] = 0
        BY <1>7 DEF Arrive, SkipStale, StartScan
    <2> QED
        BY <1>1, <2>1 DEF LineInv
<1>8. ASSUME NEW j \in Jobs, PushBack(j) \/ Handoff(j) PROVE LineInv'
    <2>1. /\ \E what \in {"gone", "waiting", "started"} :
                fate' = [fate EXCEPT ![j] = what]
          /\ closed' = closed /\ pc' # "scan"
        BY <1>8 DEF PushBack, Handoff
    <2> QED
        BY <1>1, <2>1 DEF LineInv
<1>9. CASE RejectPending
    <2>1. \A q \in Jobs : fate'[q] \in {fate[q], "gone"}
        BY <1>1, <1>9 DEF RejectPending
    <2> QED
        BY <1>1, <1>9, <2>1 DEF RejectPending, LineInv
<1>10. ASSUME NEW j \in Jobs, Leave(j) PROVE LineInv'
    BY <1>1, <1>10 DEF Leave, lockVars, LineInv
<1>11. CASE Tick
    <2>1. \A j \in Jobs : left[j] = 0 => left'[j] = 0
        BY <1>1, <1>11 DEF Tick, Ticking
    <2> QED
        BY <1>1, <1>11, <2>1 DEF Tick, lockVars, LineInv
<1>12. CASE UNCHANGED vars
    BY <1>12 DEF vars, LineInv
<1> QED
    BY <1>2, <1>3, <1>4, <1>5, <1>6, <1>7, <1>8, <1>9, <1>10, <1>11, <1>12
    DEF Next

\* The line's own names for the waiting and the selected jobs.
LEMMA LineSets ==
    /\ Line!Waiting = InFate("waiting")
    /\ Line!Selected = InFate("selected")
BY DEF Line!Waiting, Line!Selected, Line!At, LinePlace, InFate

\* What changes nothing the line sees is a stutter of it.
LEMMA LineUnmoved ==
    ASSUME UNCHANGED <<mode, fate, order, left, closed, streak, competing>>
    PROVE  UNCHANGED Line!vars
BY DEF Line!vars, LinePlace, Earlier, Spoilt, InFate

\* Waiting jobs that go, all else as it was.
LEMMA LineThinned ==
    ASSUME TypeOK, NEW gone \in SUBSET InFate("waiting"),
           fate' = [j \in Jobs |-> IF j \in gone THEN "gone" ELSE fate[j]],
           UNCHANGED <<order, left, closed>>
    PROVE  /\ LinePlace' = Line!Moved(gone, "gone")
           /\ Earlier' = Line!Among(InFate("waiting") \ gone)
           /\ Spoilt' = Spoilt \ gone
<1>1. fate \in [Jobs -> Fates]
    BY DEF TypeOK
<1>2. \A j \in Jobs : fate'[j] = IF j \in gone THEN "gone" ELSE fate[j]
    OBVIOUS
<1>3. LinePlace' = Line!Moved(gone, "gone")
    BY <1>2 DEF LinePlace, Line!Moved
<1>4. /\ InFate("waiting")' = InFate("waiting") \ gone
      /\ InFate("selected")' = InFate("selected")
    BY <1>2 DEF InFate
<1>5. Earlier' = Line!Among(InFate("waiting") \ gone)
    BY <1>4 DEF Earlier, Line!Among
<1>6. Spoilt' = Spoilt \ gone
    BY <1>4 DEF Spoilt, InFate
<1> QED
    BY <1>3, <1>5, <1>6

\* During a scan, a push and a choice nobody is selected.
LEMMA NobodySelected ==
    ASSUME ShapeInv, pc # "handoff"
    PROVE  Line!Selected = {}
BY LineSets DEF ShapeInv, OneSelected, InFate

\* A scanned job goes back, which the line does not see, or was stale and
\* drops out.
LEMMA RotateLine ==
    ASSUME ShapeInv, OrderInv, LineInv, Rotate
    PROVE  Line!Drop \/ UNCHANGED Line!vars
<1> DEFINE h == Head(deque[scan.class])
<1>1. /\ TypeOK /\ fate \in [Jobs -> Fates] /\ scan.class \in Classes
      /\ deque[scan.class] \in Seq(Jobs) /\ scan.remaining \in Nat
    BY DEF ShapeInv, TypeOK
<1>2. /\ pc = "scan" /\ scan.remaining > 0
      /\ scan.remaining <= Len(deque[scan.class])
      /\ fate' = [fate EXCEPT ![h] =
                    IF h \notin closed \union scan.late
                    THEN fate[h] ELSE "gone"]
      /\ UNCHANGED <<mode, streak, order, left, closed, competing>>
    BY DEF Rotate, ShapeInv, ScanFits
<1>3. h \in Jobs /\ fate[h] = "waiting"
    <2>1. /\ h = deque[scan.class][1] /\ 1 \in 1 .. Len(deque[scan.class])
        BY <1>1, <1>2, DequeOps
    <2> QED
        BY <1>1, <2>1, OneDeque
<1>4. CASE h \notin closed \union scan.late
    <2>1. fate' = fate
        BY <1>1, <1>2, <1>3, <1>4
    <2> QED
        BY <1>2, <2>1, LineUnmoved
<1>5. CASE h \in closed \union scan.late
    <2>1. {h} \in SUBSET InFate("waiting") /\ h \in Spoilt
        BY <1>2, <1>3, <1>5 DEF InFate, Spoilt, LineInv
    <2>2. fate' = [j \in Jobs |-> IF j \in {h} THEN "gone" ELSE fate[j]]
        BY <1>1, <1>2, <1>5
    <2>3. /\ LinePlace' = Line!Moved({h}, "gone")
          /\ Earlier' = Line!Among(InFate("waiting") \ {h})
          /\ Spoilt' = Spoilt \ {h}
        BY <1>1, <1>2, <2>1, <2>2, LineThinned
    <2>4. {h} \in Line!Droppable
        BY <2>1, LineSets DEF Line!Droppable
    <2>5. Line!Selected = {}
        BY <1>2, NobodySelected
    <2> QED
        BY <1>2, <2>3, <2>4, <2>5, LineSets DEF Line!Drop
<1> QED
    BY <1>4, <1>5

\* The line counts as the deques do.
LEMMA SameCardinality == \A S : Line!Cardinality(S) = Cardinality(S)
BY DEF Cardinality, Line!Cardinality

\* A deque is as long as its class has waiting jobs.
LEMMA DequeCounts ==
    ASSUME ShapeInv, OrderInv, NEW class \in Classes
    PROVE  Cardinality({q \in InFate("waiting") : ClassOf[q] = class})
                = Len(deque[class])
<1> DEFINE s == deque[class]
           mates == {q \in InFate("waiting") : ClassOf[q] = class}
           n == Len(s)
<1>1. /\ s \in Seq(Jobs) /\ n \in Nat
      /\ \A i \in 1 .. n :
            s[i] \in Jobs /\ ClassOf[s[i]] = class /\ fate[s[i]] = "waiting"
    BY OneDeque, DequeOps
<1>2. \A i, k \in 1 .. n : s[i] = s[k] => i = k
    BY OneDeque, RotatedApart
<1>3. \A q \in mates : \E i \in 1 .. n : s[i] = q
    BY DEF OrderInv, WaitingQueued, Holds, InFate
<1>4. s \in [1 .. n -> mates]
    <2>1. s \in [1 .. n -> Jobs]
        BY <1>1, LenProperties
    <2>2. \A i \in 1 .. n : s[i] \in mates
        BY <1>1 DEF InFate
    <2> QED
        BY <2>1, <2>2
<1>5. s \in Bijection(1 .. n, mates)
    BY <1>2, <1>3, <1>4, Fun_IsBij
<1> QED
    BY <1>1, <1>5, FS_CountingElements, Fun_ExistsBij

\* A push finds room or not, after the scan dropped what it dropped.
LEMMA PushLine ==
    ASSUME ShapeInv, OrderInv, LineInv, NEW j \in Jobs, PushBack(j)
    PROVE  Line!Arrive(j)
<1> DEFINE class == ClassOf[j]
           waiting == InFate("waiting")
           mates == {q \in waiting : ClassOf[q] = class}
<1>1. /\ TypeOK /\ fate \in [Jobs -> Fates] /\ class \in Classes
      /\ order \in [Jobs -> Nat] /\ left \in [Jobs -> Nat]
      /\ nextOrder \in Nat
      /\ MaxWait[class] > 0 /\ QueueCapacity \in Nat
    BY QueuesAssumption DEF QueuesAssumption, ShapeInv, TypeOK
<1>2. /\ pc = "push" /\ fate[j] = "arriving"
      /\ UNCHANGED <<mode, streak, closed, competing>>
    BY DEF PushBack
<1>3. /\ Line!Selected = {} /\ Line!Waiting = waiting
      /\ LinePlace[j] = "new" /\ j \notin waiting
    BY <1>2, NobodySelected, LineSets DEF LinePlace, InFate
<1>4. Cardinality(mates) = Len(deque[class]) /\ Len(deque[class]) \in Nat
    BY <1>1, DequeCounts, OneDeque, DequeOps
<1>5. {} \in Line!Droppable /\ waiting \ {} = waiting /\ Spoilt \ {} = Spoilt
    BY DEF Line!Droppable
<1>6. CASE Len(deque[class]) >= QueueCapacity
    <2>1. /\ fate' = [fate EXCEPT ![j] = "gone"]
          /\ UNCHANGED <<order, left>>
        BY <1>6 DEF PushBack
    <2>2. waiting' = waiting /\ InFate("selected")' = InFate("selected")
        BY <1>1, <1>2, <2>1 DEF InFate
    <2>3. LinePlace' = Line!Moved({} \union {j}, "gone")
        BY <1>1, <1>2, <2>1 DEF LinePlace, Line!Moved
    <2>4. Earlier' = Line!Among(waiting)
        BY <2>1, <2>2 DEF Earlier, Line!Among
    <2>5. Spoilt' = Spoilt
        BY <1>2, <2>1, <2>2 DEF Spoilt
    <2>6. ~(Line!Cardinality(mates) < QueueCapacity)
        BY <1>1, <1>4, <1>6, SameCardinality
    <2> QED
        BY <1>2, <1>3, <1>5, <2>3, <2>4, <2>5, <2>6 DEF Line!Arrive
<1>7. CASE ~(Len(deque[class]) >= QueueCapacity)
    <2>1. /\ fate' = [fate EXCEPT ![j] = "waiting"]
          /\ order' = [order EXCEPT ![j] = nextOrder]
          /\ left' = [left EXCEPT ![j] = MaxWait[class]]
        BY <1>7 DEF PushBack
    <2>2. /\ waiting' = waiting \union {j}
          /\ InFate("selected")' = InFate("selected")
        BY <1>1, <1>2, <2>1 DEF InFate
    <2>3. LinePlace' = [Line!Moved({}, "gone") EXCEPT ![j] = "waiting"]
        BY <1>1, <1>2, <2>1 DEF LinePlace, Line!Moved
    <2>4. Earlier' = Line!Among(waiting) \union (waiting \X {j})
        <3>1. \A q \in waiting : order'[q] = order[q] /\ order[q] < nextOrder
            BY <1>1, <1>2, <2>1 DEF OrderInv, Numbered, InFate
        <3>2. order'[j] = nextOrder
            BY <1>1, <2>1
        <3>3. \A q \in waiting : order[q] \in Nat
            BY <1>1 DEF InFate
        <3> QED
            BY <1>1, <1>3, <2>2, <3>1, <3>2, <3>3 DEF Earlier, Line!Among
    <2>5. Spoilt' = Spoilt
        <3>1. j \notin closed /\ left'[j] # 0
            BY <1>1, <1>2, <2>1 DEF LineInv
        <3>2. \A q \in waiting \union InFate("selected") : left'[q] = left[q]
            BY <1>1, <1>2, <2>1 DEF InFate
        <3> QED
            BY <1>2, <1>3, <2>2, <3>1, <3>2 DEF Spoilt
    <2>6. Line!Cardinality(mates) < QueueCapacity
        BY <1>1, <1>4, <1>7, SameCardinality
    <2> QED
        BY <1>2, <1>3, <1>5, <2>3, <2>4, <2>5, <2>6 DEF Line!Arrive
<1> QED
    BY <1>6, <1>7

\* The choice takes the job whose turn it is, and judges competition by who
\* waits.
LEMMA ChooseLine ==
    ASSUME ShapeInv, OrderInv, Choose
    PROVE  \E j \in Jobs : Line!Select(j)
<1> DEFINE waiting == InFate("waiting")
<1>1. PICK class \in Classes :
        /\ pc = "choose" /\ deque[class] # <<>> /\ Head(deque[class]) \in Jobs
        /\ ClassOf[Head(deque[class])] = class
        /\ fate' = [fate EXCEPT ![Head(deque[class])] = "selected"]
        /\ competing' = \A c \in Classes : deque[c] # <<>>
        /\ (\A c \in Classes : deque[c] # <<>>) /\ mode = "weighted" =>
                (class = "interactive" <=> streak < StreakLimit)
    BY Chosen
<1> DEFINE h == Head(deque[class])
<1>2. /\ fate \in [Jobs -> Fates] /\ order \in [Jobs -> Nat]
      /\ mode \in Modes /\ \A q \in Jobs : ClassOf[q] \in Classes
      /\ UNCHANGED <<mode, streak, order, left, closed>>
    BY QueuesAssumption DEF QueuesAssumption, ShapeInv, TypeOK, Choose
<1>3. \A c \in Classes : deque[c] # <<>> =>
        Head(deque[c]) \in waiting /\ ClassOf[Head(deque[c])] = c
    <2> SUFFICES ASSUME NEW c \in Classes, deque[c] # <<>>
                 PROVE  Head(deque[c]) \in waiting /\ ClassOf[Head(deque[c])] = c
        OBVIOUS
    <2>1. Head(deque[c]) = deque[c][1] /\ 1 \in 1 .. Len(deque[c])
        BY OneDeque, DequeOps
    <2> QED
        BY <2>1, OneDeque DEF InFate
<1>4. \A q \in waiting :
        q # h /\ (mode = "fifo" \/ ClassOf[q] = class) => order[h] < order[q]
    <2>1. PICK k \in Jobs :
            /\ fate' = [fate EXCEPT ![k] = "selected"]
            /\ \A q \in Jobs :
                /\ fate[q] = "waiting" /\ q # k
                /\ mode = "fifo" \/ ClassOf[q] = ClassOf[k]
                => order[k] < order[q]
        <3>1. PICK c \in Classes :
                LET g == Head(deque[c]) IN
                /\ deque[c] # <<>> /\ g \in Jobs
                /\ fate' = [fate EXCEPT ![g] = "selected"]
                /\ deque' = [deque EXCEPT ![c] = Tail(deque[c])]
                /\ \A q \in Jobs :
                    /\ fate[q] = "waiting" /\ q # g
                    /\ mode = "fifo" \/ ClassOf[q] = ClassOf[g]
                    => order[g] < order[q]
            BY ChosenEarliest
        <3> QED
            BY <3>1
    <2>2. k = h
        <3>1. \A q \in Jobs : fate[q] # "selected"
            BY <1>1 DEF ShapeInv, OneSelected
        <3>2. fate'[k] = "selected"
            BY <1>2, <2>1
        <3>3. fate[k] # "selected"
            BY <3>1
        <3> QED
            BY <1>1, <1>2, <3>2, <3>3
    <2> QED
        BY <1>1, <2>1, <2>2 DEF InFate
<1>5. ASSUME NEW q \in waiting
      PROVE  ClassOf[q] \in Classes /\ deque[ClassOf[q]] # <<>>
    <2>1. ClassOf[q] \in Classes /\ Holds(deque[ClassOf[q]], q) /\ q \in Jobs
        BY <1>2 DEF OrderInv, WaitingQueued, InFate
    <2> QED
        BY <2>1, OneDeque, StillHeld
<1>6. competing' = (Line!Rivals(h, waiting) # {})
    <2>1. ASSUME NEW q \in Line!Rivals(h, waiting)
          PROVE  \A c \in Classes : deque[c] # <<>>
        <3>1. q \in waiting /\ ClassOf[q] # class
            BY <1>1, <2>1 DEF Line!Rivals
        <3> QED
            BY <1>1, <1>5, <3>1 DEF Classes
    <2>2. ASSUME \A c \in Classes : deque[c] # <<>>
          PROVE  Line!Rivals(h, waiting) # {}
        <3>1. PICK c \in Classes : c # class
            BY DEF Classes
        <3>2. Head(deque[c]) \in Line!Rivals(h, waiting)
            BY <1>1, <1>3, <2>2, <3>1 DEF Line!Rivals
        <3> QED
            BY <3>2
    <2> QED
        BY <1>1, <2>1, <2>2
<1>7. Line!IsNext(h, waiting)
    <2> DEFINE ahead == {q \in waiting : <<q, h>> \in Earlier}
    <2>1. \A q \in ahead : q \in waiting /\ order[q] < order[h]
        BY DEF Earlier
    <2>2. \A q \in waiting : order[q] \in Nat
        BY <1>2 DEF InFate
    <2>3. h \in waiting
        BY <1>1, <1>3
    <2>4. \A q \in ahead : q # h /\ ~(order[h] < order[q])
        BY <2>1, <2>2, <2>3
    <2>5. ahead \subseteq Line!Rivals(h, waiting)
        BY <1>1, <1>4, <2>4 DEF Line!Rivals
    <2>6. mode = "fifo" => ahead = {}
        BY <1>4, <2>4
    <2>7. Line!Rivals(h, waiting) # {} /\ mode = "weighted" =>
            (ClassOf[h] = "interactive" <=> streak < StreakLimit)
        BY <1>1, <1>6
    <2> QED
        BY <1>2, <2>5, <2>6, <2>7 DEF Line!IsNext, Modes
<1>8. waiting' = waiting \ {h} /\ InFate("selected")' = {h}
    <2>1. \A q \in Jobs : fate[q] # "selected"
        BY <1>1 DEF ShapeInv, OneSelected
    <2> QED
        BY <1>1, <1>2, <2>1 DEF InFate
<1>9. LinePlace' = [Line!Moved({}, "gone") EXCEPT ![h] = "selected"]
    BY <1>1, <1>2 DEF LinePlace, Line!Moved
<1>10. Earlier' = Line!Among(waiting \ {h})
    BY <1>2, <1>8 DEF Earlier, Line!Among
<1>11. Spoilt' = Spoilt
    <2>1. InFate("selected") = {} /\ h \in waiting
        BY <1>1, <1>3 DEF ShapeInv, OneSelected, InFate
    <2> QED
        BY <1>2, <1>8, <2>1 DEF Spoilt
<1>12. /\ Line!Selected = {} /\ Line!Waiting = waiting /\ h \in waiting
       /\ {} \in Line!Droppable
       /\ waiting \ {} = waiting /\ Spoilt \ {} = Spoilt
    BY <1>1, <1>3, NobodySelected, LineSets DEF Line!Droppable
<1>13. Line!Select(h)
    BY <1>2, <1>6, <1>7, <1>9, <1>10, <1>11, <1>12 DEF Line!Select
<1> QED
    BY <1>1, <1>13

\* A selected job is skipped because it is stale, or started because it is
\* not.
LEMMA SettleLine ==
    ASSUME ShapeInv, NEW j \in Jobs, SkipStale(j) \/ Handoff(j)
    PROVE  Line!Skip(j) \/ Line!Start(j)
<1>1. /\ fate \in [Jobs -> Fates] /\ left[j] \in Nat /\ fate[j] = "selected"
      /\ UNCHANGED <<mode, order, left, closed, competing>>
    BY DEF ShapeInv, TypeOK, SkipStale, Handoff
<1>2. InFate("selected") = {j}
    BY <1>1 DEF ShapeInv, OneSelected, InFate
<1>3. ASSUME NEW what \in {"gone", "started"}, fate' = [fate EXCEPT ![j] = what]
      PROVE  /\ LinePlace' = Line!Moved({j}, what)
             /\ Earlier' = Earlier
             /\ Spoilt' = Spoilt \ {j}
    <2>1. InFate("waiting")' = InFate("waiting") /\ InFate("selected")' = {}
        BY <1>1, <1>2, <1>3 DEF InFate
    <2>2. LinePlace' = Line!Moved({j}, what)
        BY <1>1, <1>3 DEF LinePlace, Line!Moved
    <2>3. j \notin InFate("waiting")
        BY <1>1 DEF InFate
    <2> QED
        BY <1>1, <1>2, <2>1, <2>2, <2>3 DEF Earlier, Spoilt
<1>4. CASE SkipStale(j)
    <2>1. fate' = [fate EXCEPT ![j] = "gone"] /\ streak' = streak
          /\ (j \in closed \/ left[j] = 0)
        BY <1>4 DEF SkipStale
    <2>2. j \in Line!Selected \intersect Spoilt
        BY <1>2, <2>1, LineSets DEF Spoilt
    <2> QED
        BY <1>1, <1>3, <2>1, <2>2 DEF Line!Skip
<1>5. CASE Handoff(j)
    <2>1. /\ fate' = [fate EXCEPT ![j] = "started"]
          /\ j \notin closed /\ left[j] # 0
          /\ streak' = NextStreak(mode, streak, competing, ClassOf[j])
        BY <1>1, <1>5 DEF Handoff
    <2>2. j \in Line!Selected \ Spoilt /\ Spoilt \ {j} = Spoilt
        BY <1>2, <2>1, LineSets DEF Spoilt
    <2> QED
        BY <1>1, <1>3, <2>1, <2>2 DEF Line!Start, NextStreak
<1> QED
    BY <1>4, <1>5

\* The scheduler rests only when both deques are empty.
LEMMA NothingLine ==
    ASSUME ShapeInv, OrderInv, ChooseNothing
    PROVE  Line!Rest
<1>1. /\ pc = "choose" /\ streak' = 0
      /\ \A class \in Classes : deque[class] = <<>>
      /\ UNCHANGED <<mode, fate, order, left, closed, competing>>
    BY DEF ChooseNothing
<1>2. InFate("waiting") = {}
    <2> SUFFICES ASSUME NEW q \in InFate("waiting") PROVE FALSE
        OBVIOUS
    <2>1. ClassOf[q] \in Classes /\ Holds(deque[ClassOf[q]], q) /\ q \in Jobs
        BY QueuesAssumption
        DEF QueuesAssumption, OrderInv, WaitingQueued, InFate
    <2> QED
        BY <1>1, <2>1, OneDeque, StillHeld
<1>3. Line!Waiting = {} /\ Line!Selected = {} /\ InFate("selected") = {}
    BY <1>1, <1>2, NobodySelected, LineSets
<1>4. LinePlace' = Line!Moved({}, "gone") /\ Earlier' = {} /\ Spoilt' = {}
    BY <1>1, <1>2, <1>3 DEF LinePlace, Line!Moved, Earlier, Spoilt, InFate
<1> QED
    BY <1>1, <1>3, <1>4 DEF Line!Rest

\* Draining the deques clears the line.
LEMMA RejectLine ==
    ASSUME ShapeInv, RejectPending
    PROVE  Line!Clear
<1> DEFINE waiting == InFate("waiting")
<1>1. /\ pc = "free" /\ TypeOK
      /\ fate' = [j \in Jobs |-> IF fate[j] = "waiting" THEN "gone" ELSE fate[j]]
      /\ UNCHANGED <<mode, streak, order, left, closed, competing>>
    BY DEF RejectPending, ShapeInv
<1>2. fate' = [j \in Jobs |-> IF j \in waiting THEN "gone" ELSE fate[j]]
    BY <1>1 DEF InFate
<1>3. /\ LinePlace' = Line!Moved(waiting, "gone")
      /\ Earlier' = Line!Among(waiting \ waiting)
      /\ Spoilt' = Spoilt \ waiting
    BY <1>1, <1>2, LineThinned
<1>4. Line!Among(waiting \ waiting) = {}
    BY DEF Line!Among
<1>5. Line!Selected = {} /\ Line!Waiting = waiting
    BY <1>1, NobodySelected, LineSets
<1> QED
    BY <1>1, <1>3, <1>4, <1>5 DEF Line!Clear

\* Callers that leave and deadlines that pass spoil jobs and do nothing else.
LEMMA SpoilLine ==
    ASSUME ShapeInv, Tick \/ \E j \in Jobs : Leave(j)
    PROVE  Line!Spoil
<1>1. /\ left \in [Jobs -> Nat]
      /\ UNCHANGED <<mode, fate, order, streak, competing>>
    BY DEF ShapeInv, TypeOK, Tick, Leave
<1>2. closed \subseteq closed' /\ \A j \in Jobs : left[j] = 0 => left'[j] = 0
    BY <1>1 DEF Tick, Leave, Ticking
<1>3. /\ InFate("waiting")' = InFate("waiting")
      /\ InFate("selected")' = InFate("selected")
    BY <1>1 DEF InFate
<1>4. Spoilt \subseteq Spoilt'
    BY <1>2, <1>3 DEF Spoilt, InFate
<1>5. /\ Spoilt' \in SUBSET (Line!Waiting \union Line!Selected)
      /\ Spoilt' = Spoilt \union Spoilt'
    BY <1>3, <1>4, LineSets DEF Spoilt
<1>6. LinePlace' = LinePlace /\ Earlier' = Earlier
    BY <1>1, <1>3 DEF LinePlace, Earlier
<1> QED
    BY <1>1, <1>5, <1>6 DEF Line!Spoil

\* ImplementsLine, for any number of jobs, any capacity and waiting times: the
\* deques, scanned job by job under a lock while callers leave and time passes,
\* are one line of jobs in the order of their arrival.
THEOREM DequesAreALine == Spec => ImplementsLine
<1>1. Init => Line!Init
    <2> SUFFICES ASSUME Init PROVE Line!Init
        OBVIOUS
    <2>1. LinePlace = [j \in Jobs |-> "new"] /\ Earlier = {} /\ Spoilt = {}
        BY DEF Init, LinePlace, Earlier, Spoilt, InFate
    <2> QED
        BY <2>1 DEF Init, Line!Init, Modes
<1>2. ShapeInv /\ OrderInv /\ LineInv /\ [Next]_vars => [Line!Next]_Line!vars
    <2> SUFFICES ASSUME ShapeInv, OrderInv, LineInv, [Next]_vars
                 PROVE  Line!Next \/ UNCHANGED Line!vars
        OBVIOUS
    <2>1. CASE Rotate
        BY <2>1, RotateLine DEF Line!Next
    <2>2. CASE \E j \in Jobs : PushBack(j)
        BY <2>2, PushLine DEF Line!Next
    <2>3. CASE Choose
        BY <2>3, ChooseLine DEF Line!Next
    <2>4. CASE \E j \in Jobs : SkipStale(j) \/ Handoff(j)
        BY <2>4, SettleLine DEF Line!Next
    <2>5. CASE ChooseNothing \/ RejectPending
        BY <2>5, NothingLine, RejectLine DEF Line!Next
    <2>6. CASE Tick \/ \E j \in Jobs : Leave(j)
        BY <2>6, SpoilLine DEF Line!Next
    <2>7. CASE NextDeque \/ EndScan \/ LockScheduler \/ PopNext \/ Unlock
        BY <2>7, LineUnmoved
        DEF NextDeque, EndScan, LockScheduler, PopNext, Unlock
    <2>8. ASSUME NEW j \in Jobs, Arrive(j) PROVE UNCHANGED Line!vars
        <3>1. /\ fate \in [Jobs -> Fates] /\ fate[j] = "new"
              /\ fate' = [fate EXCEPT ![j] = "arriving"]
              /\ UNCHANGED <<mode, order, left, closed, streak, competing>>
            BY <2>8 DEF ShapeInv, TypeOK, Arrive
        <3>2. /\ InFate("waiting")' = InFate("waiting")
              /\ InFate("selected")' = InFate("selected")
            BY <3>1 DEF InFate
        <3>3. LinePlace' = LinePlace
            BY <3>1 DEF LinePlace
        <3> QED
            BY <3>1, <3>2, <3>3 DEF Line!vars, Earlier, Spoilt
    <2>9. CASE UNCHANGED vars
        BY <2>9, LineUnmoved DEF vars
    <2> QED
        BY <2>1, <2>2, <2>3, <2>4, <2>5, <2>6, <2>7, <2>8, <2>9 DEF Next
<1>3. Spec => []LineInv
    BY LineInit, LineInvStep, ShapeInvariant, PTL DEF Spec
<1> QED
    BY <1>1, <1>2, <1>3, OrderInvariant, PTL DEF Spec, ImplementsLine, Line!Spec

=============================================================================

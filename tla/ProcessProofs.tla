--------------------------- MODULE ProcessProofs ---------------------------
(***************************************************************************)
(* Proofs about Process, for any finite set of requests: what a process    *)
(* leaves behind, what its check reports, and that the gateway it assumes  *)
(* is one AdmissionContract allows.  Then about DynamicDemo, whose script  *)
(* drives such a process: what the script asserts holds.                   *)
(***************************************************************************)
EXTENDS Process, SequenceTheorems, FiniteSetTheorems, TLAPS

-----------------------------------------------------------------------------
(* The inductive invariant.                                                *)

\* The server accepts from its first poll until it is told to stop, and
\* admission is closed before.
AcceptsWhileServing ==
    /\ accepting => main \in {"announced", "closed"}
    /\ main = "closed" => closing

\* The scheduler is waited for after the last connection is done.
ServedBeforeStopping == main = "stopping" => InFlight = {}

\* A process without success broke its promise after a deadline or a signal
\* that nothing handled; connections break with the process only.
BrokenAtEnd ==
    /\ main = "exited" => code \in {0, 1}
    /\ main = "aborted" \/ code = 1 => expired
    /\ \A r \in Requests :
        connection[r] = "broken"
            => ~Alive /\ code # 0 /\ (expired \/ main = "killed")

\* What a process that exits with success left behind.
LeavesNothing == code = 0 => held = {}

\* Where a request is with the gateway follows where its connection is.
RequestOrdered(r) ==
    /\ connection[r] \in {"none", "sending"}
            => r \notin held \union started /\ verdict[r] = "none"
    /\ connection[r] = "answered" => verdict[r] # "none"
    /\ r \in held => verdict[r] = "none"

RequestOrder == \A r \in Requests : RequestOrdered(r)

\* What the script knows of its request while no deadline has passed.
ScriptKnows ==
    /\ script \in {"absent", "reads", "submits"} => connection[Watched] = "none"
    /\ script = "releases" \/ released => graceful
    /\ script \in {"signals", "releases", "waits"} => Watched \in started
    /\ connection[Watched] # "left"
    /\ ~expired => verdict[Watched] \in {"none", "completed"}
    /\ ~expired /\ ~graceful /\ Watched \in started => Watched \in held

\* The inductive invariant.
ProcessInv ==
    /\ TypeOK
    /\ AcceptsWhileServing
    /\ ServedBeforeStopping
    /\ BrokenAtEnd
    /\ LeavesNothing
    /\ RequestOrder
    /\ ScriptKnows
    /\ CheckIsSound

-----------------------------------------------------------------------------
(* Steps.                                                                  *)

\* What a gateway step does to its request q, case by case: it is admitted or
\* refused, started, freed or answered, or it overruns a deadline.
GatewayMove(q) ==
    \/ /\ connection[q] = "received" /\ ~closing
       /\ q \notin held \union started /\ verdict[q] = "none"
       /\ held' = held \union {q}
       /\ UNCHANGED <<started, verdict, expired>>
    \/ /\ connection[q] = "received" /\ q # Watched
       /\ q \notin held \union started /\ verdict[q] = "none"
       /\ verdict' = [verdict EXCEPT ![q] = "not_started"]
       /\ UNCHANGED <<held, started, expired>>
    \/ /\ q \in held \ started
       /\ started' = started \union {q}
       /\ UNCHANGED <<held, verdict, expired>>
    \/ /\ q \in held \intersect started
       /\ held' = held \ {q}
       /\ expired' = (expired \/ (q = Watched /\ ~released))
       /\ UNCHANGED <<started, verdict>>
    \/ /\ q \in started \ held /\ verdict[q] = "none"
       /\ \E what \in {"completed", "unknown"} :
            /\ verdict' = [verdict EXCEPT ![q] = what]
            /\ q = Watched => what = "completed"
       /\ UNCHANGED <<held, started, expired>>
    \/ /\ q \in held
       /\ held' = held \ {q}
       /\ \E what \in {"not_started", "unknown"} :
            verdict' = [verdict EXCEPT ![q] = what]
       /\ expired' = TRUE
       /\ UNCHANGED started

\* Telling one caller.
LEMMA ToldOne ==
    ASSUME TypeOK, NEW q \in Requests, NEW what
    PROVE  Gateway!Told({q}, what) = [verdict EXCEPT ![q] = what]
BY DEF TypeOK, Gateway!TypeOK, Gateway!Told

\* The steps of the gateway are such moves.
LEMMA GatewayMoves ==
    ASSUME TypeOK, NEW q \in Requests, GatewayStep(q)
    PROVE  /\ Alive
           /\ UNCHANGED <<processVars, scriptVars, limit>>
           /\ GatewayMove(q)
<1>1. Alive /\ UNCHANGED <<processVars, scriptVars>>
    BY DEF GatewayStep
<1>2. ASSUME Admit(q) PROVE limit' = limit /\ GatewayMove(q)
    BY <1>2 DEF Admit, Gateway!Admit, GatewayMove
<1>3. ASSUME Overrun(q) PROVE limit' = limit /\ GatewayMove(q)
    <2>1. CASE Gateway!Lose(q) /\ verdict'[q] = "unknown"
        <3>1. verdict' \in {verdict, [verdict EXCEPT ![q] = "unknown"]}
            BY <2>1, ToldOne DEF Gateway!Lose
        <3>2. verdict' = [verdict EXCEPT ![q] = "unknown"]
            BY <2>1, <3>1 DEF TypeOK, Gateway!TypeOK
        <3> QED
            BY <1>3, <2>1, <3>2 DEF Overrun, Gateway!Lose, GatewayMove
    <2> QED
        BY <1>3, <2>1 DEF Overrun, GatewayMove
<1>4. ASSUME Work(q) PROVE limit' = limit /\ GatewayMove(q)
    <2>1. CASE Gateway!Start(q) /\ UNCHANGED expired
        BY <2>1 DEF Gateway!Start, GatewayMove
    <2>2. CASE /\ Gateway!Free(q)
               /\ expired' = (expired \/ (q = Watched /\ ~released))
        BY <2>2 DEF Gateway!Free, GatewayMove
    <2>3. CASE /\ Gateway!Answer(q)
               /\ q = Watched => verdict'[q] = "completed"
               /\ UNCHANGED expired
        <3>1. PICK what \in {"completed", "unknown"} :
                verdict' = [verdict EXCEPT ![q] = what]
            BY <2>3, ToldOne DEF Gateway!Answer
        <3>2. q = Watched => what = "completed"
            BY <2>3, <3>1 DEF TypeOK, Gateway!TypeOK
        <3> QED
            BY <2>3, <3>1, <3>2 DEF Gateway!Answer, GatewayMove
    <2> QED
        BY <1>4, <2>1, <2>2, <2>3 DEF Work
<1> QED
    BY <1>1, <1>2, <1>3, <1>4 DEF GatewayStep

\* Steps of main that do not end the process.
MainStep ==
    \/ Announce \/ PollServer \/ PollSignals
    \/ CloseGateway \/ StopServer \/ ServerEnds

\* The steps that end the process.
Ending ==
    \/ Exit \/ Expire \/ GiveUp
    \/ ~handling /\ (Signal \/ Send)

\* Steps by kind.
LEMMA Steps ==
    ASSUME [Next]_vars
    PROVE  \/ MainStep
           \/ Ending
           \/ handling /\ (Signal \/ Send)
           \/ \E r \in Requests :
                \/ Connect(r) \/ Receive(r) \/ Respond(r) \/ Leave(r)
                \/ GatewayStep(r)
           \/ Submit \/ UpstreamStarts \/ Release \/ Judge
           \/ UNCHANGED vars
BY DEF Next, Main, CheckOperations, MainStep, Ending

\* However the process ends, the gateway is left as it is and connections that
\* were in flight break; only Exit reports success.
LEMMA Endings ==
    ASSUME ProcessInv, Ending
    PROVE  /\ Alive /\ ~Alive'
           /\ accepting' = FALSE
           /\ connection' = [r \in Requests |->
                IF r \in InFlight THEN "broken" ELSE connection[r]]
           /\ UNCHANGED <<closing, graceful, released, gatewayVars>>
           /\ \/ /\ main' = "exited" /\ code' = 0 /\ main = "stopping"
                 /\ held = {} /\ InFlight = {}
                 /\ UNCHANGED <<script, expired>>
              \/ /\ main' = "exited" /\ code' = 1 /\ closing /\ expired'
                 /\ script' = script
              \/ /\ main' = "aborted" /\ code' = NoCode /\ expired'
                 /\ script' = "failed"
              \/ /\ main' = "killed" /\ code' = NoCode /\ expired' = expired
                 /\ \/ script' = script
                    \/ script = "signals" /\ graceful /\ script' = "releases"
                    \/ script = "signals" /\ script' = "waits"
BY DEF Ending, ProcessInv, TypeOK, ServedBeforeStopping, Exit, Expire, GiveUp,
    Signal, Send, Script, Terminated, Ends, Alive, scriptVars, gatewayVars

LEMMA StillTyped ==
    Gateway!TypeOK /\ UNCHANGED gatewayVars => Gateway!TypeOK'
BY DEF gatewayVars, Gateway!TypeOK

\* Types.
LEMMA TypeStep == ProcessInv /\ [Next]_vars => TypeOK'
<1> SUFFICES ASSUME ProcessInv, [Next]_vars PROVE TypeOK'
    OBVIOUS
<1>1. TypeOK
    BY DEF ProcessInv
<1>2. ASSUME Ending PROVE TypeOK'
    <2>1. connection' \in [Requests ->
            {"none", "sending", "received", "answered", "left", "broken"}]
        BY <1>1, <1>2, Endings DEF TypeOK
    <2>2. InFlight' = {}
        BY <1>2, Endings DEF InFlight
    <2>3. signalled' \in BOOLEAN /\ handling' = handling /\ expired' \in BOOLEAN
        BY <1>1, <1>2 DEF Ending, TypeOK, Exit, Expire, GiveUp, Signal, Send,
            Terminated, Ends
    <2>4. Gateway!TypeOK'
        BY <1>1, <1>2, Endings DEF TypeOK, gatewayVars, Gateway!TypeOK
    <2>5. script' \in {"absent", "reads", "submits", "awaits", "signals",
                       "releases", "waits", "passed", "failed"}
        BY <1>1, <1>2, Endings DEF TypeOK
    <2>6. /\ main' \in {"exited", "killed", "aborted"}
          /\ main' # "exited" => code' = NoCode
          /\ main' = "exited" => closing
          /\ code' \in {0, 1, NoCode}
        BY <1>1, <1>2, Endings DEF TypeOK
    <2>7. /\ accepting' = FALSE
          /\ UNCHANGED <<closing, graceful, released>>
        BY <1>2, Endings
    <2> QED
        BY <1>1, <2>1, <2>2, <2>3, <2>4, <2>5, <2>6, <2>7 DEF TypeOK
<1>3. ASSUME NEW q \in Requests, GatewayStep(q) PROVE TypeOK'
    <2>1. UNCHANGED <<processVars, scriptVars, limit>> /\ GatewayMove(q)
        BY <1>1, <1>3, GatewayMoves
    <2>2. Gateway!TypeOK' /\ expired' \in BOOLEAN
        BY <1>1, <2>1 DEF GatewayMove, TypeOK, Gateway!TypeOK, Gateway!Verdicts,
            scriptVars
    <2> QED
        BY <1>1, <2>1, <2>2
        DEF TypeOK, processVars, scriptVars, InFlight, Alive
<1>4. ASSUME NEW r \in Requests,
             Connect(r) \/ Receive(r) \/ Respond(r) \/ Leave(r)
      PROVE  TypeOK'
    <2>1. /\ connection' \in [Requests ->
                {"none", "sending", "received", "answered", "left", "broken"}]
          /\ UNCHANGED <<main, code, accepting, handling, signalled, closing,
                         scriptVars, expired, gatewayVars>>
          /\ accepting \/ InFlight # {}
        BY <1>1, <1>4
        DEF Connect, Receive, Respond, Leave, Becomes, TypeOK, InFlight
    <2>2. Alive
        BY <1>1, <2>1 DEF ProcessInv, AcceptsWhileServing, TypeOK, Alive
    <2> QED
        BY <1>1, <2>1, <2>2
        DEF TypeOK, scriptVars, gatewayVars, Gateway!TypeOK, Alive
<1>5. ASSUME MainStep PROVE TypeOK'
    <2>1. UNCHANGED <<connection, scriptVars, expired, gatewayVars>>
        BY <1>5 DEF MainStep, Announce, PollServer, PollSignals, CloseGateway,
            StopServer, ServerEnds
    <2>2. Gateway!TypeOK' /\ InFlight' = InFlight
        BY <1>1, <2>1, StillTyped DEF TypeOK, InFlight
    <2>3. /\ main' \in {"announced", "closed", "draining", "stopping"}
          /\ code' = code /\ code = NoCode
          /\ accepting' \in BOOLEAN /\ handling' \in BOOLEAN
          /\ signalled' = signalled /\ closing' \in BOOLEAN
          /\ main' \in {"draining", "stopping"} => closing' /\ ~accepting'
        <3>1. /\ main \in {"bound", "announced", "closed", "draining"}
              /\ code = NoCode /\ accepting \in BOOLEAN /\ handling \in BOOLEAN
              /\ closing \in BOOLEAN
              /\ main \in {"draining", "stopping"} => closing /\ ~accepting
              /\ main = "closed" => closing
            BY <1>1, <1>5 DEF MainStep, Announce, PollServer, PollSignals,
                CloseGateway, StopServer, ServerEnds, TypeOK,
                AcceptsWhileServing, ProcessInv
        <3>2. CASE Announce \/ PollServer \/ PollSignals
            BY <3>1, <3>2 DEF MainStep, Announce, PollServer, PollSignals
        <3>3. CASE CloseGateway
            BY <3>1, <3>3 DEF CloseGateway
        <3>4. CASE StopServer
            BY <3>1, <3>4 DEF StopServer
        <3>5. CASE ServerEnds
            BY <3>1, <3>5 DEF ServerEnds
        <3> QED
            BY <1>5, <3>2, <3>3, <3>4, <3>5 DEF MainStep
    <2> QED
        BY <1>1, <2>1, <2>2, <2>3 DEF TypeOK, scriptVars, Alive
<1>6. ASSUME handling /\ (Signal \/ Send) PROVE TypeOK'
    BY <1>1, <1>6 DEF Signal, Send, Script, Terminated, TypeOK, gatewayVars,
        Gateway!TypeOK, Alive, InFlight
<1>7. ASSUME Submit PROVE TypeOK'
    <2>1. connection' \in [Requests ->
            {"none", "sending", "received", "answered", "left", "broken"}]
        BY <1>1, <1>7 DEF Submit, TypeOK
    <2>2. script' \in {"submits", "awaits"}
        BY <1>7 DEF Submit, Script
    <2>3. UNCHANGED connection \/ accepting
        BY <1>7 DEF Submit
    <2>4. Alive \/ InFlight' = {}
        BY <1>1, <2>3
        DEF ProcessInv, AcceptsWhileServing, TypeOK, Alive, InFlight
    <2> QED
        BY <1>1, <1>7, <2>1, <2>2, <2>4
        DEF Submit, TypeOK, gatewayVars, Gateway!TypeOK, Alive
<1>8. ASSUME UpstreamStarts \/ Release \/ Judge \/ UNCHANGED vars PROVE TypeOK'
    <2>1. UNCHANGED <<processVars, expired, gatewayVars>>
        BY <1>8 DEF UpstreamStarts, Release, Judge, vars
    <2>2. Gateway!TypeOK' /\ InFlight' = InFlight
        BY <1>1, <2>1, StillTyped DEF TypeOK, InFlight, processVars
    <2>3. /\ script' \in {"absent", "reads", "submits", "awaits", "signals",
                          "releases", "waits", "passed", "failed"}
          /\ graceful' \in BOOLEAN /\ released' \in BOOLEAN
        BY <1>1, <1>8 DEF UpstreamStarts, Release, Judge, Script, vars,
            scriptVars, TypeOK
    <2> QED
        BY <1>1, <2>1, <2>2, <2>3 DEF TypeOK, processVars, Alive
<1> QED
    BY <1>2, <1>3, <1>4, <1>5, <1>6, <1>7, <1>8, Steps

\* What main changes: the loop is left closed, and the server has no
\* connection left when it is done.
LEMMA MainSteps ==
    ASSUME ProcessInv, MainStep
    PROVE  /\ UNCHANGED <<code, signalled, connection, scriptVars, expired,
                          gatewayVars>>
           /\ Alive /\ Alive' /\ code = NoCode
           /\ accepting' => main' \in {"announced", "closed"}
           /\ main' = "closed" => closing'
           /\ main' = "stopping" => InFlight = {}
<1>1. /\ UNCHANGED <<code, signalled, connection, scriptVars, expired, gatewayVars>>
      /\ Alive /\ Alive' /\ code = NoCode
    BY DEF MainStep, ProcessInv, TypeOK, Announce, PollServer, PollSignals,
        CloseGateway, StopServer, ServerEnds, Alive
<1>2. CASE Announce \/ PollServer \/ PollSignals \/ CloseGateway
    BY <1>1, <1>2 DEF Announce, PollServer, PollSignals, CloseGateway,
        ProcessInv, AcceptsWhileServing
<1>3. CASE StopServer \/ ServerEnds
    BY <1>1, <1>3 DEF StopServer, ServerEnds, ProcessInv, AcceptsWhileServing,
        TypeOK
<1> QED
    BY <1>1, <1>2, <1>3 DEF MainStep

\* Steps of the callers, with the state of the connection before and after.
LEMMA CallerSteps ==
    ASSUME ProcessInv, NEW r \in Requests,
           Connect(r) \/ Receive(r) \/ Respond(r) \/ Leave(r)
    PROVE  /\ UNCHANGED <<main, code, accepting, handling, signalled, closing,
                          scriptVars, expired, gatewayVars>>
           /\ Alive
           /\ main # "stopping"
           /\ \E phase \in {"sending", "received", "answered", "left"} :
                /\ connection' = [connection EXCEPT ![r] = phase]
                /\ phase \in {"sending", "left"} => r # Watched
                /\ phase = "sending" => connection[r] = "none"
                /\ phase # "sending" => connection[r] \in {"sending", "received"}
                /\ phase = "answered" => verdict[r] # "none"
<1>1. /\ UNCHANGED <<main, code, accepting, handling, signalled, closing,
                     scriptVars, expired, gatewayVars>>
      /\ accepting \/ r \in InFlight
    BY DEF Connect, Receive, Respond, Leave, Becomes, InFlight
<1>2. Alive /\ main # "stopping"
    BY <1>1 DEF ProcessInv, TypeOK, AcceptsWhileServing, ServedBeforeStopping,
        Alive
<1> QED
    BY <1>1, <1>2 DEF Connect, Receive, Respond, Leave, Becomes

\* Submitting needs a server that accepts.
LEMMA SubmitSteps ==
    ASSUME ProcessInv, Submit
    PROVE  /\ UNCHANGED <<main, code, accepting, closing, graceful, released,
                          expired, gatewayVars>>
           /\ connection[Watched] = "none"
           /\ \/ script' = "submits" /\ UNCHANGED connection
              \/ /\ script' = "awaits" /\ Alive /\ main # "stopping"
                 /\ connection' = [connection EXCEPT ![Watched] = "sending"]
BY DEF Submit, Script, ProcessInv, TypeOK, AcceptsWhileServing, ScriptKnows, Alive

\* How the process ends.
LEMMA EndStep ==
    ProcessInv /\ [Next]_vars
        => /\ AcceptsWhileServing' /\ ServedBeforeStopping'
           /\ BrokenAtEnd' /\ LeavesNothing'
<1> SUFFICES ASSUME ProcessInv, [Next]_vars
             PROVE  /\ AcceptsWhileServing' /\ ServedBeforeStopping'
                    /\ BrokenAtEnd' /\ LeavesNothing'
    OBVIOUS
<1>1. /\ TypeOK /\ AcceptsWhileServing /\ ServedBeforeStopping
      /\ BrokenAtEnd /\ LeavesNothing
    BY DEF ProcessInv
<1>2. ASSUME Ending PROVE /\ AcceptsWhileServing' /\ ServedBeforeStopping'
                          /\ BrokenAtEnd' /\ LeavesNothing'
    <2>1. AcceptsWhileServing' /\ ServedBeforeStopping' /\ LeavesNothing'
        BY <1>2, Endings DEF AcceptsWhileServing, ServedBeforeStopping,
            LeavesNothing, NoCode, Alive, gatewayVars
    <2>2. ASSUME NEW r \in Requests, connection'[r] = "broken"
          PROVE  ~Alive' /\ code' # 0 /\ (expired' \/ main' = "killed")
        BY <1>1, <1>2, <2>2, Endings DEF BrokenAtEnd, NoCode
    <2>3. /\ main' = "exited" => code' \in {0, 1}
          /\ main' = "aborted" \/ code' = 1 => expired'
        BY <1>2, Endings DEF NoCode
    <2> QED
        BY <2>1, <2>2, <2>3 DEF BrokenAtEnd
<1>3. ASSUME MainStep PROVE /\ AcceptsWhileServing' /\ ServedBeforeStopping'
                            /\ BrokenAtEnd' /\ LeavesNothing'
    <2>1. InFlight' = InFlight
        BY <1>3, MainSteps DEF InFlight
    <2> QED
        BY <1>1, <1>3, <2>1, MainSteps DEF AcceptsWhileServing,
            ServedBeforeStopping, BrokenAtEnd, LeavesNothing, Alive, NoCode
<1>4. ASSUME NEW q \in Requests, GatewayStep(q)
      PROVE  /\ AcceptsWhileServing' /\ ServedBeforeStopping'
             /\ BrokenAtEnd' /\ LeavesNothing'
    <2>1. /\ Alive /\ UNCHANGED processVars
          /\ expired' \in BOOLEAN /\ (expired => expired')
        BY <1>1, <1>4, GatewayMoves DEF GatewayMove, TypeOK
    <2>2. code = NoCode
        BY <1>1, <2>1 DEF TypeOK, Alive
    <2> QED
        BY <1>1, <2>1, <2>2 DEF AcceptsWhileServing, ServedBeforeStopping,
            BrokenAtEnd, LeavesNothing, Alive, NoCode, InFlight, processVars
<1>5. ASSUME NEW r \in Requests,
             Connect(r) \/ Receive(r) \/ Respond(r) \/ Leave(r)
      PROVE  /\ AcceptsWhileServing' /\ ServedBeforeStopping'
             /\ BrokenAtEnd' /\ LeavesNothing'
    <2>1. /\ UNCHANGED <<main, code, accepting, closing, expired, gatewayVars>>
          /\ Alive /\ main # "stopping"
        BY <1>5, CallerSteps
    <2>2. PICK phase \in {"sending", "received", "answered", "left"} :
            connection' = [connection EXCEPT ![r] = phase]
        BY <1>5, CallerSteps
    <2> QED
        BY <1>1, <2>1, <2>2 DEF AcceptsWhileServing, ServedBeforeStopping,
            BrokenAtEnd, LeavesNothing, Alive, TypeOK, gatewayVars
<1>6. ASSUME Submit PROVE /\ AcceptsWhileServing' /\ ServedBeforeStopping'
                          /\ BrokenAtEnd' /\ LeavesNothing'
    BY <1>1, <1>6, SubmitSteps DEF AcceptsWhileServing, ServedBeforeStopping,
        BrokenAtEnd, LeavesNothing, Alive, TypeOK, InFlight, gatewayVars
<1>7. ASSUME \/ handling /\ (Signal \/ Send)
             \/ UpstreamStarts \/ Release \/ Judge \/ UNCHANGED vars
      PROVE  /\ AcceptsWhileServing' /\ ServedBeforeStopping'
             /\ BrokenAtEnd' /\ LeavesNothing'
    <2>1. UNCHANGED <<main, code, accepting, closing, connection, expired,
                      gatewayVars>>
        BY <1>7 DEF Signal, Send, Terminated, UpstreamStarts, Release, Judge,
            vars, processVars
    <2> QED
        BY <1>1, <2>1 DEF AcceptsWhileServing, ServedBeforeStopping, BrokenAtEnd,
            LeavesNothing, Alive, InFlight, gatewayVars
<1> QED
    BY <1>2, <1>3, <1>4, <1>5, <1>6, <1>7, Steps

\* Requests reach the gateway once they were read, and are answered after it
\* has told them.
LEMMA RequestStep == ProcessInv /\ [Next]_vars => RequestOrder'
<1> SUFFICES ASSUME ProcessInv, [Next]_vars, NEW r \in Requests
             PROVE  RequestOrdered(r)'
    BY DEF RequestOrder
<1>1. TypeOK /\ RequestOrdered(r)
    BY DEF ProcessInv, RequestOrder
<1>2. CASE Ending
    BY <1>1, <1>2, Endings DEF gatewayVars, RequestOrdered
<1>3. ASSUME NEW q \in Requests, GatewayStep(q) PROVE RequestOrdered(r)'
    <2>1. connection' = connection /\ GatewayMove(q)
        BY <1>1, <1>3, GatewayMoves DEF processVars
    <2>2. RequestOrdered(q) /\ verdict \in [Requests -> Gateway!Verdicts]
        BY <1>1 DEF ProcessInv, RequestOrder, TypeOK, Gateway!TypeOK
    <2> QED
        BY <1>1, <2>1, <2>2 DEF GatewayMove, RequestOrdered
<1>4. ASSUME NEW q \in Requests,
             Connect(q) \/ Receive(q) \/ Respond(q) \/ Leave(q)
      PROVE  RequestOrdered(r)'
    BY <1>1, <1>4, CallerSteps DEF TypeOK, gatewayVars, RequestOrdered
<1>5. CASE Submit
    BY <1>1, <1>5, SubmitSteps, ProcessAssumption
    DEF ProcessAssumption, TypeOK, gatewayVars, RequestOrdered
<1>6. CASE \/ MainStep
           \/ handling /\ (Signal \/ Send)
           \/ UpstreamStarts \/ Release \/ Judge
           \/ UNCHANGED vars
    <2>1. UNCHANGED <<connection, gatewayVars>>
        BY <1>6, MainSteps DEF Signal, Send, Terminated, UpstreamStarts, Release,
            Judge, vars, processVars
    <2> QED
        BY <1>1, <2>1 DEF gatewayVars, RequestOrdered
<1>7. \/ \E q \in Requests :
            \/ Connect(q) \/ Receive(q) \/ Respond(q) \/ Leave(q)
            \/ GatewayStep(q)
      \/ Ending \/ Submit
      \/ MainStep
      \/ handling /\ (Signal \/ Send)
      \/ UpstreamStarts \/ Release \/ Judge
      \/ UNCHANGED vars
    BY Steps
<1> QED
    BY <1>2, <1>3, <1>4, <1>5, <1>6, <1>7

\* What the script knows stays true.
LEMMA ScriptStep == ProcessInv /\ [Next]_vars => ScriptKnows'
<1> SUFFICES ASSUME ProcessInv, [Next]_vars PROVE ScriptKnows'
    OBVIOUS
<1>1. /\ TypeOK /\ ScriptKnows /\ Watched \in Requests
      /\ connection[Watched] \in {"none", "sending"}
            => Watched \notin held \union started /\ verdict[Watched] = "none"
    BY ProcessAssumption
    DEF ProcessAssumption, ProcessInv, RequestOrder, RequestOrdered
<1>2. ASSUME Ending PROVE ScriptKnows'
    <2>1. connection[Watched] # "left" => connection'[Watched] # "left"
        BY <1>1, <1>2, Endings
    <2>2. connection[Watched] = "none" => connection'[Watched] = "none"
        BY <1>1, <1>2, Endings DEF InFlight
    <2> QED
        BY <1>1, <1>2, <2>1, <2>2, Endings DEF ScriptKnows, gatewayVars
<1>3. ASSUME NEW q \in Requests, GatewayStep(q) PROVE ScriptKnows'
    <2>1. /\ UNCHANGED <<connection, script, graceful, released>>
          /\ GatewayMove(q)
        BY <1>1, <1>3, GatewayMoves DEF processVars, scriptVars
    <2>2. verdict \in [Requests -> Gateway!Verdicts] /\ expired \in BOOLEAN
        BY <1>1 DEF TypeOK, Gateway!TypeOK
    <2> QED
        BY <1>1, <2>1, <2>2 DEF GatewayMove, ScriptKnows
<1>4. ASSUME NEW q \in Requests,
             Connect(q) \/ Receive(q) \/ Respond(q) \/ Leave(q)
      PROVE  ScriptKnows'
    <2>1. UNCHANGED <<scriptVars, expired, gatewayVars>>
        BY <1>4, CallerSteps
    <2>2. /\ connection'[Watched] # "left"
          /\ connection[Watched] = "none" => connection'[Watched] = "none"
        BY <1>1, <1>4, CallerSteps DEF ScriptKnows, TypeOK
    <2> QED
        BY <1>1, <2>1, <2>2 DEF ScriptKnows, scriptVars, gatewayVars
<1>5. ASSUME Submit PROVE ScriptKnows'
    <2>1. /\ UNCHANGED <<graceful, released, expired, gatewayVars>>
          /\ connection[Watched] = "none"
          /\ \/ script' = "submits" /\ UNCHANGED connection
             \/ script' = "awaits" /\ connection'[Watched] = "sending"
        BY <1>1, <1>5, SubmitSteps DEF TypeOK
    <2> QED
        BY <1>1, <2>1 DEF ScriptKnows, gatewayVars
<1>6. CASE handling /\ (Signal \/ Send)
    <2>1. UNCHANGED <<connection, graceful, released, expired, gatewayVars>>
        BY <1>6 DEF Signal, Send, Terminated
    <2>2. \/ script' = script
          \/ /\ script = "signals"
             /\ script' = IF graceful THEN "releases" ELSE "waits"
        BY <1>6 DEF Signal, Send, Script
    <2> QED
        BY <1>1, <2>1, <2>2 DEF ScriptKnows, gatewayVars
<1>7. CASE MainStep \/ UNCHANGED vars
    <2>1. UNCHANGED <<connection, scriptVars, expired, gatewayVars>>
        BY <1>7, MainSteps DEF vars, processVars
    <2> QED
        BY <1>1, <2>1 DEF ScriptKnows, scriptVars, gatewayVars
<1>8. CASE UpstreamStarts \/ Release \/ Judge
    BY <1>1, <1>8 DEF UpstreamStarts, Release, Judge, Script, ScriptKnows,
        processVars, gatewayVars
<1> QED
    BY <1>2, <1>3, <1>4, <1>5, <1>6, <1>7, <1>8, Steps

\* The script judges what the process did.
LEMMA SoundStep == ProcessInv /\ [Next]_vars => CheckIsSound'
<1> SUFFICES ASSUME ProcessInv, [Next]_vars, script' = "failed"
             PROVE  expired' \/ main' = "killed"
    BY DEF CheckIsSound
<1>1. TypeOK /\ (script = "failed" => expired \/ main = "killed")
    BY DEF ProcessInv, CheckIsSound
<1>2. CASE Ending
    BY <1>1, <1>2, Endings DEF Alive
<1>3. CASE Judge
    <2>1. /\ script = "waits" /\ ~Alive
          /\ UNCHANGED <<main, expired>>
          /\ IF graceful
             THEN ~(/\ connection[Watched] = "answered"
                    /\ verdict[Watched] = "completed"
                    /\ code = 0)
             ELSE code # 1
        BY <1>3 DEF Judge, processVars
    <2>2. SUFFICES ASSUME ~expired, main # "killed" PROVE FALSE
        BY <2>1
    <2>3. main = "exited" /\ code = 0
        BY <2>1, <2>2 DEF ProcessInv, BrokenAtEnd, Alive
    <2>4. Watched \in started /\ held = {}
        BY <2>1, <2>3 DEF ProcessInv, ScriptKnows, LeavesNothing
    <2>5. graceful
        BY <2>2, <2>4 DEF ProcessInv, ScriptKnows
    <2>6. Watched \in Requests /\ Watched \notin InFlight
        BY <2>1, ProcessAssumption DEF ProcessAssumption, ProcessInv, TypeOK
    <2>7. connection[Watched] = "answered"
        <3>1. connection[Watched] \in
                {"none", "sending", "received", "answered", "left", "broken"}
            BY <2>6 DEF ProcessInv, TypeOK
        <3>2. connection[Watched] \notin {"sending", "received"}
            BY <2>6 DEF InFlight
        <3>3. connection[Watched] # "none"
            BY <2>4, <2>6 DEF ProcessInv, RequestOrder, RequestOrdered
        <3>4. connection[Watched] \notin {"left", "broken"}
            BY <2>3, <2>6 DEF ProcessInv, ScriptKnows, BrokenAtEnd
        <3> QED
            BY <3>1, <3>2, <3>3, <3>4
    <2>8. verdict[Watched] = "completed"
        BY <2>2, <2>6, <2>7
        DEF ProcessInv, RequestOrder, RequestOrdered, ScriptKnows
    <2> QED
        BY <2>1, <2>3, <2>5, <2>7, <2>8
<1>4. ASSUME NEW q \in Requests, GatewayStep(q)
      PROVE  expired' \/ main' = "killed"
    BY <1>1, <1>4, GatewayMoves DEF GatewayMove, processVars, scriptVars, TypeOK
<1>5. ASSUME NEW q \in Requests,
             Connect(q) \/ Receive(q) \/ Respond(q) \/ Leave(q)
      PROVE  expired' \/ main' = "killed"
    BY <1>1, <1>5, CallerSteps DEF scriptVars
<1>6. CASE handling /\ (Signal \/ Send)
    BY <1>1, <1>6 DEF Signal, Send, Script, Terminated
<1>7. CASE MainStep
    BY <1>1, <1>7, MainSteps DEF Alive, scriptVars
<1>8. CASE Submit \/ UpstreamStarts \/ Release \/ UNCHANGED vars
    BY <1>1, <1>8 DEF Submit, UpstreamStarts, Release, Script, processVars,
        vars, scriptVars
<1> QED
    BY <1>2, <1>3, <1>4, <1>5, <1>6, <1>7, <1>8, Steps

-----------------------------------------------------------------------------
(* Results.                                                                *)

\* A process starts with nothing.
LEMMA ProcessInit == Init => ProcessInv
<1> SUFFICES ASSUME Init PROVE ProcessInv
    OBVIOUS
<1>1. /\ main = "bound" /\ code = NoCode /\ ~accepting /\ ~released /\ ~expired
      /\ script \in {"absent", "reads"}
      /\ \A r \in Requests : connection[r] = "none"
      /\ held = {} /\ started = {} /\ \A r \in Requests : verdict[r] = "none"
      /\ Watched \in Requests
    BY ProcessAssumption DEF Init, Gateway!Init, ProcessAssumption
<1>2. InFlight = {}
    BY <1>1 DEF InFlight
<1>3. TypeOK
    <2>1. Gateway!TypeOK
        BY DEF Init, Gateway!Init, Gateway!TypeOK, Gateway!Verdicts
    <2> QED
        BY <1>1, <1>2, <2>1 DEF Init, TypeOK, Alive, NoCode
<1> QED
    BY <1>1, <1>2, <1>3 DEF ProcessInv, AcceptsWhileServing, ServedBeforeStopping,
        BrokenAtEnd, LeavesNothing, RequestOrder, RequestOrdered, ScriptKnows,
        CheckIsSound, NoCode

LEMMA ProcessStep == ProcessInv /\ [Next]_vars => ProcessInv'
BY TypeStep, EndStep, RequestStep, ScriptStep, SoundStep DEF ProcessInv

LEMMA ProcessInvariant == Spec => []ProcessInv
BY ProcessInit, ProcessStep, PTL DEF Spec

\* main, the server, the script and the gateway keep their types.
THEOREM TypeCorrect == Spec => []TypeOK
BY ProcessInvariant, PTL DEF ProcessInv

\* run in main.rs: exit code 0 means that no connection was cut and no slot is
\* held, however many requests came in before and during the shutdown.
THEOREM Drains == Spec => []SuccessDrains
<1>1. ProcessInv => SuccessDrains
    BY DEF ProcessInv, BrokenAtEnd, LeavesNothing, SuccessDrains
<1> QED
    BY <1>1, ProcessInvariant, PTL

\* check_operations.py: its verdict "failed" has a cause, a deadline that
\* passed or a signal before the handlers, in whatever order its request, its
\* signal, other clients and main's steps come.
THEOREM FailuresExplained == Spec => []CheckIsSound
BY ProcessInvariant, PTL DEF ProcessInv

-----------------------------------------------------------------------------
(* The gateway that Process assumes.                                       *)

\* A caller that hears "not_started" is dismissed, with or without a slot.
LEMMA Dismissed ==
    ASSUME TypeOK, NEW q \in Requests \ started, verdict[q] = "none",
           held' = held \ {q},
           verdict' = [verdict EXCEPT ![q] = "not_started"],
           UNCHANGED <<started, limit>>
    PROVE  Gateway!Dismiss
<1> DEFINE gone == held \intersect {q}
<1>1. gone \in SUBSET (held \ started) /\ held' = held \ gone
    BY DEF TypeOK, Gateway!TypeOK
<1>2. {q} \in SUBSET Gateway!Dismissible(gone)
    BY DEF Gateway!Dismissible
<1>3. verdict' = Gateway!Told({q}, "not_started")
    BY ToldOne
<1> QED
    BY <1>1, <1>2, <1>3 DEF Gateway!Dismiss

\* Every step of Process is one of the contract or does not touch the gateway.
LEMMA ContractStep ==
    ProcessInv /\ [Next]_vars => [Gateway!Next]_(Gateway!vars)
<1> SUFFICES ASSUME ProcessInv, [Next]_vars
             PROVE  Gateway!Next \/ UNCHANGED gatewayVars
    BY DEF gatewayVars, Gateway!vars
<1>1. TypeOK
    BY DEF ProcessInv
<1>2. ASSUME NEW q \in Requests, GatewayStep(q)
      PROVE  Gateway!Next \/ UNCHANGED gatewayVars
    <2>1. limit' = limit /\ (q \in held => verdict[q] = "none")
        BY <1>1, <1>2, GatewayMoves
        DEF ProcessInv, RequestOrder, RequestOrdered
    <2>2. ASSUME Admit(q) PROVE Gateway!Next
        <3>1. CASE Gateway!Admit(q)
            BY <3>1 DEF Gateway!Next
        <3>2. CASE /\ q \notin held \union started
                   /\ verdict[q] = "none"
                   /\ verdict' = [verdict EXCEPT ![q] = "not_started"]
                   /\ UNCHANGED <<held, started, limit>>
            <4>1. held' = held \ {q}
                BY <3>2
            <4> QED
                BY <1>1, <3>2, <4>1, Dismissed DEF Gateway!Next
        <3> QED
            BY <2>2, <3>1, <3>2 DEF Admit
    <2>3. ASSUME Overrun(q) PROVE Gateway!Next
        <3>1. CASE Gateway!Lose(q)
            BY <3>1 DEF Gateway!Next
        <3>2. CASE /\ q \in held \ started
                   /\ held' = held \ {q}
                   /\ verdict' = [verdict EXCEPT ![q] = "not_started"]
                   /\ UNCHANGED <<started, limit>>
            BY <1>1, <2>1, <3>2, Dismissed DEF Gateway!Next
        <3> QED
            BY <2>3, <3>1, <3>2 DEF Overrun
    <2>4. ASSUME Work(q) PROVE Gateway!Next
        BY <2>4 DEF Work, Gateway!Next
    <2> QED
        BY <1>2, <2>2, <2>3, <2>4 DEF GatewayStep
<1>3. ASSUME NEW q \in Requests,
             Connect(q) \/ Receive(q) \/ Respond(q) \/ Leave(q)
      PROVE  UNCHANGED gatewayVars
    BY <1>3 DEF Connect, Receive, Respond, Leave
<1>4. ASSUME \/ MainStep \/ Ending \/ Submit
             \/ handling /\ (Signal \/ Send)
             \/ UpstreamStarts \/ Release \/ Judge \/ UNCHANGED vars
      PROVE  UNCHANGED gatewayVars
    BY <1>4, MainSteps, Endings, SubmitSteps
    DEF Signal, Send, Terminated, UpstreamStarts, Release, Judge, vars, gatewayVars
<1> QED
    BY <1>2, <1>3, <1>4, Steps

\* Whatever Process lets its gateway do, for any requests and whenever main
\* closes it, is what AdmissionContract allows, the contract that Gateway is
\* proved to implement: Drains and FailuresExplained assume no other gateway.
THEOREM AssumesTheContract == Spec => Gateway!Spec
<1>1. Init => Gateway!Init
    BY DEF Init
<1> QED
    BY <1>1, ProcessInit, ProcessStep, ContractStep, PTL DEF Spec, Gateway!Spec
-----------------------------------------------------------------------------
(* The dynamic demonstration (DynamicDemo).                                *)

CONSTANTS High, Low, MaxEvents, MaxPermits
VARIABLES events, pacing, permits, load, phase, revision, maximum, ready,
          poller, fetched, serverRevision

\* Its tasks, script and gateway have the names of those above.
Demo == INSTANCE DynamicDemo WITH Tasks <- Requests

\* The assumption of DynamicDemo, but for the finite set of tasks.
DemoLimits == High \in Nat /\ Low \in Nat \ {0} /\ Low < High

\* The demonstration goes on, and nothing has timed out.
Undisturbed == ~expired /\ script \notin Demo!Ended

Unpaced == {"boots", "fills", "reduces", "sees"}

LimitAt(number) == IF number = 2 THEN Low ELSE High

\* Where the script is decides the server's limit and whether the catalog
\* answers.
StageInv ==
    /\ script \in Unpaced \union {"lowers", "raises", "recovers", "completes",
                                  "joins", "asks"}
    /\ serverRevision =
        CASE script \in {"boots", "fills", "reduces"} -> 1
          [] script \in {"sees", "lowers", "raises"} -> 2
          [] OTHER -> 3
    /\ limit \in [{"owner"} -> Nat]
    /\ limit["owner"] = LimitAt(serverRevision)
    /\ pacing \in BOOLEAN /\ permits \in Nat
    /\ script \in Unpaced => ~pacing /\ permits = 0

\* The client's limit is that of its revision, the poller's of a revision
\* that is no older; from the first wait on both know the lower limit.
ClientInv ==
    /\ revision \in 0 .. serverRevision
    /\ maximum = IF revision = 0 THEN 0 ELSE LimitAt(revision)
    /\ script \notin Unpaced => revision >= 2
    /\ poller \in {"sleeps", "fetched", "reports"}
    /\ fetched.outstanding \in Nat
    /\ poller = "fetched" =>
        /\ fetched.revision \in revision .. serverRevision
        /\ fetched.revision # 0
        /\ fetched.limit = LimitAt(fetched.revision)

PolicyEvents ==
    [event : {"policy"}, revision : Nat, limit : Nat, active : Nat,
     outstanding : Nat]

\* What the script may find in the client's output.
Output ==
    {e \in PolicyEvents :
        /\ e.revision <= revision
        /\ e.revision = 2 /\ script \in Unpaced =>
            e.active = High /\ e.limit = Low}
    \union {[event |-> "completed", successful |-> Cardinality(Requests),
             errors |-> 0]}
    \union {e \in {[event |-> "exited"]} : load = "succeeded"}

\* None of the client's tasks fails, and it ends when all are done.
LoadInv ==
    /\ load \in {"absent", "runs", "exits", "succeeded"}
    /\ phase \in [Requests -> {"waits", "sent", "done"}]
    /\ load \in {"exits", "succeeded"} =>
        \A t \in Requests : phase[t] = "done"
    /\ script = "boots" => load = "absent"
    /\ script = "asks" => load = "succeeded"

\* The client is never ahead of the server: what it sends finds room, or has
\* started before the limit fell.
WorkInv ==
    /\ held \in SUBSET Demo!Active /\ started \in SUBSET Requests
    /\ verdict \in [Requests -> {"none", "completed"}]
    /\ \A t \in held : verdict[t] = "none"
    /\ Cardinality(Demo!Active) <= High
    /\ serverRevision = 2 =>
        Demo!Active \subseteq started \/ Cardinality(Demo!Active) <= Low
    /\ script \in Unpaced => started \subseteq held
    /\ script \in {"reduces", "sees"} => Cardinality(started) >= High

DemoInv ==
    /\ StageInv
    /\ ClientInv
    /\ events \in Seq(Output)
    /\ LoadInv
    /\ WorkInv

\* Sets of tasks are finite, and DynamicDemo counts them as this module does.
LEMMA TaskSets ==
    ASSUME NEW S \in SUBSET Requests
    PROVE  /\ IsFiniteSet(S) /\ Cardinality(S) \in Nat
           /\ \A T \in SUBSET S :
                /\ Cardinality(T) \in Nat /\ Cardinality(T) <= Cardinality(S)
                /\ Cardinality(T) = Cardinality(S) => T = S
           /\ \A t \in S : Cardinality(S \ {t}) = Cardinality(S) - 1
           /\ Demo!Cardinality(S) = Cardinality(S)
           /\ Demo!Gateway!Cardinality(S) = Cardinality(S)
<1>1. IsFiniteSet(S) /\ Cardinality(S) \in Nat
    BY FS_Subset, FS_CardinalityType, ProcessAssumption DEF ProcessAssumption
<1>2. ASSUME NEW T \in SUBSET S
      PROVE  /\ Cardinality(T) \in Nat /\ Cardinality(T) <= Cardinality(S)
             /\ Cardinality(T) = Cardinality(S) => T = S
    BY <1>1, FS_Subset, FS_CardinalityType
<1>3. \A t \in S : Cardinality(S \ {t}) = Cardinality(S) - 1
    BY <1>1, FS_RemoveElement
<1>4. /\ Demo!Cardinality(S) = Cardinality(S)
      /\ Demo!Gateway!Cardinality(S) = Cardinality(S)
    BY DEF Cardinality, Demo!Cardinality, Demo!Gateway!Cardinality
<1> QED
    BY <1>1, <1>2, <1>3, <1>4

\* While the script looks for the lower limit, the client has as many tasks
\* under way as the higher one allows, and all of them have started.
LEMMA FullHouse ==
    ASSUME DemoLimits, DemoInv, script \in {"reduces", "sees"}
    PROVE  /\ started = held /\ Demo!Active = held
           /\ Cardinality(Demo!Active) = High /\ Cardinality(held) = High
<1>1. /\ started \subseteq held /\ held \subseteq Demo!Active
      /\ Demo!Active \in SUBSET Requests
      /\ Cardinality(Demo!Active) <= High /\ High <= Cardinality(started)
      /\ High \in Nat
    BY DEF DemoLimits, DemoInv, WorkInv, Unpaced, Demo!Active
<1>2. /\ Cardinality(started) \in Nat /\ Cardinality(Demo!Active) \in Nat
      /\ Cardinality(started) <= Cardinality(Demo!Active)
      /\ Cardinality(started) = Cardinality(Demo!Active) =>
            started = Demo!Active
    BY <1>1, TaskSets
<1>3. Cardinality(started) = Cardinality(Demo!Active)
      /\ Cardinality(Demo!Active) = High
    BY <1>1, <1>2
<1> QED
    BY <1>1, <1>2, <1>3

\* A task that waits for the gateway finds room.
LEMMA RoomForAll ==
    ASSUME DemoLimits, DemoInv, NEW t \in Requests, Demo!Waiting(t)
    PROVE  /\ phase[t] = "sent"
           /\ ~(Demo!Cardinality(held) >= limit["owner"])
<1>1. /\ t \in Demo!Active /\ t \notin held /\ t \notin started
      /\ phase[t] = "sent"
      /\ held \in SUBSET (Demo!Active \ {t})
      /\ Demo!Active \in SUBSET Requests
      /\ Demo!Active \ {t} \in SUBSET Requests
      /\ held \in SUBSET Requests
    BY DEF Demo!Waiting, Demo!Active, DemoInv, WorkInv
<1>2. /\ Cardinality(Demo!Active) \in Nat
      /\ Cardinality(Demo!Active \ {t}) = Cardinality(Demo!Active) - 1
      /\ Cardinality(held) \in Nat
      /\ Cardinality(held) <= Cardinality(Demo!Active \ {t})
      /\ Demo!Cardinality(held) = Cardinality(held)
    BY <1>1, TaskSets
<1>3. Cardinality(Demo!Active) <= limit["owner"] /\ limit["owner"] \in Nat
    <2>1. limit["owner"] = LimitAt(serverRevision)
        BY DEF DemoInv, StageInv
    <2>2. serverRevision = 2 => Cardinality(Demo!Active) <= Low
        BY <1>1 DEF DemoInv, WorkInv
    <2>3. Cardinality(Demo!Active) <= High
        BY DEF DemoInv, WorkInv
    <2> QED
        BY <2>1, <2>2, <2>3 DEF LimitAt, DemoLimits
<1> QED
    BY <1>1, <1>2, <1>3

\* The client's tasks.
LEMMA TaskSteps ==
    ASSUME DemoLimits, DemoInv, NEW t \in Requests,
           Demo!Acquire(t) \/ Demo!Conclude(t)
    PROVE  DemoInv'
<1> USE DEF DemoInv
<1>1. /\ UNCHANGED <<script, events, pacing, permits, load, revision, maximum,
                     poller, fetched, serverRevision, held, started, verdict,
                     limit>>
      /\ load = "runs"
    BY DEF Demo!Acquire, Demo!Conclude, Demo!scriptVars, Demo!gateVars,
        Demo!pollerVars, Demo!gatewayVars
<1>2. StageInv' /\ ClientInv'
    BY <1>1 DEF StageInv, ClientInv
<1>3. Output' = Output
    BY <1>1 DEF Output
<1>4. /\ Demo!Active \in SUBSET Requests
      /\ phase \in [Requests -> {"waits", "sent", "done"}]
    BY DEF Demo!Active, LoadInv
<1>5. CASE Demo!Acquire(t)
    <2>1. /\ phase' = [phase EXCEPT ![t] = "sent"] /\ phase[t] = "waits"
          /\ Demo!Cardinality(Demo!Active) < maximum
        BY <1>5 DEF Demo!Acquire, Demo!CanAcquire
    <2>2. LoadInv'
        BY <1>1, <1>4, <2>1 DEF LoadInv
    <2>3. Demo!Active' = Demo!Active \union {t} /\ t \notin Demo!Active
        BY <1>4, <2>1 DEF Demo!Active
    <2>4. /\ Cardinality(Demo!Active') = Cardinality(Demo!Active) + 1
          /\ Cardinality(Demo!Active) \in Nat
          /\ Cardinality(Demo!Active) < maximum
        <3>1. IsFiniteSet(Demo!Active)
            BY <1>4, TaskSets
        <3> QED
            BY <1>4, <2>1, <2>3, <3>1, TaskSets, FS_AddElement
    <2>5. Cardinality(Demo!Active') <= High
        BY <2>4 DEF ClientInv, LimitAt, DemoLimits
    <2>6. serverRevision = 2 => Cardinality(Demo!Active') <= Low
        <3> SUFFICES ASSUME serverRevision = 2
                     PROVE  Cardinality(Demo!Active') <= Low
            OBVIOUS
        <3>1. script \in {"sees", "lowers", "raises"}
            BY DEF StageInv, Unpaced
        <3>2. script # "sees"
            <4>1. maximum \in Nat /\ maximum <= High /\ High \in Nat
                BY DEF ClientInv, LimitAt, DemoLimits
            <4>2. script = "sees" => Cardinality(Demo!Active) = High
                BY FullHouse
            <4> QED
                BY <2>4, <4>1, <4>2
        <3>3. revision = 2
            BY <3>1, <3>2 DEF ClientInv, Unpaced
        <3>4. maximum = Low
            BY <3>3 DEF ClientInv, LimitAt
        <3> QED
            BY <2>4, <3>4 DEF DemoLimits
    <2> QED
        BY <1>1, <1>2, <1>3, <2>2, <2>3, <2>5, <2>6 DEF WorkInv
<1>6. CASE Demo!Conclude(t)
    <2>1. /\ phase[t] = "sent" /\ verdict[t] = "completed"
          /\ phase' = [phase EXCEPT ![t] = "done"]
        BY <1>6 DEF Demo!Conclude, WorkInv
    <2>2. LoadInv'
        BY <1>1, <1>4, <2>1 DEF LoadInv
    <2>3. Demo!Active' = Demo!Active \ {t} /\ t \notin held
        BY <1>4, <2>1 DEF Demo!Active, WorkInv
    <2>4. /\ Cardinality(Demo!Active') <= Cardinality(Demo!Active)
          /\ Cardinality(Demo!Active') \in Nat /\ Cardinality(Demo!Active) \in Nat
        BY <1>4, <2>3, TaskSets
    <2>5. /\ Cardinality(Demo!Active') <= High
          /\ Cardinality(Demo!Active) <= Low => Cardinality(Demo!Active') <= Low
        BY <2>4 DEF WorkInv, DemoLimits
    <2> QED
        BY <1>1, <1>2, <1>3, <2>2, <2>3, <2>5 DEF WorkInv
<1> QED
    BY <1>5, <1>6

\* What the script may find changes only with the client's revision, which
\* grows, the waits of the script and the client's end.
LEMMA MoreOutput ==
    ASSUME NEW extra, events \in Seq(Output), Output \subseteq Output'
    PROVE  /\ UNCHANGED events => events' \in Seq(Output')
           /\ events' = Append(events, extra) /\ extra \in Output' =>
                events' \in Seq(Output')
<1>1. events \in Seq(Output')
    OBVIOUS
<1> QED
    BY <1>1

\* The client's poller.
LEMMA PollerSteps ==
    ASSUME DemoLimits, DemoInv, Demo!Poller
    PROVE  DemoInv'
<1> USE DEF DemoInv
<1>1. /\ UNCHANGED <<script, pacing, permits, load, phase, serverRevision,
                     held, started, verdict, limit>>
    BY DEF Demo!Poller, Demo!Fetch, Demo!Apply, Demo!Report, Demo!scriptVars,
        Demo!gateVars, Demo!gatewayVars
<1>2. Demo!Active' = Demo!Active /\ Demo!Active \in SUBSET Requests
    BY <1>1 DEF Demo!Active
<1>3. StageInv' /\ LoadInv' /\ WorkInv'
    BY <1>1, <1>2 DEF StageInv, LoadInv, WorkInv
<1>4. serverRevision \in Nat /\ revision \in Nat
    BY DEF StageInv, ClientInv
<1>5. CASE Demo!Fetch
    <2>1. /\ UNCHANGED <<events, revision, maximum>>
          /\ poller' = "fetched"
          /\ fetched' = [revision |-> serverRevision, limit |-> limit["owner"],
                         outstanding |-> Demo!Cardinality(held)]
        BY <1>5 DEF Demo!Fetch, Demo!scriptVars, Demo!gateVars
    <2>2. Demo!Cardinality(held) \in Nat
        BY <1>2, TaskSets DEF WorkInv
    <2>3. limit["owner"] = LimitAt(serverRevision) /\ serverRevision # 0
        BY DEF StageInv
    <2>4. ClientInv'
        BY <1>1, <1>4, <2>1, <2>2, <2>3 DEF ClientInv, LimitAt
    <2>5. Output' = Output
        BY <1>1, <2>1 DEF Output
    <2> QED
        BY <1>3, <2>1, <2>4, <2>5
<1>6. CASE Demo!Apply
    <2>1. /\ UNCHANGED <<events, fetched>>
          /\ revision' = fetched.revision /\ maximum' = fetched.limit
          /\ poller = "fetched" /\ poller' = "reports"
        BY <1>6 DEF Demo!Apply, Demo!scriptVars
    <2>2. ClientInv'
        BY <1>1, <1>4, <2>1 DEF ClientInv, LimitAt
    <2>3. Output \subseteq Output'
        BY <1>1, <1>4, <2>1, <2>2 DEF ClientInv, Output, PolicyEvents
    <2> QED
        BY <1>3, <2>1, <2>2, <2>3, MoreOutput
<1>7. CASE Demo!Report
    <2> DEFINE e == [event |-> "policy", revision |-> revision,
                     limit |-> maximum, active |-> Demo!Cardinality(Demo!Active),
                     outstanding |-> fetched.outstanding]
    <2>1. /\ UNCHANGED <<revision, maximum, fetched>>
          /\ events' = Append(events, e) /\ poller' = "sleeps"
        BY <1>7 DEF Demo!Report, Demo!Emit, Demo!gateVars
    <2>2. ClientInv'
        BY <1>1, <2>1 DEF ClientInv
    <2>3. Output' = Output
        BY <1>1, <2>1 DEF Output
    <2>4. /\ Demo!Cardinality(Demo!Active) \in Nat
          /\ Demo!Cardinality(Demo!Active) = Cardinality(Demo!Active)
        BY <1>2, TaskSets
    <2>5. e \in PolicyEvents
        BY <1>4, <2>4 DEF ClientInv, LimitAt, DemoLimits, PolicyEvents
    <2>6. revision = 2 /\ script \in Unpaced => script = "sees" /\ maximum = Low
        BY DEF StageInv, ClientInv, LimitAt, Unpaced
    <2>7. script = "sees" => Cardinality(Demo!Active) = High
        BY FullHouse
    <2>8. e \in Output
        BY <1>4, <2>4, <2>5, <2>6, <2>7 DEF Output
    <2> QED
        BY <1>3, <2>1, <2>2, <2>3, <2>8
<1> QED
    BY <1>5, <1>6, <1>7 DEF Demo!Poller

\* The end of the client.
LEMMA LoadSteps ==
    ASSUME DemoLimits, DemoInv, Demo!Complete \/ Demo!Exit
    PROVE  DemoInv'
<1> USE DEF DemoInv
<1>1. /\ UNCHANGED <<script, pacing, permits, phase, revision, maximum, poller,
                     fetched, serverRevision, held, started, verdict, limit>>
    BY DEF Demo!Complete, Demo!Exit, Demo!gateVars, Demo!pollerVars,
        Demo!gatewayVars
<1>2. Demo!Active' = Demo!Active
    BY <1>1 DEF Demo!Active
<1>3. StageInv' /\ ClientInv' /\ WorkInv'
    BY <1>1, <1>2 DEF StageInv, ClientInv, WorkInv
<1>4. Demo!Errors = {}
    BY DEF Demo!Errors, LoadInv
<1>5. CASE Demo!Complete
    <2>1. /\ load' = "exits" /\ Demo!Concluded = Requests /\ load = "runs"
          /\ events' = Append(events, [event |-> "completed",
                successful |-> Demo!Cardinality(Requests \ {}),
                errors |-> Demo!Cardinality({})])
        BY <1>4, <1>5 DEF Demo!Complete, Demo!Emit
    <2>2. \A t \in Requests : phase[t] = "done"
        BY <2>1 DEF Demo!Concluded, LoadInv
    <2>3. LoadInv'
        BY <1>1, <2>1, <2>2 DEF LoadInv, StageInv
    <2>4. /\ Demo!Cardinality(Requests \ {}) = Cardinality(Requests)
          /\ Demo!Cardinality({}) = 0
        BY TaskSets, FS_EmptySet
    <2>5. Output' = Output
        BY <1>1, <2>1 DEF Output
    <2> QED
        BY <1>3, <2>1, <2>3, <2>4, <2>5 DEF Output
<1>6. CASE Demo!Exit
    <2>1. /\ load' = "succeeded" /\ load = "exits"
          /\ events' = Append(events, [event |-> "exited"])
        BY <1>4, <1>6 DEF Demo!Exit, Demo!Emit
    <2>2. LoadInv'
        BY <1>1, <2>1 DEF LoadInv
    <2>3. Output \subseteq Output' /\ [event |-> "exited"] \in Output'
        BY <1>1, <2>1 DEF Output
    <2> QED
        BY <1>3, <2>1, <2>2, <2>3, MoreOutput
<1> QED
    BY <1>5, <1>6

\* The gateway and the catalog: nobody is turned away, and nothing completes
\* before the script lets it.
LEMMA WorkSteps ==
    ASSUME DemoLimits, DemoInv, NEW t \in Requests,
           Demo!GatewayStep(t)
    PROVE  DemoInv'
<1> USE DEF DemoInv
<1>1. UNCHANGED <<script, events, pacing, load, phase, revision, maximum,
                  poller, fetched, serverRevision>>
    BY DEF Demo!GatewayStep, Demo!scriptVars, Demo!gateVars, Demo!pollerVars
<1>2. Demo!Active' = Demo!Active /\ Demo!Active \in SUBSET Requests
    BY <1>1 DEF Demo!Active
<1>3. ClientInv' /\ LoadInv' /\ Output' = Output
    BY <1>1 DEF ClientInv, LoadInv, Output
<1>4. UNCHANGED <<permits, limit>> => StageInv'
    BY <1>1 DEF StageInv
<1>5. CASE Demo!Admit(t)
    <2>1. /\ Demo!Gateway!Admit(t) /\ held' = held \union {t}
          /\ verdict' = verdict /\ permits' = permits /\ phase[t] = "sent"
          /\ verdict[t] = "none"
        BY <1>5, RoomForAll DEF Demo!Admit, Demo!Waiting
    <2>2. UNCHANGED <<started, limit>>
        BY <2>1 DEF Demo!Gateway!Admit
    <2>3. WorkInv'
        BY <1>1, <1>2, <2>1, <2>2 DEF WorkInv, Demo!Active
    <2> QED
        BY <1>1, <1>3, <1>4, <2>1, <2>2, <2>3
<1>6. CASE Demo!Gateway!Start(t) /\ UNCHANGED permits
    <2>1. /\ t \in held /\ started' = started \union {t}
          /\ UNCHANGED <<held, verdict, limit>>
        BY <1>6 DEF Demo!Gateway!Start
    <2>2. /\ started' \in SUBSET Requests /\ started \in SUBSET started'
        BY <2>1 DEF WorkInv
    <2>3. /\ Cardinality(started) <= Cardinality(started')
          /\ Cardinality(started) \in Nat /\ Cardinality(started') \in Nat
        BY <2>2, TaskSets
    <2>4. Cardinality(started) >= High => Cardinality(started') >= High
        BY <2>3 DEF DemoLimits
    <2>5. WorkInv'
        BY <1>1, <1>2, <2>1, <2>2, <2>4 DEF WorkInv
    <2> QED
        BY <1>1, <1>3, <1>4, <1>6, <2>1, <2>5
<1>7. CASE Demo!Completes(t)
    <2>1. /\ permits > 0 /\ permits' = permits - 1
          /\ held' = held \ {t} /\ UNCHANGED <<started, verdict, limit>>
        BY <1>7 DEF Demo!Completes, Demo!Gateway!Free
    <2>2. script \notin Unpaced /\ permits' \in Nat
        BY <2>1 DEF StageInv
    <2>3. StageInv'
        BY <1>1, <2>1, <2>2 DEF StageInv
    <2>4. WorkInv'
        BY <1>1, <1>2, <2>1, <2>2 DEF WorkInv
    <2> QED
        BY <1>1, <1>3, <2>3, <2>4
<1>8. CASE Demo!Gateway!Answer(t) /\ verdict'[t] = "completed" /\ UNCHANGED permits
    <2>1. /\ t \notin held /\ UNCHANGED <<held, started, limit>>
          /\ \E what \in {"completed", "unknown"} :
                verdict' = [q \in Requests |->
                                IF q \in {t} THEN what ELSE verdict[q]]
        BY <1>8 DEF Demo!Gateway!Answer, Demo!Gateway!Told
    <2>2. verdict' = [q \in Requests |->
                        IF q = t THEN "completed" ELSE verdict[q]]
        BY <1>8, <2>1
    <2>3. WorkInv'
        BY <1>1, <1>2, <2>1, <2>2 DEF WorkInv
    <2> QED
        BY <1>1, <1>3, <1>4, <1>8, <2>1, <2>3
<1> QED
    BY <1>5, <1>6, <1>7, <1>8 DEF Demo!GatewayStep, Demo!Execute

LEMMA PaceStep ==
    ASSUME DemoInv, Demo!Pace
    PROVE  DemoInv'
<1> USE DEF DemoInv
<1>1. /\ UNCHANGED <<script, events, pacing, load, phase, revision, maximum,
                     poller, fetched, serverRevision, held, started, verdict,
                     limit>>
      /\ pacing /\ permits' = permits + 1
    BY DEF Demo!Pace, Demo!scriptVars, Demo!gateVars, Demo!pollerVars,
        Demo!gatewayVars
<1>2. Demo!Active' = Demo!Active /\ Output' = Output
    BY <1>1 DEF Demo!Active, Output
<1> QED
    BY <1>1, <1>2 DEF StageInv, ClientInv, LoadInv, WorkInv

\* Between its waits the script finds what it asserts.
LEMMA ScriptSteps ==
    ASSUME DemoLimits, DemoInv,
           Demo!Boot \/ Demo!Change \/ Demo!Finish
    PROVE  script' = "passed" \/ DemoInv'
<1> USE DEF DemoInv
<1>1. /\ UNCHANGED <<events, pacing, permits, phase, revision, maximum, poller,
                     fetched, held, started, verdict>>
    BY DEF Demo!Boot, Demo!Change, Demo!Finish, Demo!gateVars, Demo!pollerVars,
        Demo!gatewayVars
<1>2. Demo!Active' = Demo!Active
    BY <1>1 DEF Demo!Active
<1>3. CASE Demo!Boot
    <2>1. /\ \/ script = "boots" /\ script' = "fills" /\ load' = "runs"
             \/ /\ script = "fills" /\ script' = "reduces" /\ UNCHANGED load
                /\ Demo!Cardinality(started) >= High
          /\ UNCHANGED <<serverRevision, limit>>
        BY <1>3 DEF Demo!Boot, Demo!gatewayVars
    <2>2. Output' = Output
        BY <1>1, <2>1 DEF Output, LoadInv, Unpaced
    <2>3. StageInv' /\ ClientInv' /\ LoadInv'
        BY <1>1, <2>1 DEF StageInv, ClientInv, LoadInv, Unpaced
    <2>4. Demo!Cardinality(started) = Cardinality(started)
        BY TaskSets DEF WorkInv
    <2>5. WorkInv'
        BY <1>1, <1>2, <2>1, <2>4 DEF WorkInv, Unpaced
    <2> QED
        BY <1>1, <2>2, <2>3, <2>5
<1>4. CASE Demo!Change /\ script = "reduces"
    <2>1. /\ limit' = [limit EXCEPT !["owner"] = Low] /\ serverRevision = 1
          /\ serverRevision' = serverRevision + 1 /\ load' = load
          /\ script' = CASE Demo!Cardinality(held) = High
                              /\ serverRevision' = 2 -> "sees"
                         [] OTHER -> "failed"
        BY <1>4 DEF Demo!Change, StageInv
    <2>2. Demo!Cardinality(held) = High
        <3>1. held \in SUBSET Requests
            BY DEF WorkInv, Demo!Active
        <3> QED
            BY <1>4, <3>1, FullHouse, TaskSets
    <2>3. script' = "sees" /\ serverRevision' = 2
        BY <2>1, <2>2
    <2>4. StageInv'
        BY <1>1, <1>4, <2>1, <2>3 DEF DemoLimits, StageInv, Unpaced, LimitAt
    <2>5. ClientInv'
        BY <1>1, <2>1, <2>3 DEF ClientInv, Unpaced
    <2>6. Output' = Output
        BY <1>1, <1>4, <2>1, <2>3 DEF ClientInv, Output, Unpaced, PolicyEvents
    <2>7. LoadInv'
        BY <1>1, <2>1, <2>3 DEF LoadInv
    <2>8. WorkInv'
        BY <1>1, <1>2, <1>4, <2>3, FullHouse DEF WorkInv, Unpaced
    <2> QED
        BY <1>1, <2>4, <2>5, <2>6, <2>7, <2>8
<1>5. CASE Demo!Change /\ script = "raises"
    <2>1. /\ limit' = [limit EXCEPT !["owner"] = High] /\ serverRevision = 2
          /\ serverRevision' = 3 /\ load' = load /\ script' = "recovers"
        BY <1>5 DEF Demo!Change, StageInv, Unpaced
    <2>2. StageInv'
        BY <1>1, <1>5, <2>1 DEF DemoLimits, StageInv, Unpaced, LimitAt
    <2>3. ClientInv'
        BY <1>1, <1>5, <2>1 DEF ClientInv, Unpaced
    <2>4. LoadInv'
        BY <1>1, <1>5, <2>1 DEF LoadInv
    <2>5. Output' = Output
        BY <1>1, <1>5, <2>1 DEF Output, Unpaced
    <2>6. WorkInv'
        BY <1>1, <1>2, <2>1 DEF WorkInv, Unpaced
    <2> QED
        BY <1>1, <2>2, <2>3, <2>4, <2>5, <2>6
<1>6. CASE Demo!Finish /\ script = "joins"
    <2>1. /\ script' = "asks" /\ load = "succeeded"
          /\ UNCHANGED <<load, serverRevision, limit>>
        BY <1>6 DEF Demo!Finish, Demo!gatewayVars, LoadInv
    <2>2. StageInv' /\ ClientInv'
        BY <1>1, <1>6, <2>1 DEF StageInv, ClientInv, Unpaced
    <2>3. LoadInv' /\ WorkInv'
        BY <1>1, <1>2, <1>6, <2>1 DEF LoadInv, WorkInv, Unpaced
    <2>4. Output' = Output
        BY <1>1, <1>6, <2>1 DEF Output, Unpaced
    <2> QED
        BY <1>1, <2>2, <2>3, <2>4
<1>7. CASE Demo!Finish /\ script = "asks"
    <2>1. held = {}
        BY <1>7 DEF LoadInv, WorkInv, Demo!Active
    <2>2. script' = "passed"
        BY <1>7, <2>1 DEF Demo!Finish
    <2> QED
        BY <2>2
<1> QED
    BY <1>3, <1>4, <1>5, <1>6, <1>7 DEF Demo!Change, Demo!Finish

\* What the script waits for says what it asserts of it, and the client's
\* output ends when its batch is done.
LEMMA WaitSteps ==
    ASSUME DemoLimits, DemoInv, Demo!WaitEvent
    PROVE  (script' = "gave_up" /\ load' = "succeeded") \/ DemoInv'
<1> USE DEF DemoInv
<1> DEFINE e == Head(events)
<1>1. /\ UNCHANGED <<permits, load, phase, revision, maximum, poller,
                     fetched, serverRevision, held, started, verdict, limit>>
      /\ script \in {"sees", "lowers", "recovers", "completes"}
      /\ events # <<>> /\ events' = Tail(events)
      /\ pacing' = (pacing \/ script' = "lowers")
      /\ script' = IF e.event = "exited" THEN "gave_up"
                   ELSE IF ~Demo!Wanted(e) THEN script
                   ELSE IF Demo!Asserted(e) THEN Demo!AfterWait[script]
                   ELSE "failed"
    BY DEF Demo!WaitEvent, Demo!AfterWait, Demo!gateVars, Demo!pollerVars,
        Demo!gatewayVars
<1>2. e \in Output /\ Tail(events) \in Seq(Output)
    BY <1>1
<1>3. CASE e.event = "exited"
    BY <1>1, <1>2, <1>3 DEF Output, PolicyEvents
<1>4. ASSUME e.event # "exited", Demo!Wanted(e)
      PROVE  /\ Demo!Asserted(e) /\ script' = Demo!AfterWait[script]
             /\ script = "sees" => revision >= 2
    <2>1. CASE script = "sees"
        <3>1. e \in PolicyEvents /\ e.revision = 2
              /\ e.revision <= revision /\ e.active = High /\ e.limit = Low
            BY <1>2, <1>4, <2>1 DEF Demo!Wanted, Output, Unpaced
        <3> QED
            BY <1>1, <1>4, <2>1, <3>1 DEF Demo!Asserted, ClientInv
    <2>2. CASE script \in {"lowers", "recovers"}
        BY <1>1, <1>4, <2>2 DEF Demo!Asserted
    <2>3. CASE script = "completes"
        <3>1. e.event = "completed"
            BY <1>4, <2>3 DEF Demo!Wanted
        <3>2. e = [event |-> "completed", successful |-> Cardinality(Requests),
                   errors |-> 0]
            BY <1>2, <3>1 DEF Output, PolicyEvents
        <3>3. e.successful = Cardinality(Requests) /\ e.errors = 0
            BY <3>2
        <3>4. Demo!Cardinality(Requests) = Cardinality(Requests)
            BY TaskSets
        <3>5. Demo!Asserted(e)
            BY <2>3, <3>3, <3>4 DEF Demo!Asserted
        <3> QED
            BY <1>1, <1>4, <2>3, <3>5
    <2> QED
        BY <1>1, <2>1, <2>2, <2>3
<1>5. ASSUME e.event # "exited"
      PROVE  DemoInv'
    <2>1. \/ script' = script
          \/ script = "sees" /\ script' = "lowers" /\ revision >= 2
          \/ script = "lowers" /\ script' = "raises"
          \/ script = "recovers" /\ script' = "completes"
          \/ script = "completes" /\ script' = "joins"
        BY <1>1, <1>4, <1>5 DEF Demo!AfterWait
    <2>2. Demo!Active' = Demo!Active
        BY <1>1 DEF Demo!Active
    <2>3. StageInv' /\ ClientInv'
        BY <1>1, <2>1 DEF StageInv, ClientInv, Unpaced
    <2>4. LoadInv' /\ WorkInv'
        BY <1>1, <2>1, <2>2 DEF LoadInv, WorkInv, Unpaced
    <2>5. Output \subseteq Output'
        BY <1>1, <2>1 DEF Output, Unpaced
    <2>6. events' \in Seq(Output')
        BY <1>1, <1>2, <2>5
    <2> QED
        BY <2>3, <2>4, <2>6
<1> QED
    BY <1>3, <1>5

\* What is timed out stays so, a script that has ended takes no step, and a
\* client that has ended is not started again.
LEMMA TimeoutsCount ==
    ASSUME Demo!Next
    PROVE  /\ expired => expired'
           /\ script \in Demo!Ended =>
                /\ script' = script
                /\ load = "succeeded" => load' = "succeeded"
<1>1. CASE Demo!Main
    BY <1>1
    DEF Demo!Main, Demo!Boot, Demo!Change, Demo!WaitEvent, Demo!Finish,
        Demo!AfterWait, Demo!Ended
<1>2. CASE Demo!GiveUp
    BY <1>2 DEF Demo!GiveUp
<1>3. CASE \/ Demo!Poller \/ Demo!FetchFails
           \/ Demo!Complete \/ Demo!Exit \/ Demo!LoadExpires \/ Demo!Pace
    BY <1>3
    DEF Demo!Poller, Demo!Fetch, Demo!Apply, Demo!Report, Demo!FetchFails,
        Demo!Complete, Demo!Exit, Demo!LoadExpires, Demo!Pace, Demo!scriptVars
<1>4. ASSUME NEW t \in Requests,
             \/ Demo!Acquire(t) \/ Demo!Conclude(t) \/ Demo!TimeOut(t)
             \/ Demo!Overrun(t)
      PROVE  /\ expired => expired'
             /\ script' = script /\ load' = load
    BY <1>4
    DEF Demo!Acquire, Demo!Conclude, Demo!TimeOut, Demo!Overrun,
        Demo!scriptVars
<1>5. ASSUME NEW t \in Requests, Demo!GatewayStep(t)
      PROVE  expired' = expired /\ script' = script /\ load' = load
    BY <1>5 DEF Demo!GatewayStep, Demo!Admit, Demo!Execute, Demo!scriptVars
<1> QED
    BY <1>1, <1>2, <1>3, <1>4, <1>5 DEF Demo!Next

\* The inductive invariant of the demonstration.
DemoIInv ==
    /\ Demo!AssertionsHold
    /\ Undisturbed => DemoInv

LEMMA DemoInit == DemoLimits /\ Demo!Init => DemoIInv
<1> SUFFICES ASSUME DemoLimits, Demo!Init PROVE DemoIInv
    OBVIOUS
<1>1. StageInv /\ ClientInv /\ LoadInv
    <2>1. /\ script = "boots" /\ ~pacing /\ permits = 0 /\ pacing \in BOOLEAN
          /\ serverRevision = 1 /\ limit = [b \in {"owner"} |-> High]
        BY DEF Demo!Init, Demo!Gateway!Init
    <2>2. StageInv
        BY <2>1 DEF DemoLimits, StageInv, Unpaced, LimitAt
    <2>3. ClientInv
        BY DEF Demo!Init, ClientInv, Unpaced
    <2>4. LoadInv
        BY DEF Demo!Init, LoadInv
    <2> QED
        BY <2>2, <2>3, <2>4
<1>2. Demo!Active = {} /\ events \in Seq(Output)
    BY DEF Demo!Init, Demo!Active
<1>3. WorkInv
    BY <1>2, FS_EmptySet
    DEF Demo!Init, Demo!Gateway!Init, WorkInv, DemoLimits
<1>4. Demo!AssertionsHold
    BY DEF Demo!Init, Demo!AssertionsHold
<1> QED
    BY <1>1, <1>2, <1>3, <1>4 DEF DemoIInv, DemoInv

LEMMA DemoStep ==
    DemoLimits /\ DemoIInv /\ [Demo!Next]_Demo!vars => DemoIInv'
<1> SUFFICES ASSUME DemoLimits, DemoIInv, [Demo!Next]_Demo!vars
             PROVE  DemoIInv'
    OBVIOUS
<1>1. CASE UNCHANGED Demo!vars
    <2>1. UNCHANGED <<script, events, pacing, permits, load, phase, revision,
                      maximum, poller, fetched, expired, serverRevision, held,
                      started, verdict, limit>>
        BY <1>1 DEF Demo!vars, Demo!scriptVars, Demo!gateVars,
            Demo!pollerVars, Demo!gatewayVars
    <2>2. Demo!Active' = Demo!Active /\ Output' = Output
        BY <2>1 DEF Demo!Active, Output
    <2>3. DemoInv => DemoInv'
        BY <2>1, <2>2 DEF DemoInv, StageInv, ClientInv, LoadInv, WorkInv
    <2> QED
        BY <2>1, <2>3 DEF DemoIInv, Demo!AssertionsHold, Undisturbed
<1>2. ASSUME Demo!Next, ~Undisturbed
      PROVE  DemoIInv'
    BY <1>2, TimeoutsCount DEF DemoIInv, Undisturbed, Demo!AssertionsHold
<1>3. ASSUME Demo!Next, expired'
      PROVE  DemoIInv'
    BY <1>3 DEF DemoIInv, Undisturbed, Demo!AssertionsHold
<1>4. ASSUME Demo!Next, Undisturbed, ~expired'
      PROVE  \/ script' = "passed"
             \/ script' = "gave_up" /\ load' = "succeeded"
             \/ DemoInv'
    <2>1. DemoInv
        BY <1>4 DEF DemoIInv
    <2>2. CASE Demo!Main
        BY <2>1, <2>2, ScriptSteps, WaitSteps DEF Demo!Main
    <2>3. CASE Demo!Poller \/ Demo!Complete \/ Demo!Exit \/ Demo!Pace
        BY <2>1, <2>3, PollerSteps, LoadSteps, PaceStep
    <2>4. ASSUME NEW t \in Requests,
                 \/ Demo!Acquire(t) \/ Demo!Conclude(t) \/ Demo!GatewayStep(t)
          PROVE  DemoInv'
        BY <2>1, <2>4, TaskSteps, WorkSteps
    <2>5. ~(\/ Demo!GiveUp \/ Demo!FetchFails \/ Demo!LoadExpires
            \/ \E t \in Requests : Demo!TimeOut(t) \/ Demo!Overrun(t))
        BY <1>4
        DEF Demo!GiveUp, Demo!FetchFails, Demo!LoadExpires, Demo!TimeOut,
            Demo!Overrun
    <2> QED
        BY <1>4, <2>2, <2>3, <2>4, <2>5 DEF Demo!Next
<1>5. DemoInv' => script' \notin Demo!Ended
    BY DEF DemoInv, StageInv, Unpaced, Demo!Ended
<1> QED
    BY <1>1, <1>2, <1>3, <1>4, <1>5 DEF DemoIInv, Undisturbed,
        Demo!AssertionsHold, Demo!Ended

\* The assertions of examples/dynamic_demo.py hold of any batch, limits and
\* pace, whatever the order in which its five actors and the gateway move: if
\* the script fails, something has timed out, and if it gives up, something has
\* timed out or the client has done its whole batch.
THEOREM DemoSound ==
    Demo!DynamicDemoAssumption => (Demo!Spec => []Demo!AssertionsHold)
<1> SUFFICES ASSUME Demo!DynamicDemoAssumption
             PROVE  Demo!Spec => []Demo!AssertionsHold
    OBVIOUS
<1>1. DemoLimits
    BY DEF Demo!DynamicDemoAssumption, DemoLimits
<1>2. Demo!Init => DemoIInv
    BY <1>1, DemoInit
<1>3. DemoIInv /\ [Demo!Next]_Demo!vars => DemoIInv'
    BY <1>1, DemoStep
<1>4. DemoIInv => Demo!AssertionsHold
    BY DEF DemoIInv
<1> QED
    BY <1>2, <1>3, <1>4, PTL DEF Demo!Spec

=============================================================================

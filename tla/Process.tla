------------------------------ MODULE Process -------------------------------
(***************************************************************************)
(* The gateway's process (src/main.rs): it starts to serve, gets SIGTERM   *)
(* or SIGINT at any time and then closes admission, stops accepting and    *)
(* drains within one grace period.  Of the gateway itself AdmissionContract *)
(* is assumed, and that its scheduler stops when nothing holds a slot      *)
(* (Gateway!StoppedIsDrained).  Beside it, the script that checks this,    *)
(* scripts/check_operations.py, with an upstream it can hold.              *)
(***************************************************************************)
EXTENDS Naturals, FiniteSets

CONSTANTS
    Requests,
    Watched     \* The request the script sends.

ASSUME ProcessAssumption == IsFiniteSet(Requests) /\ Watched \in Requests

VARIABLES
    main,       \* Where run is,
    code,       \* and the process's exit code.
    accepting, handling,    \* The server and the signal handler were polled.
    signalled, closing,
    connection, \* Of each request.
    script, graceful,       \* Where the script is; whether it lets go in time.
    released,   \* The upstream answers,
    expired,    \* and a deadline has passed before.
    held, started, verdict, limit   \* The gateway.

processVars == <<main, code, accepting, handling, signalled, closing, connection>>
scriptVars == <<script, graceful, released>>
gatewayVars == <<held, started, verdict, limit>>
vars == <<processVars, scriptVars, expired, gatewayVars>>

Gateway == INSTANCE AdmissionContract
    WITH Budgets <- {"reader", "owner"},
         BudgetOf <- [r \in Requests |->
                        IF r = Watched THEN "reader" ELSE "owner"],
         Resizable <- {}, Limits <- {},
         InitialLimit <- [b \in {"reader", "owner"} |-> 2]

NoCode == 255
Alive == main \notin {"exited", "killed", "aborted"}
InFlight == {r \in Requests : connection[r] \in {"sending", "received"}}

TypeOK ==
    /\ main \in {"bound", "announced", "closed", "draining", "stopping",
                 "exited", "killed", "aborted"}
    /\ code \in {0, 1, NoCode}
    /\ accepting \in BOOLEAN /\ handling \in BOOLEAN
    /\ signalled \in BOOLEAN /\ closing \in BOOLEAN
    /\ connection \in [Requests ->
            {"none", "sending", "received", "answered", "left", "broken"}]
    /\ script \in {"absent", "reads", "submits", "awaits", "signals", "releases",
                   "waits", "passed", "failed"}
    /\ graceful \in BOOLEAN /\ released \in BOOLEAN /\ expired \in BOOLEAN
    /\ Gateway!TypeOK
    /\ main # "exited" => code = NoCode
    /\ main \in {"draining", "stopping", "exited"} => closing /\ ~accepting
    /\ ~Alive => InFlight = {}

Init ==
    /\ main = "bound"
    /\ code = NoCode
    /\ accepting = FALSE /\ handling = FALSE
    /\ signalled = FALSE /\ closing = FALSE
    /\ connection = [r \in Requests |-> "none"]
    /\ script \in {"absent", "reads"} /\ graceful \in BOOLEAN
    /\ released = FALSE /\ expired = FALSE
    /\ Gateway!Init
-----------------------------------------------------------------------------
(* main.                                                                   *)

Announce ==
    /\ main = "bound"
    /\ main' = "announced"
    /\ UNCHANGED <<code, accepting, handling, signalled, closing, connection,
                   scriptVars, expired, gatewayVars>>

\* select! polls the server and the signals, in any order, and spawns
\* connections at once.
PollServer ==
    /\ main = "announced"
    /\ ~accepting
    /\ accepting' = TRUE
    /\ UNCHANGED <<main, code, handling, signalled, closing, connection,
                   scriptVars, expired, gatewayVars>>

\* The handlers are installed when shutdown_signal is first polled.
PollSignals ==
    /\ main = "announced"
    /\ ~handling
    /\ handling' = TRUE
    /\ UNCHANGED <<main, code, accepting, signalled, closing, connection,
                   scriptVars, expired, gatewayVars>>

CloseGateway ==
    /\ main = "announced"
    /\ signalled
    /\ main' = "closed"
    /\ closing' = TRUE
    /\ UNCHANGED <<code, accepting, handling, signalled, connection,
                   scriptVars, expired, gatewayVars>>

StopServer ==
    /\ main = "closed"
    /\ main' = "draining"
    /\ accepting' = FALSE
    /\ UNCHANGED <<code, handling, signalled, closing, connection,
                   scriptVars, expired, gatewayVars>>

\* Mutant: the server is told to stop and not waited for.
ServerNeverEnds ==
    /\ main = "draining"
    /\ main' = "stopping"
    /\ UNCHANGED <<code, accepting, handling, signalled, closing, connection,
                   scriptVars, expired, gatewayVars>>

\* server.await: the connections that were accepted are done.
ServerEnds ==
    /\ main = "draining"
    /\ InFlight = {}
    /\ main' = "stopping"
    /\ UNCHANGED <<code, accepting, handling, signalled, closing, connection,
                   scriptVars, expired, gatewayVars>>

\* Connections break, and what holds a slot stays without an outcome.
Ends(how, exit, judged) ==
    /\ main' = how
    /\ code' = exit
    /\ accepting' = FALSE
    /\ connection' = [r \in Requests |->
                        IF r \in InFlight THEN "broken" ELSE connection[r]]
    /\ script' = judged
    /\ UNCHANGED <<handling, closing, graceful, released, gatewayVars>>

\* Mutant: work whose caller has left is not waited for either.
ExitAtOnce ==
    /\ main = "stopping"
    /\ Ends("exited", 0, script)
    /\ UNCHANGED <<signalled, expired>>

\* gateway.shutdown.
Exit ==
    /\ main = "stopping"
    /\ held = {}
    /\ Ends("exited", 0, script)
    /\ UNCHANGED <<signalled, expired>>

\* Mutant: the deadline is only for the gateway.
ExpireStopping ==
    /\ main = "stopping"
    /\ Ends("exited", 1, script)
    /\ expired' = TRUE
    /\ UNCHANGED signalled

\* The grace deadline covers HTTP and the scheduler.
Expire ==
    /\ main \in {"draining", "stopping"}
    /\ Ends("exited", 1, script)
    /\ expired' = TRUE
    /\ UNCHANGED signalled

Main ==
    \/ Announce \/ PollServer \/ PollSignals
    \/ CloseGateway \/ StopServer \/ ServerEnds \/ Exit
-----------------------------------------------------------------------------
(* The others: a supervisor, clients and the gateway.                      *)

\* Without a handler the signal's default action ends the process.
Terminated ==
    /\ Alive
    /\ ~signalled
    /\ signalled' = TRUE
    /\ IF handling
       THEN UNCHANGED <<main, code, accepting, handling, closing, connection,
                        released, graceful, gatewayVars>>
       ELSE Ends("killed", NoCode, script')
    /\ UNCHANGED expired

Signal == script = "absent" /\ UNCHANGED script /\ Terminated

Becomes(r, phase) ==
    /\ connection' = [connection EXCEPT ![r] = phase]
    /\ UNCHANGED <<main, code, accepting, handling, signalled, closing>>

Connect(r) ==
    /\ accepting
    /\ connection[r] = "none"
    /\ r # Watched
    /\ Becomes(r, "sending")
    /\ UNCHANGED <<scriptVars, expired, gatewayVars>>

\* A client may also never send the whole of its request.
Receive(r) ==
    /\ connection[r] = "sending"
    /\ Becomes(r, "received")
    /\ UNCHANGED <<scriptVars, expired, gatewayVars>>

Respond(r) ==
    /\ connection[r] = "received"
    /\ verdict[r] # "none"
    /\ Becomes(r, "answered")
    /\ UNCHANGED <<scriptVars, expired, gatewayVars>>

Leave(r) ==
    /\ connection[r] \in {"sending", "received"}
    /\ r # Watched
    /\ Becomes(r, "left")
    /\ UNCHANGED <<scriptVars, expired, gatewayVars>>

\* Whoever comes after close is refused; the script has its own budget of two.
Admit(r) ==
    /\ connection[r] = "received"
    /\ \/ ~closing /\ Gateway!Admit(r) /\ held' = held \union {r}
                   /\ verdict' = verdict
       \/ /\ r # Watched
          /\ r \notin held \union started
          /\ verdict[r] = "none"
          /\ verdict' = [verdict EXCEPT ![r] = "not_started"]
          /\ UNCHANGED <<held, started, limit>>
    /\ UNCHANGED expired

\* A waiting request, or an execution, takes too long.
Overrun(r) ==
    /\ \/ Gateway!Lose(r) /\ verdict'[r] = "unknown"
       \/ /\ r \in held \ started
          /\ held' = held \ {r}
          /\ verdict' = [verdict EXCEPT ![r] = "not_started"]
          /\ UNCHANGED <<started, limit>>
    /\ expired' = TRUE

\* The script's upstream answers, with success, when it is released or after
\* five seconds; other work is done by itself.
Work(r) ==
    \/ Gateway!Start(r) /\ UNCHANGED expired
    \/ /\ Gateway!Free(r)
       /\ expired' = (expired \/ (r = Watched /\ ~released))
    \/ /\ Gateway!Answer(r)
       /\ r = Watched => verdict'[r] = "completed"
       /\ UNCHANGED expired

GatewayStep(r) ==
    /\ Alive
    /\ Admit(r) \/ Overrun(r) \/ Work(r)
    /\ UNCHANGED <<processVars, scriptVars>>
-----------------------------------------------------------------------------
(* check_operations.py.                                                    *)

Script(from, to) == script = from /\ script' = to

Submit ==
    /\ \/ Script("reads", "submits") /\ main # "bound" /\ UNCHANGED connection
       \/ /\ Script("submits", "awaits")
          /\ accepting
          /\ connection' = [connection EXCEPT ![Watched] = "sending"]
    /\ UNCHANGED <<main, code, accepting, handling, signalled, closing, graceful,
                   released, expired, gatewayVars>>

\* The upstream's handler runs.
UpstreamStarts ==
    /\ Script("awaits", "signals")
    /\ Watched \in started
    /\ UNCHANGED <<processVars, graceful, released, expired, gatewayVars>>

Send == Script("signals", IF graceful THEN "releases" ELSE "waits") /\ Terminated

Release ==
    /\ Script("releases", "waits")
    /\ released' = TRUE
    /\ UNCHANGED <<processVars, graceful, expired, gatewayVars>>

Judge ==
    /\ script = "waits"
    /\ ~Alive
    /\ script' = IF IF graceful
                    THEN /\ connection[Watched] = "answered"
                         /\ verdict[Watched] = "completed"
                         /\ code = 0
                    ELSE code = 1
                 THEN "passed"
                 ELSE "failed"
    /\ UNCHANGED <<processVars, graceful, released, expired, gatewayVars>>

\* One of the script's own deadlines passes: it kills the process.
GiveUp ==
    /\ script \in {"reads", "submits", "awaits", "waits"}
    /\ Alive
    /\ Ends("aborted", NoCode, "failed")
    /\ expired' = TRUE
    /\ UNCHANGED signalled

CheckOperations == GiveUp \/ Submit \/ UpstreamStarts \/ Send \/ Release \/ Judge

Next ==
    \/ Main \/ Expire
    \/ Signal
    \/ \E r \in Requests :
        \/ Connect(r) \/ Receive(r) \/ Respond(r) \/ Leave(r)
        \/ GatewayStep(r)
    \/ CheckOperations

Spec == Init /\ [][Next]_vars

\* main runs and its timer fires.  Nothing else is fair: clients may send
\* slowly, and work may take as long as it likes.
FairSpec == Spec /\ WF_vars(Main) /\ WF_vars(Expire)
-----------------------------------------------------------------------------
(* Properties.                                                             *)

\* "Drain accepted work until the grace deadline": a process that exits with
\* success has broken no connection and left no work behind, not even work
\* whose caller has gone, whichever requests came in while it was closing.
SuccessDrains ==
    code = 0 => held = {} /\ \A r \in Requests : connection[r] # "broken"

\* The script fails only for the reason it tests: if no deadline has passed
\* before its time, and the signal has not killed a process that was not waiting
\* for it yet, a released request is answered and the process exits with
\* success.  Of a script that passes it says nothing.
CheckIsSound ==
    script = "failed" => expired \/ main = "killed"

\* A process that was told to stop ends, whatever clients and upstreams do.
Stops == signalled ~> ~Alive
=============================================================================

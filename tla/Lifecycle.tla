----------------------------- MODULE Lifecycle -----------------------------
(***************************************************************************)
(* The life of daemon processes that share one endpoint, one state         *)
(* directory and one user: start-up, listening, serving, the stop sequence *)
(* and crashes (daemon/cmd/envorcad/main.go, api/ipc), driven by the CLI's *)
(* start and stop commands (cli/cmd/envorca/lifecycle.go) and by signals.  *)
(*                                                                         *)
(* On Unix the endpoint is a socket file: a name in the file system that   *)
(* anyone may remove and bind again while the socket it named lives on.    *)
(* On Windows it is a named pipe, which exists as long as a listener or a  *)
(* connection has one of its instances open.                               *)
(***************************************************************************)
EXTENDS Naturals, FiniteSets

CONSTANTS
    Daemons,    \* envorcad processes; an identity is used again once it is down
    Commands,   \* terminals in which envorca start and stop are typed
    Unary,      \* ordinary calls of other clients
    Streams,    \* StreamEvents calls of other clients
    Unix,       \* TRUE: socket file; FALSE: Windows named pipe
    SlowBoot,   \* TRUE: a daemon may need more than start's 15 seconds to boot
    None        \* no process

ASSUME LifecycleAssumption ==
    /\ Unix \in BOOLEAN
    /\ SlowBoot \in BOOLEAN
    /\ None \notin Daemons
    /\ Unary \cap Streams = {}

Calls == Unary \cup Streams

VARIABLES
    \* the machine
    path,       \* Unix: whose socket the file at the endpoint is
    pidFile,    \* whose pid envorca.pid holds
    \* each daemon
    pc,         \* how far run() has come
    listener,   \* the daemons whose listener is open
    db,         \* the daemons that have state.db open
    dstate,     \* dstate[d]: the lifecycle state Ping and GetStatus report
    signalled,  \* signalled[d]: a signal waits in sigCh
    \* gRPC
    handlers,   \* handlers[d]: calls whose handler runs in d
    conns,      \* conns[d]: calls whose client is connected to d
    \* the CLI
    cli,        \* cli[c]: what the command in terminal c is doing, or its outcome
    \* history
    unclean     \* some daemon died or gave up with its listener open

machine == <<path, pidFile>>
daemon  == <<pc, listener, db, dstate, signalled>>
rpc     == <<handlers, conns>>
vars    == <<path, pidFile, pc, listener, db, dstate, signalled,
             handlers, conns, cli, unclean>>

Init ==
    /\ path = None
    /\ pidFile = None
    /\ pc = [d \in Daemons |-> "down"]
    /\ listener = {}
    /\ db = {}
    /\ dstate = [d \in Daemons |-> "running"]
    /\ signalled = [d \in Daemons |-> FALSE]
    /\ handlers = [d \in Daemons |-> {}]
    /\ conns = [d \in Daemons |-> {}]
    /\ cli = [c \in Commands |-> "idle"]
    /\ unclean = FALSE

Goto(d, label) == pc' = [pc EXCEPT ![d] = label]

\* A new connection gets through to d, and d answers it.
Answers(d) == pc[d] = "serving" /\ (Unix => path = d)

\* Windows: d keeps an instance of the pipe, so that the name exists.
HoldsPipe(d) == d \in listener \/ conns[d] # {}

-----------------------------------------------------------------------------
(* Start-up, up to Serve                                                    *)

\* Configuration, log file, state.Open and Migrate: before the endpoint.
OpenState(d) ==
    /\ pc[d] = "booting"
    /\ Goto(d, "stateOpen")
    /\ db' = db \cup {d}
    /\ UNCHANGED <<machine, listener, dstate, signalled, rpc, cli, unclean>>

\* Any error on the way returns from run.
BootFails(d) ==
    /\ pc[d] \in {"booting", "stateOpen"}
    /\ Goto(d, "down")
    /\ db' = db \ {d}
    /\ UNCHANGED <<machine, listener, dstate, signalled, rpc, cli, unclean>>

\* Fault: a file at the endpoint, dead or alive, counts as a live daemon.
RefusedByFile(d) ==
    IF Unix THEN pc[d] \in {"stateOpen", "binding"} /\ path # None
    ELSE pc[d] = "stateOpen" /\ \E e \in Daemons : HoldsPipe(e)

\* The step of listen that d has come to finds the endpoint taken.  Unix: dial,
\* does anyone accept connections there (a file may be the socket of a dead
\* process, which accepts none), and bind, is there a file.  Windows: the
\* pipe is there.
Refused(d) ==
    \/ Unix /\ pc[d] = "stateOpen" /\ path \in listener
    \/ pc[d] = "binding" /\ path # None
    \/ ~Unix /\ pc[d] = "stateOpen" /\ \E e \in Daemons : HoldsPipe(e)

\* Unix listen, first step: the dial.
DialEndpoint(d) ==
    /\ Unix
    /\ pc[d] = "stateOpen"
    /\ IF Refused(d)
         THEN Goto(d, "down") /\ db' = db \ {d}
         ELSE Goto(d, "claiming") /\ db' = db
    /\ UNCHANGED <<machine, listener, dstate, signalled, rpc, cli, unclean>>

\* Unix listen, second step: os.Remove, whatever the file is by now.
RemoveEndpoint(d) ==
    /\ pc[d] = "claiming"
    /\ Goto(d, "binding")
    /\ path' = None
    /\ UNCHANGED <<pidFile, listener, db, dstate, signalled, rpc, cli, unclean>>

\* Unix listen, third step: net.Listen, which fails if the file exists again.
Bind(d) ==
    /\ pc[d] = "binding"
    /\ IF Refused(d)
         THEN /\ Goto(d, "down")
              /\ db' = db \ {d}
              /\ UNCHANGED <<path, listener>>
         ELSE /\ Goto(d, "bound")
              /\ path' = d
              /\ listener' = listener \cup {d}
              /\ db' = db
    /\ UNCHANGED <<pidFile, dstate, signalled, rpc, cli, unclean>>

\* Fault: only another listener counts, not the connections it leaves.
CreatePipeAnyway(d) ==
    /\ ~Unix
    /\ pc[d] = "stateOpen"
    /\ IF listener # {}
         THEN Goto(d, "down") /\ db' = db \ {d} /\ listener' = listener
         ELSE Goto(d, "bound") /\ listener' = listener \cup {d} /\ db' = db
    /\ UNCHANGED <<machine, dstate, signalled, rpc, cli, unclean>>

\* Windows listen: the pipe is created in one step, if no instance exists.
CreatePipe(d) ==
    /\ ~Unix
    /\ pc[d] = "stateOpen"
    /\ IF Refused(d)
         THEN Goto(d, "down") /\ db' = db \ {d} /\ listener' = listener
         ELSE Goto(d, "bound") /\ listener' = listener \cup {d} /\ db' = db
    /\ UNCHANGED <<machine, dstate, signalled, rpc, cli, unclean>>

\* Fault: leftovers at the endpoint are removed after listening.
ServeAndTidy(d) ==
    /\ pc[d] = "bound"
    /\ Goto(d, "serving")
    /\ path' = None
    /\ pidFile' = d
    /\ UNCHANGED <<listener, db, dstate, signalled, rpc, cli, unclean>>

\* The pid file is written and Serve begins to accept.
Serve(d) ==
    /\ pc[d] = "bound"
    /\ Goto(d, "serving")
    /\ pidFile' = d
    /\ UNCHANGED <<path, listener, db, dstate, signalled, rpc, cli, unclean>>

\* Fault: this return does not pass by the deferred db.Close.
PidFailsLeaking(d) ==
    /\ pc[d] = "bound"
    /\ Goto(d, "down")
    /\ listener' = listener \ {d}
    /\ unclean' = TRUE
    /\ UNCHANGED <<machine, db, dstate, signalled, rpc, cli>>

\* The pid file cannot be written: run returns without closing the listener,
\* and the process end closes it without removing the socket file.
PidFails(d) ==
    /\ pc[d] = "bound"
    /\ Goto(d, "down")
    /\ listener' = listener \ {d}
    /\ db' = db \ {d}
    /\ unclean' = TRUE
    /\ UNCHANGED <<machine, dstate, signalled, rpc, cli>>

-----------------------------------------------------------------------------
(* Calls                                                                    *)

\* A client connects to the endpoint and its handler starts.
Call(d, k) ==
    /\ Answers(d)
    /\ \A e \in Daemons : k \notin handlers[e]
    /\ handlers' = [handlers EXCEPT ![d] = @ \cup {k}]
    /\ conns' = [conns EXCEPT ![d] = @ \cup {k}]
    /\ UNCHANGED <<machine, daemon, cli, unclean>>

\* The client goes away, on a timeout or because it is interrupted; the
\* handler has yet to notice that its context is done.
HangUp(d, k) ==
    /\ k \in conns[d]
    /\ conns' = [conns EXCEPT ![d] = @ \ {k}]
    /\ UNCHANGED <<machine, daemon, handlers, cli, unclean>>

\* StreamEvents cannot return before its client is gone.
Held(d, k) == k \in Streams /\ k \in conns[d]

\* The handler returns, an ordinary one at any time.
Return(d, k) ==
    /\ k \in handlers[d]
    /\ ~Held(d, k)
    /\ handlers' = [handlers EXCEPT ![d] = @ \ {k}]
    /\ conns' = [conns EXCEPT ![d] = @ \ {k}]
    /\ UNCHANGED <<machine, daemon, cli, unclean>>

-----------------------------------------------------------------------------
(* The stop sequence                                                        *)

\* SIGINT or SIGTERM while run waits in its select.
Signal(d) ==
    /\ pc[d] = "serving"
    /\ ~signalled[d]
    /\ signalled' = [signalled EXCEPT ![d] = TRUE]
    /\ UNCHANGED <<machine, pc, listener, db, dstate, rpc, cli, unclean>>

\* The select in run has something to receive.
Told(d) == pc[d] = "serving" /\ (dstate[d] = "stopping" \/ signalled[d])

\* GracefulStop begins by closing the listener.  On Unix that also removes the
\* file at the endpoint, by its name.
Drain(d) ==
    /\ Goto(d, "draining")
    /\ listener' = listener \ {d}
    /\ path' = None
    /\ UNCHANGED <<pidFile, db, dstate, signalled, rpc, cli, unclean>>

\* Fault: a signal is not waited for.
StopOnShutdownOnly(d) == pc[d] = "serving" /\ dstate[d] = "stopping" /\ Drain(d)

Stop(d) == Told(d) /\ Drain(d)

\* Serve returns an error of its own accord.
ServeFails(d) == pc[d] = "serving" /\ Drain(d)

\* Fault: the stop waits for the connections, not for the handlers.
DrainedOfClients(d) ==
    /\ pc[d] = "draining"
    /\ conns[d] = {}
    /\ Goto(d, "drained")
    /\ UNCHANGED <<machine, listener, db, dstate, signalled, rpc, cli, unclean>>

\* GracefulStop returns once all pending calls are finished.
Drained(d) ==
    /\ pc[d] = "draining"
    /\ handlers[d] = {}
    /\ Goto(d, "drained")
    /\ UNCHANGED <<machine, listener, db, dstate, signalled, rpc, cli, unclean>>

\* ipc.Cleanup: on Unix, os.Remove of the endpoint once more.
Cleanup(d) ==
    /\ pc[d] = "drained"
    /\ Goto(d, "cleaned")
    /\ path' = None
    /\ UNCHANGED <<pidFile, listener, db, dstate, signalled, rpc, cli, unclean>>

CloseState(d) ==
    /\ pc[d] = "cleaned"
    /\ Goto(d, "stateClosed")
    /\ db' = db \ {d}
    /\ UNCHANGED <<machine, listener, dstate, signalled, rpc, cli, unclean>>

\* Fault: the pid file stays.
ExitLeavingPid(d) ==
    /\ pc[d] = "stateClosed"
    /\ Goto(d, "down")
    /\ UNCHANGED <<machine, listener, db, dstate, signalled, rpc, cli, unclean>>

\* The deferred removal of the pid file, then the end of the process.
Exit(d) ==
    /\ pc[d] = "stateClosed"
    /\ Goto(d, "down")
    /\ pidFile' = None
    /\ UNCHANGED <<path, listener, db, dstate, signalled, rpc, cli, unclean>>

\* The process is killed; the files stay.
Crash(d) ==
    /\ pc[d] # "down"
    /\ Goto(d, "down")
    /\ listener' = listener \ {d}
    /\ db' = db \ {d}
    /\ handlers' = [handlers EXCEPT ![d] = {}]
    /\ conns' = [conns EXCEPT ![d] = {}]
    /\ unclean' = TRUE
    /\ UNCHANGED <<machine, dstate, signalled, cli>>

-----------------------------------------------------------------------------
(* envorca start and envorca stop                                           *)

Outcomes == {"idle", "already running", "started", "not started",
             "not running", "stopped", "not stopped"}

Booting == {"booting", "stateOpen", "claiming", "binding", "bound"}

\* start: the probe is answered.
StartFinds(c) ==
    /\ cli[c] \in Outcomes
    /\ \E d \in Daemons : Answers(d)
    /\ cli' = [cli EXCEPT ![c] = "already running"]
    /\ UNCHANGED <<machine, daemon, rpc, unclean>>

\* start: it is not, and a daemon is spawned, detached.
StartSpawns(c) ==
    /\ cli[c] \in Outcomes
    /\ ~ \E d \in Daemons : Answers(d)
    /\ cli' = [cli EXCEPT ![c] = "waiting"]
    /\ \E d \in Daemons :
        /\ pc[d] = "down"
        /\ Goto(d, "booting")
        /\ dstate' = [dstate EXCEPT ![d] = "running"]
        /\ signalled' = [signalled EXCEPT ![d] = FALSE]
    /\ UNCHANGED <<machine, listener, db, rpc, unclean>>

\* start: one of the probes that follow is answered, by whichever daemon.
StartSucceeds(c) ==
    /\ cli[c] = "waiting"
    /\ \E d \in Daemons : Answers(d)
    /\ cli' = [cli EXCEPT ![c] = "started"]
    /\ UNCHANGED <<machine, daemon, rpc, unclean>>

\* start: none is within 15 seconds.
StartGivesUp(c) ==
    /\ cli[c] = "waiting"
    /\ SlowBoot \/ \A d \in Daemons : pc[d] \notin Booting
    /\ cli' = [cli EXCEPT ![c] = "not started"]
    /\ UNCHANGED <<machine, daemon, rpc, unclean>>

\* stop: the probe.
StopProbes(c) ==
    /\ cli[c] \in Outcomes
    /\ cli' = [cli EXCEPT ![c] = IF \E d \in Daemons : Answers(d)
                                   THEN "stopping" ELSE "not running"]
    /\ UNCHANGED <<machine, daemon, rpc, unclean>>

\* stop: the Shutdown call, handled by whoever answers now.
Shutdown(c) ==
    /\ cli[c] = "stopping"
    /\ \E d \in Daemons :
        /\ Answers(d)
        /\ dstate' = [dstate EXCEPT ![d] = "stopping"]
    /\ cli' = [cli EXCEPT ![c] = "stopped"]
    /\ UNCHANGED <<machine, pc, listener, db, signalled, rpc, unclean>>

\* stop: nobody answers any more.
ShutdownFails(c) ==
    /\ cli[c] = "stopping"
    /\ ~ \E d \in Daemons : Answers(d)
    /\ cli' = [cli EXCEPT ![c] = "not stopped"]
    /\ UNCHANGED <<machine, daemon, rpc, unclean>>

-----------------------------------------------------------------------------
\* What run does by itself, once it has been started or told to stop.
Boot(d) ==
    \/ OpenState(d)
    \/ DialEndpoint(d)
    \/ RemoveEndpoint(d)
    \/ Bind(d)
    \/ CreatePipe(d)
    \/ Serve(d)

Wind(d) ==
    \/ Stop(d)
    \/ Drained(d)
    \/ Cleanup(d)
    \/ CloseState(d)
    \/ Exit(d)

Mishap(d) == BootFails(d) \/ PidFails(d) \/ ServeFails(d) \/ Crash(d)

Command(c) ==
    \/ StartFinds(c)
    \/ StartSpawns(c)
    \/ StartSucceeds(c)
    \/ StartGivesUp(c)
    \/ StopProbes(c)
    \/ Shutdown(c)
    \/ ShutdownFails(c)

Next ==
    \/ \E d \in Daemons : Boot(d) \/ Wind(d) \/ Signal(d) \/ Mishap(d)
    \/ \E d \in Daemons, k \in Calls : Call(d, k) \/ HangUp(d, k) \/ Return(d, k)
    \/ \E c \in Commands : Command(c)

Spec == Init /\ [][Next]_vars

\* A process that can run runs; handlers of ordinary calls return; a handler
\* whose client is gone returns.  Nobody has to call, to hang up or to type.
Runs(d)       == WF_vars(Boot(d)) /\ WF_vars(Wind(d))
Returns(d, k) == WF_vars(Return(d, k))

Fairness ==
    /\ \A d \in Daemons : Runs(d)
    /\ \A d \in Daemons, k \in Calls : Returns(d, k)

\* The clients of event streams disconnect in the end.
HangsUp(d, k) == WF_vars(HangUp(d, k))
StreamsEnd    == \A d \in Daemons, k \in Streams : HangsUp(d, k)

FairSpec   == Spec /\ Fairness
EndingSpec == Spec /\ Fairness /\ StreamsEnd

-----------------------------------------------------------------------------
(* Properties                                                               *)

Labels == Booting \cup {"down", "serving", "draining", "drained", "cleaned", "stateClosed"}

\* Every variable holds a value of its type, and what a daemon holds follows
\* from how far run has come: the listener from listen to GracefulStop, the
\* database from state.Open to db.Close.  (main.go run, ipc, lifecycle.go)
TypeOK ==
    /\ path \in Daemons \cup {None}
    /\ pidFile \in Daemons \cup {None}
    /\ pc \in [Daemons -> Labels]
    /\ listener \subseteq Daemons
    /\ db \subseteq Daemons
    /\ dstate \in [Daemons -> {"running", "stopping"}]
    /\ signalled \in [Daemons -> BOOLEAN]
    /\ handlers \in [Daemons -> SUBSET Calls]
    /\ conns \in [Daemons -> SUBSET Calls]
    /\ cli \in [Commands -> Outcomes \cup {"waiting", "stopping"}]
    /\ unclean \in BOOLEAN
    /\ listener = {d \in Daemons : pc[d] \in {"bound", "serving"}}
    /\ db = {d \in Daemons : pc[d] \notin {"down", "booting", "stateClosed"}}

\* No handler runs after its daemon has closed state.db.  (the order of
\* GracefulStop and db.Close in stop, main.go)
NoCallOnClosedState ==
    \A d \in Daemons : handlers[d] # {} => d \in db

\* Windows: all connected clients talk to one daemon, the one that listens if
\* any does, even while an older one drains.  (pipe_windows.go listen)
OneAuthority == \A d, e \in Daemons : HoldsPipe(d) /\ HoldsPipe(e) => d = e

\* A daemon that serves can be reached at the endpoint, whoever else comes or
\* goes.  (listen and cleanup in socket_unix.go, stop in main.go)
ServingIsReachable == \A d \in Daemons : pc[d] = "serving" => Answers(d)

\* When every daemon has gone in good order, no socket file, no pid file and
\* no open database is left, however their lives overlapped.  (the stop
\* sequence and the deferred calls of run)
LeavesNoTrace ==
    (~unclean /\ \A d \in Daemons : pc[d] = "down") =>
        path = None /\ pidFile = None /\ db = {}

\* A daemon told to stop, by Shutdown or a signal, ends.  (run's stop sequence)
StopCompletes ==
    \A d \in Daemons : Told(d) ~> pc[d] = "down"

\* No two processes are in the last two steps of listen at once.
ClaimsApart ==
    \A d, e \in Daemons : {pc[d], pc[e]} \subseteq {"claiming", "binding"} => d = e

\* No process listens on a socket file while another is still to remove it.
StopsApart ==
    Unix => ~ \E d, e \in Daemons :
                 pc[d] \in {"draining", "drained"} /\ pc[e] \in {"bound", "serving"}

\* Daemons that come and go one after the other, over crashes and failed boots,
\* are reached while they serve; so are daemons that overlap in any way but
\* two: in the last steps of listen, and one up while another drains.  (listen
\* and cleanup in socket_unix.go, stop in main.go)
ReachableWhenApart == [](ClaimsApart /\ StopsApart) => []ServingIsReachable

\* A daemon is refused the endpoint only by another process that is there: a
\* socket file left by a crash never stands in the way, unless two have been in
\* the last steps of listen at once.  (listen in socket_unix.go and
\* pipe_windows.go)
RefusedByTheLiving == \A d \in Daemons : Refused(d) => \E e \in Daemons \ {d} : pc[e] # "down"

RefusedOnlyByTheLiving == []ClaimsApart => []RefusedByTheLiving

\* What a daemon has to do with the pipe.
Stage(d) ==
    CASE pc[d] = "bound" -> "claimed"
      [] pc[d] = "serving" -> "open"
      [] pc[d] = "draining" /\ conns[d] # {} -> "closing"
      [] OTHER -> "none"

Pipe == INSTANCE Authority WITH
            stage   <- [d \in Daemons |-> Stage(d)],
            clients <- UNION {conns[d] : d \in Daemons}

\* Windows: daemons that boot, drain, die and are started again, in any order,
\* pass the pipe on as if it was claimed, opened, closed and left by one at a
\* time; nobody is ever connected to one that a newer one has replaced.
\* (pipe_windows.go listen, stop in main.go)
ImplementsAuthority == Pipe!Spec
=============================================================================

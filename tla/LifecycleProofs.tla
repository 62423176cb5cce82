-------------------------- MODULE LifecycleProofs --------------------------
(***************************************************************************)
(* Proofs about Lifecycle, for any number of processes, terminals and      *)
(* calls.  What a process holds is a function of how far run has come      *)
(* (the last two conjuncts of TypeOK); the other invariants follow from    *)
(* that and from which steps may give a process a handler, a connection or *)
(* a file; that on a named pipe the whole implements Authority follows     *)
(* from only one process having to do with the pipe.  The end is liveness: *)
(* a daemon that is told to stop goes on to its end, stage by stage, and   *)
(* the calls it waits for come back one by one.                            *)
(***************************************************************************)
EXTENDS Lifecycle, TLAPS

\* The steps of one daemon, and those of the calls it serves.
Step(d) == Boot(d) \/ Wind(d) \/ Signal(d) \/ Mishap(d)
CallStep(d, k) == Call(d, k) \/ HangUp(d, k) \/ Return(d, k)

\* Every reachable state is type-correct, and every process holds its listener
\* and its database exactly from the step that opens it to the one that closes it.
THEOREM TypeCorrect == Spec => []TypeOK
<1> USE DEF Labels, Booting, Calls, Outcomes
<1>1. Init => TypeOK
  <2> SUFFICES ASSUME Init PROVE TypeOK
    OBVIOUS
  <2>1. \A d \in Daemons : pc[d] = "down"
    BY DEF Init
  <2>2. listener = {d \in Daemons : pc[d] \in {"bound", "serving"}}
    BY <2>1 DEF Init
  <2>3. db = {d \in Daemons : pc[d] \notin {"down", "booting", "stateClosed"}}
    BY <2>1 DEF Init
  <2>4. handlers \in [Daemons -> SUBSET Calls] /\ conns \in [Daemons -> SUBSET Calls]
    BY DEF Init
  <2> QED
    BY <2>2, <2>3, <2>4 DEF Init, TypeOK
<1>2. TypeOK /\ [Next]_vars => TypeOK'
  <2> SUFFICES ASSUME TypeOK, [Next]_vars PROVE TypeOK'
    OBVIOUS
  <2> USE DEF TypeOK, Goto, machine, daemon, rpc
  <2>1. ASSUME NEW d \in Daemons, Boot(d) PROVE TypeOK'
    <3>1. CASE OpenState(d)
      BY <3>1 DEF OpenState
    <3>2. CASE DialEndpoint(d)
      BY <3>2 DEF DialEndpoint
    <3>3. CASE RemoveEndpoint(d)
      BY <3>3 DEF RemoveEndpoint
    <3>4. CASE Bind(d)
      <4>1. CASE path = None
        <5>1. /\ pc[d] = "binding" /\ pc' = [pc EXCEPT ![d] = "bound"]
              /\ path' = d /\ listener' = listener \cup {d} /\ db' = db
              /\ UNCHANGED <<pidFile, dstate, signalled, handlers, conns, cli, unclean>>
          BY <3>4, <4>1 DEF Bind, Refused
        <5>2. listener' = {e \in Daemons : pc'[e] \in {"bound", "serving"}}
          BY <5>1
        <5>3. db' = {e \in Daemons : pc'[e] \notin {"down", "booting", "stateClosed"}}
          BY <5>1
        <5>4. pc' \in [Daemons -> Labels]
          BY <5>1
        <5> QED
          BY <5>1, <5>2, <5>3, <5>4
      <4>2. CASE path # None
        BY <3>4, <4>2 DEF Bind, Refused
      <4> QED
        BY <4>1, <4>2
    <3>5. CASE CreatePipe(d)
      BY <3>5 DEF CreatePipe
    <3>6. CASE Serve(d)
      BY <3>6 DEF Serve
    <3> QED
      BY <2>1, <3>1, <3>2, <3>3, <3>4, <3>5, <3>6 DEF Boot
  <2>2. ASSUME NEW d \in Daemons, Wind(d) PROVE TypeOK'
    <3>1. CASE Stop(d)
      BY <3>1 DEF Stop, Told, Drain
    <3>2. CASE Drained(d)
      BY <3>2 DEF Drained
    <3>3. CASE Cleanup(d)
      BY <3>3 DEF Cleanup
    <3>4. CASE CloseState(d)
      BY <3>4 DEF CloseState
    <3>5. CASE Exit(d)
      BY <3>5 DEF Exit
    <3> QED
      BY <2>2, <3>1, <3>2, <3>3, <3>4, <3>5 DEF Wind
  <2>3. ASSUME NEW d \in Daemons, Signal(d) PROVE TypeOK'
    BY <2>3 DEF Signal
  <2>4. ASSUME NEW d \in Daemons, Mishap(d) PROVE TypeOK'
    <3>1. CASE BootFails(d)
      BY <3>1 DEF BootFails
    <3>2. CASE PidFails(d)
      BY <3>2 DEF PidFails
    <3>3. CASE ServeFails(d)
      BY <3>3 DEF ServeFails, Drain
    <3>4. CASE Crash(d)
      BY <3>4 DEF Crash
    <3> QED
      BY <2>4, <3>1, <3>2, <3>3, <3>4 DEF Mishap
  <2>5. ASSUME NEW d \in Daemons, NEW k \in Calls, CallStep(d, k) PROVE TypeOK'
    <3>1. CASE Call(d, k)
      BY <3>1 DEF Call
    <3>2. CASE HangUp(d, k)
      BY <3>2 DEF HangUp
    <3>3. CASE Return(d, k)
      BY <3>3 DEF Return
    <3> QED
      BY <2>5, <3>1, <3>2, <3>3 DEF CallStep
  <2>6. ASSUME NEW c \in Commands, Command(c) PROVE TypeOK'
    <3>1. CASE StartSpawns(c)
      BY <3>1 DEF StartSpawns
    <3>2. CASE Shutdown(c)
      BY <3>2 DEF Shutdown
    <3>3. CASE StartFinds(c) \/ StartSucceeds(c) \/ StartGivesUp(c) \/ StopProbes(c)
                 \/ ShutdownFails(c)
      BY <3>3 DEF StartFinds, StartSucceeds, StartGivesUp, StopProbes, ShutdownFails
    <3> QED
      BY <2>6, <3>1, <3>2, <3>3 DEF Command
  <2>7. CASE UNCHANGED vars
    BY <2>7 DEF vars
  <2> QED
    BY <2>1, <2>2, <2>3, <2>4, <2>5, <2>6, <2>7 DEF Next, CallStep
<1> QED
  BY <1>1, <1>2, PTL DEF Spec

-----------------------------------------------------------------------------
(* Calls                                                                    *)

\* Handlers run, and clients are connected, only while the daemon serves or
\* drains.
CallsInv ==
    \A d \in Daemons :
        handlers[d] \cup conns[d] # {} => pc[d] \in {"serving", "draining"}

\* A client is connected only while its handler runs.
ConnsInv == \A d \in Daemons : conns[d] \subseteq handlers[d]

THEOREM CallsOnlyWhileServing == Spec => [](CallsInv /\ ConnsInv)
<1>1. Init => CallsInv /\ ConnsInv
  BY DEF Init, CallsInv, ConnsInv
<1>2. TypeOK /\ CallsInv /\ ConnsInv /\ [Next]_vars => (CallsInv /\ ConnsInv)'
  <2> SUFFICES ASSUME TypeOK, CallsInv, ConnsInv, [Next]_vars
               PROVE  (CallsInv /\ ConnsInv)'
    OBVIOUS
  <2> USE DEF TypeOK, CallsInv, ConnsInv, Goto, machine, daemon, rpc
  <2>1. ASSUME NEW d \in Daemons, Boot(d) PROVE (CallsInv /\ ConnsInv)'
    BY <2>1 DEF Boot, OpenState, DialEndpoint, RemoveEndpoint, Bind, CreatePipe, Serve
  <2>2. ASSUME NEW d \in Daemons, Wind(d) PROVE (CallsInv /\ ConnsInv)'
    BY <2>2 DEF Wind, Stop, Drain, Drained, Cleanup, CloseState, Exit
  <2>3. ASSUME NEW d \in Daemons, Signal(d) \/ Mishap(d) PROVE (CallsInv /\ ConnsInv)'
    <3>1. CASE Crash(d)
      BY <3>1 DEF Crash
    <3>2. CASE ~Crash(d)
      BY <2>3, <3>2 DEF Signal, Mishap, BootFails, PidFails, ServeFails, Drain
    <3> QED
      BY <3>1, <3>2
  <2>4. ASSUME NEW d \in Daemons, NEW k \in Calls, CallStep(d, k)
        PROVE  (CallsInv /\ ConnsInv)'
    BY <2>4 DEF CallStep, Call, HangUp, Return, Answers
  <2>5. ASSUME NEW c \in Commands, Command(c) PROVE (CallsInv /\ ConnsInv)'
    <3>1. CASE StartSpawns(c)
      BY <3>1 DEF StartSpawns
    <3>2. CASE ~StartSpawns(c)
      BY <2>5, <3>2 DEF Command, StartFinds, StartSucceeds, StartGivesUp, StopProbes,
         Shutdown, ShutdownFails
    <3> QED
      BY <3>1, <3>2
  <2>6. CASE UNCHANGED vars
    BY <2>6 DEF vars
  <2> QED
    BY <2>1, <2>2, <2>3, <2>4, <2>5, <2>6 DEF Next, Step, CallStep
<1> QED
  BY <1>1, <1>2, TypeCorrect, PTL DEF Spec

\* No handler of any daemon ever runs with its database closed.
THEOREM CallsHaveState == Spec => []NoCallOnClosedState
<1>1. TypeOK /\ CallsInv => NoCallOnClosedState
  BY DEF TypeOK, CallsInv, NoCallOnClosedState
<1> QED
  BY <1>1, TypeCorrect, CallsOnlyWhileServing, PTL

-----------------------------------------------------------------------------
(* Windows                                                                  *)

\* The steps of the Unix listen are not taken.
PipeInv == \A d \in Daemons : pc[d] \notin {"claiming", "binding"}

LEMMA NoSocketSteps == ASSUME ~Unix PROVE Spec => []PipeInv
<1>1. Init => PipeInv
  BY DEF Init, PipeInv
<1>2. TypeOK /\ PipeInv /\ [Next]_vars => PipeInv'
  <2> SUFFICES ASSUME TypeOK, PipeInv, [Next]_vars PROVE PipeInv'
    OBVIOUS
  <2> USE DEF TypeOK, PipeInv, Goto, daemon
  <2>1. ASSUME NEW d \in Daemons, Step(d) PROVE PipeInv'
    <3>1. CASE Boot(d)
      BY <3>1 DEF Boot, OpenState, DialEndpoint, RemoveEndpoint, Bind, CreatePipe, Serve
    <3>2. CASE Wind(d)
      BY <3>2 DEF Wind, Stop, Drain, Drained, Cleanup, CloseState, Exit
    <3>3. CASE Signal(d) \/ Mishap(d)
      BY <3>3 DEF Signal, Mishap, BootFails, PidFails, ServeFails, Drain, Crash
    <3> QED
      BY <2>1, <3>1, <3>2, <3>3 DEF Step
  <2>2. ASSUME NEW d \in Daemons, NEW k \in Calls, CallStep(d, k) PROVE PipeInv'
    BY <2>2 DEF CallStep, Call, HangUp, Return
  <2>3. ASSUME NEW c \in Commands, Command(c) PROVE PipeInv'
    BY <2>3 DEF Command, StartFinds, StartSpawns, StartSucceeds, StartGivesUp, StopProbes,
       Shutdown, ShutdownFails
  <2>4. CASE UNCHANGED vars
    BY <2>4 DEF vars
  <2> QED
    BY <2>1, <2>2, <2>3, <2>4 DEF Next, Step, CallStep
<1> QED
  BY <1>1, <1>2, TypeCorrect, PTL DEF Spec

\* Under a named pipe there is one authority at a time: no client is connected
\* to one daemon while another listens.
THEOREM PipeGivesOneAuthority == ASSUME ~Unix PROVE Spec => []OneAuthority
<1>1. Init => OneAuthority
  BY DEF Init, OneAuthority, HoldsPipe
<1>2. TypeOK /\ PipeInv /\ OneAuthority /\ [Next]_vars => OneAuthority'
  <2> SUFFICES ASSUME TypeOK, PipeInv, OneAuthority, [Next]_vars PROVE OneAuthority'
    OBVIOUS
  <2> USE DEF TypeOK, OneAuthority, Goto, machine, daemon, rpc
  <2>1. ASSUME NEW d \in Daemons, CreatePipe(d) PROVE OneAuthority'
    <3>1. CASE \E e \in Daemons : HoldsPipe(e)
      BY <2>1, <3>1 DEF CreatePipe, Refused, HoldsPipe
    <3>2. CASE ~ \E e \in Daemons : HoldsPipe(e)
      BY <2>1, <3>2 DEF CreatePipe, Refused, HoldsPipe
    <3> QED
      BY <3>1, <3>2
  <2>2. ASSUME \A e \in Daemons : HoldsPipe(e)' => HoldsPipe(e) PROVE OneAuthority'
    BY <2>2
  <2>3. ASSUME NEW d \in Daemons, Step(d), ~CreatePipe(d), NEW e \in Daemons, HoldsPipe(e)'
        PROVE  HoldsPipe(e)
    <3>1. CASE Boot(d)
      BY <2>3, <3>1 DEF PipeInv, Boot, OpenState, DialEndpoint, RemoveEndpoint, Bind,
         Serve, HoldsPipe
    <3>2. CASE Wind(d)
      BY <2>3, <3>2 DEF Wind, Stop, Drain, Drained, Cleanup, CloseState, Exit, HoldsPipe
    <3>3. CASE Signal(d) \/ Mishap(d)
      BY <2>3, <3>3 DEF Signal, Mishap, BootFails, PidFails, ServeFails, Drain, Crash, HoldsPipe
    <3> QED
      BY <2>3, <3>1, <3>2, <3>3 DEF Step
  <2>4. ASSUME NEW d \in Daemons, NEW k \in Calls, CallStep(d, k), NEW e \in Daemons, HoldsPipe(e)'
        PROVE  HoldsPipe(e)
    <3>1. CASE Call(d, k)
      <4>1. d \in listener
        BY <3>1 DEF Call, Answers
      <4> QED
        BY <2>4, <3>1, <4>1 DEF Call, HoldsPipe
    <3>2. CASE HangUp(d, k) \/ Return(d, k)
      BY <2>4, <3>2 DEF HangUp, Return, HoldsPipe
    <3> QED
      BY <2>4, <3>1, <3>2 DEF CallStep
  <2>5. ASSUME NEW c \in Commands, Command(c), NEW e \in Daemons, HoldsPipe(e)'
        PROVE  HoldsPipe(e)
    BY <2>5 DEF Command, StartFinds, StartSpawns, StartSucceeds, StartGivesUp, StopProbes,
       Shutdown, ShutdownFails, HoldsPipe
  <2>6. CASE UNCHANGED vars
    BY <2>6 DEF vars, HoldsPipe
  <2> QED
    BY <2>1, <2>2, <2>3, <2>4, <2>5, <2>6 DEF Next, Step, CallStep
<1> QED
  BY <1>1, <1>2, TypeCorrect, NoSocketSteps, PTL DEF Spec

-----------------------------------------------------------------------------
(* The pipe is passed on                                                    *)

Stages    == [d \in Daemons |-> Stage(d)]
Connected == UNION {conns[d] : d \in Daemons}

\* Who holds the pipe, and nobody else, has something to do with it.
OnlyHolder ==
    /\ \A d \in Daemons : HoldsPipe(d) <=> Stage(d) # "none"
    /\ \A d \in Daemons : HoldsPipe(d) => Connected = conns[d]
    /\ \A d, e \in Daemons : HoldsPipe(d) /\ d # e => Stage(e) = "none" /\ conns[e] = {}

LEMMA HolderIsAlone ==
    ASSUME TypeOK, CallsInv, OneAuthority
    PROVE  OnlyHolder
<1>1. \A d \in Daemons : HoldsPipe(d) <=> Stage(d) # "none"
  BY DEF TypeOK, CallsInv, HoldsPipe, Stage
<1>2. ASSUME NEW d \in Daemons, NEW e \in Daemons, HoldsPipe(d), d # e
      PROVE  Stage(e) = "none" /\ conns[e] = {}
  BY <1>1, <1>2 DEF OneAuthority, HoldsPipe
<1>3. ASSUME NEW d \in Daemons, HoldsPipe(d) PROVE Connected = conns[d]
  BY <1>2, <1>3 DEF Connected
<1> QED
  BY <1>1, <1>2, <1>3 DEF OnlyHolder

\* A step that moves only one daemon, and no connection.
LEMMA StageMoves ==
    ASSUME TypeOK, NEW d \in Daemons, NEW l, Goto(d, l), UNCHANGED conns
    PROVE  /\ Stages' = [Stages EXCEPT ![d] = Stage(d)']
           /\ Connected' = Connected
<1>1. \A e \in Daemons : e # d => Stage(e)' = Stage(e)
  BY DEF TypeOK, Goto, Stage
<1> QED
  BY <1>1 DEF Stages, Connected

LEMMA InitPipe == Init => Pipe!Init
BY DEF Init, Pipe!Init, Stage

PipeStep == Pipe!Next \/ (Stages' = Stages /\ Connected' = Connected)

LEMMA BootPasses ==
    ASSUME ~Unix, TypeOK, PipeInv, CallsInv, OnlyHolder, NEW d \in Daemons,
           Boot(d) \/ BootFails(d)
    PROVE  PipeStep
<1>1. CASE OpenState(d) \/ BootFails(d)
  <2>1. Stage(d)' = Stage(d)
    BY <1>1 DEF TypeOK, OpenState, BootFails, Goto, Stage
  <2>2. PICK l : Goto(d, l) /\ UNCHANGED conns
    BY <1>1 DEF OpenState, BootFails, rpc
  <2> QED
    BY <2>1, <2>2, StageMoves DEF PipeStep, Stages
<1>2. CASE CreatePipe(d)
  <2>1. CASE \E e \in Daemons : HoldsPipe(e)
    <3>1. Goto(d, "down") /\ UNCHANGED conns /\ pc[d] = "stateOpen"
      BY <1>2, <2>1 DEF CreatePipe, Refused, rpc
    <3>2. Stage(d)' = Stage(d)
      BY <3>1 DEF TypeOK, Goto, Stage
    <3> QED
      BY <3>1, <3>2, StageMoves DEF PipeStep, Stages
  <2>2. CASE ~ \E e \in Daemons : HoldsPipe(e)
    <3>1. Goto(d, "bound") /\ UNCHANGED conns
      BY <1>2, <2>2 DEF CreatePipe, Refused, rpc
    <3>2. Stage(d)' = "claimed"
      BY <3>1 DEF TypeOK, Goto, Stage
    <3>3. \A e \in Daemons : Stages[e] = "none"
      BY <2>2 DEF OnlyHolder, Stages
    <3>4. Pipe!Claim(d)
      BY <3>1, <3>2, <3>3, StageMoves DEF Pipe!Claim, Pipe!Move, Stages, Connected
    <3> QED
      BY <3>4 DEF PipeStep, Pipe!Next
  <2> QED
    BY <2>1, <2>2
<1>3. CASE Serve(d)
  <2>1. pc[d] = "bound" /\ Goto(d, "serving") /\ UNCHANGED conns
    BY <1>3 DEF Serve, rpc
  <2>2. Stage(d) = "claimed" /\ Stage(d)' = "open"
    BY <2>1 DEF TypeOK, Goto, Stage
  <2>3. Pipe!Open(d)
    BY <2>1, <2>2, StageMoves DEF Pipe!Open, Pipe!Move, Stages, Connected
  <2> QED
    BY <2>3 DEF PipeStep, Pipe!Next
<1> QED
  BY <1>1, <1>2, <1>3 DEF Boot, DialEndpoint, RemoveEndpoint, Bind, PipeInv

LEMMA DrainPasses ==
    ASSUME TypeOK, OnlyHolder, NEW d \in Daemons, pc[d] = "serving", Drain(d)
    PROVE  PipeStep
<1>1. Goto(d, "draining") /\ UNCHANGED conns
  BY DEF Drain, rpc
<1>2. HoldsPipe(d) /\ Stage(d) = "open"
  BY DEF TypeOK, HoldsPipe, Stage
<1>3. Stage(d)' = IF conns[d] = {} THEN "none" ELSE "closing"
  BY <1>1 DEF TypeOK, Goto, Stage
<1>4. Connected = conns[d]
  BY <1>2 DEF OnlyHolder
<1>5. Pipe!Close(d)
  BY <1>1, <1>2, <1>3, <1>4, StageMoves DEF Pipe!Close, Pipe!Move, Stages, Connected
<1> QED
  BY <1>5 DEF PipeStep, Pipe!Next

LEMMA WindPasses ==
    ASSUME TypeOK, CallsInv, ConnsInv, OnlyHolder, NEW d \in Daemons, Wind(d) \/ Signal(d)
    PROVE  PipeStep
<1>1. CASE Stop(d)
  BY <1>1, DrainPasses DEF Stop, Told
<1>2. CASE Drained(d)
  <2>1. Goto(d, "drained") /\ UNCHANGED conns /\ conns[d] = {} /\ pc[d] = "draining"
    BY <1>2 DEF Drained, rpc, ConnsInv
  <2>2. Stage(d)' = Stage(d)
    BY <2>1 DEF TypeOK, Goto, Stage
  <2> QED
    BY <2>1, <2>2, StageMoves DEF PipeStep, Stages
<1>3. CASE Cleanup(d) \/ CloseState(d) \/ Exit(d)
  <2>1. PICK l : Goto(d, l) /\ UNCHANGED conns
    BY <1>3 DEF Cleanup, CloseState, Exit, rpc
  <2>2. Stage(d)' = Stage(d)
    BY <1>3 DEF TypeOK, Cleanup, CloseState, Exit, Goto, Stage
  <2> QED
    BY <2>1, <2>2, StageMoves DEF PipeStep, Stages
<1>4. CASE Signal(d)
  BY <1>4 DEF Signal, rpc, PipeStep, Stages, Connected, Stage
<1> QED
  BY <1>1, <1>2, <1>3, <1>4 DEF Wind

\* The end of a daemon in disorder takes the connections to it along.
LEMMA DeathPasses ==
    ASSUME TypeOK, CallsInv, OnlyHolder, NEW d \in Daemons, Goto(d, "down"),
           conns' = [conns EXCEPT ![d] = {}]
    PROVE  PipeStep
<1>1. \A e \in Daemons : e # d => Stage(e)' = Stage(e)
  BY DEF TypeOK, Goto, Stage
<1>2. Stage(d)' = "none"
  BY DEF TypeOK, Goto, Stage
<1>3. Stages' = [Stages EXCEPT ![d] = "none"]
  BY <1>1, <1>2 DEF Stages
<1>4. CASE Stage(d) = "none"
  <2>1. conns[d] = {}
    BY <1>4 DEF OnlyHolder, HoldsPipe
  <2>2. conns' = conns
    BY <2>1 DEF TypeOK
  <2>3. Stages' = Stages
    BY <1>1, <1>2, <1>4 DEF Stages
  <2>4. Connected' = Connected
    BY <2>2 DEF Connected
  <2> QED
    BY <2>3, <2>4 DEF PipeStep
<1>5. CASE Stage(d) # "none"
  <2>1. \A e \in Daemons : conns'[e] = {}
    BY <1>5 DEF TypeOK, OnlyHolder
  <2>2. Connected' = {}
    BY <2>1 DEF Connected
  <2>3. Pipe!Fail(d)
    BY <1>3, <1>5, <2>2 DEF Pipe!Fail, Stages, Connected
  <2> QED
    BY <2>3 DEF PipeStep, Pipe!Next
<1> QED
  BY <1>4, <1>5

LEMMA MishapPasses ==
    ASSUME TypeOK, CallsInv, OnlyHolder, NEW d \in Daemons, Mishap(d), ~BootFails(d)
    PROVE  PipeStep
<1>1. CASE ServeFails(d)
  BY <1>1, DrainPasses DEF ServeFails
<1>2. CASE PidFails(d)
  <2>1. Goto(d, "down") /\ conns' = conns /\ pc[d] = "bound"
    BY <1>2 DEF PidFails, rpc
  <2>2. conns[d] = {}
    BY <2>1 DEF CallsInv
  <2>3. conns' = [conns EXCEPT ![d] = {}]
    BY <2>1, <2>2 DEF TypeOK
  <2> QED
    BY <2>1, <2>3, DeathPasses
<1>3. CASE Crash(d)
  BY <1>3, DeathPasses DEF Crash
<1> QED
  BY <1>1, <1>2, <1>3 DEF Mishap

\* A connection that is lost: the last one to a daemon that drains frees the pipe.
LEMMA LossPasses ==
    ASSUME TypeOK, OnlyHolder, NEW d \in Daemons, NEW k \in conns[d], UNCHANGED pc,
           conns' = [conns EXCEPT ![d] = @ \ {k}]
    PROVE  PipeStep
<1>1. HoldsPipe(d) /\ Connected = conns[d]
  BY DEF OnlyHolder, HoldsPipe
<1>2. \A e \in Daemons : e # d => conns[e] = {} /\ conns'[e] = {}
  BY <1>1 DEF OnlyHolder, TypeOK
<1>3. conns'[d] = conns[d] \ {k}
  BY DEF TypeOK
<1>4. Connected' = Connected \ {k} /\ k \in Connected
  BY <1>1, <1>2, <1>3 DEF Connected
<1>5. ASSUME NEW e \in Daemons
      PROVE  Stage(e)' = IF Stage(e) = "closing" /\ Connected = {k} THEN "none" ELSE Stage(e)
  <2>1. CASE e = d
    BY <1>1, <1>3, <2>1 DEF Stage
  <2>2. CASE e # d
    BY <1>2, <2>2 DEF Stage
  <2> QED
    BY <2>1, <2>2
<1>6. Pipe!Leave
  BY <1>4, <1>5 DEF Pipe!Leave, Stages, Connected
<1> QED
  BY <1>6 DEF PipeStep, Pipe!Next

LEMMA CallPasses ==
    ASSUME TypeOK, OnlyHolder, NEW d \in Daemons, NEW k \in Calls, CallStep(d, k)
    PROVE  PipeStep
<1>1. CASE Call(d, k)
  <2>1. /\ pc[d] = "serving" /\ UNCHANGED pc
        /\ conns' = [conns EXCEPT ![d] = @ \cup {k}]
    BY <1>1 DEF Call, Answers, daemon
  <2>2. \A e \in Daemons : e # d => conns'[e] = conns[e]
    BY <2>1 DEF TypeOK
  <2>3. conns'[d] = conns[d] \cup {k}
    BY <2>1 DEF TypeOK
  <2>4. Connected' = Connected \cup {k}
    BY <2>2, <2>3 DEF Connected
  <2>5. Stages' = Stages
    BY <2>1, <2>2 DEF Stages, Stage
  <2>6. Stages[d] = "open"
    BY <2>1 DEF Stages, Stage
  <2>7. Pipe!Join
    BY <2>4, <2>5, <2>6 DEF Pipe!Join, Stages, Connected
  <2> QED
    BY <2>7 DEF PipeStep, Pipe!Next
<1>2. CASE HangUp(d, k)
  BY <1>2, LossPasses DEF HangUp, daemon
<1>3. CASE Return(d, k)
  <2>1. UNCHANGED pc /\ conns' = [conns EXCEPT ![d] = @ \ {k}]
    BY <1>3 DEF Return, daemon
  <2>2. CASE k \in conns[d]
    BY <2>1, <2>2, LossPasses
  <2>3. CASE k \notin conns[d]
    <3>1. conns' = conns
      BY <2>1, <2>3 DEF TypeOK
    <3> QED
      BY <2>1, <3>1 DEF PipeStep, Stages, Stage, Connected
  <2> QED
    BY <2>2, <2>3
<1> QED
  BY <1>1, <1>2, <1>3 DEF CallStep

LEMMA CommandPasses ==
    ASSUME TypeOK, NEW c \in Commands, Command(c)
    PROVE  PipeStep
<1>1. CASE StartSpawns(c)
  <2>1. PICK d \in Daemons : pc[d] = "down" /\ Goto(d, "booting")
    BY <1>1 DEF StartSpawns
  <2>2. Stage(d)' = Stage(d) /\ UNCHANGED conns
    BY <1>1, <2>1 DEF TypeOK, StartSpawns, rpc, Goto, Stage
  <2> QED
    BY <2>1, <2>2, StageMoves DEF PipeStep, Stages
<1>2. CASE ~StartSpawns(c)
  <2>1. UNCHANGED <<pc, conns>>
    BY <1>2 DEF Command, StartFinds, StartSucceeds, StartGivesUp, StopProbes, Shutdown,
       ShutdownFails, daemon, rpc
  <2> QED
    BY <2>1 DEF PipeStep, Stages, Stage, Connected
<1> QED
  BY <1>1, <1>2

\* On a named pipe, any number of daemons and terminals do only what the
\* abstract authority allows.  (listen in pipe_windows.go, stop in main.go)
THEOREM PipeImplementsAuthority == ASSUME ~Unix PROVE Spec => ImplementsAuthority
<1>1. TypeOK /\ PipeInv /\ CallsInv /\ ConnsInv /\ OneAuthority /\ [Next]_vars
        => [Pipe!Next]_(Pipe!vars)
  <2> SUFFICES ASSUME TypeOK, PipeInv, CallsInv, ConnsInv, OnlyHolder, [Next]_vars
               PROVE  PipeStep
    BY HolderIsAlone DEF PipeStep, Pipe!vars, Stages, Connected
  <2>1. ASSUME NEW d \in Daemons, Step(d) PROVE PipeStep
    BY <2>1, BootPasses, WindPasses, MishapPasses DEF Step
  <2>2. ASSUME NEW d \in Daemons, NEW k \in Calls, CallStep(d, k) PROVE PipeStep
    BY <2>2, CallPasses
  <2>3. ASSUME NEW c \in Commands, Command(c) PROVE PipeStep
    BY <2>3, CommandPasses
  <2>4. CASE UNCHANGED vars
    BY <2>4 DEF vars, PipeStep, Stages, Stage, Connected
  <2> QED
    BY <2>1, <2>2, <2>3, <2>4 DEF Next, Step, CallStep
<1> QED
  BY <1>1, InitPipe, TypeCorrect, NoSocketSteps, CallsOnlyWhileServing, PipeGivesOneAuthority,
     PTL DEF Spec, ImplementsAuthority, Pipe!Spec

-----------------------------------------------------------------------------
(* What is left behind                                                      *)

\* As long as nothing has gone wrong, the socket file belongs to an open
\* listener, and the pid in the pid file to a daemon that has yet to exit.
TraceInv ==
    ~unclean =>
        /\ path \in listener \cup {None}
        /\ pidFile # None =>
             pc[pidFile] \in {"serving", "draining", "drained", "cleaned", "stateClosed"}

\* Daemons that end in good order leave nothing behind, on either platform and
\* however many of them overlap.
THEOREM GoodOrderLeavesNoTrace == Spec => []LeavesNoTrace
<1>1. Init => TraceInv
  BY LifecycleAssumption DEF Init, TraceInv
<1>2. TypeOK /\ TraceInv /\ [Next]_vars => TraceInv'
  <2> SUFFICES ASSUME TypeOK, TraceInv, [Next]_vars PROVE TraceInv'
    OBVIOUS
  <2> USE LifecycleAssumption DEF TypeOK, TraceInv, Goto, machine, daemon, rpc
  <2>1. ASSUME NEW d \in Daemons, Boot(d) PROVE TraceInv'
    <3>1. CASE OpenState(d) \/ DialEndpoint(d) \/ RemoveEndpoint(d) \/ CreatePipe(d)
      BY <3>1 DEF OpenState, DialEndpoint, RemoveEndpoint, CreatePipe
    <3>2. CASE Bind(d)
      BY <3>2 DEF Bind
    <3>3. CASE Serve(d)
      BY <3>3 DEF Serve
    <3> QED
      BY <2>1, <3>1, <3>2, <3>3 DEF Boot
  <2>2. ASSUME NEW d \in Daemons, Wind(d) PROVE TraceInv'
    <3>1. CASE Stop(d) \/ Drained(d) \/ Cleanup(d) \/ CloseState(d)
      BY <3>1 DEF Stop, Drain, Drained, Cleanup, CloseState
    <3>2. CASE Exit(d)
      BY <3>2 DEF Exit
    <3> QED
      BY <2>2, <3>1, <3>2 DEF Wind
  <2>3. ASSUME NEW d \in Daemons, Signal(d) \/ Mishap(d) PROVE TraceInv'
    <3>1. CASE Crash(d) \/ PidFails(d)
      BY <3>1 DEF Crash, PidFails
    <3>2. CASE Signal(d) \/ BootFails(d) \/ ServeFails(d)
      BY <3>2 DEF Signal, BootFails, ServeFails, Drain
    <3> QED
      BY <2>3, <3>1, <3>2 DEF Mishap
  <2>4. ASSUME NEW d \in Daemons, NEW k \in Calls, CallStep(d, k) PROVE TraceInv'
    BY <2>4 DEF CallStep, Call, HangUp, Return
  <2>5. ASSUME NEW c \in Commands, Command(c) PROVE TraceInv'
    <3>1. CASE StartSpawns(c)
      BY <3>1 DEF StartSpawns
    <3>2. CASE ~StartSpawns(c)
      BY <2>5, <3>2 DEF Command, StartFinds, StartSucceeds, StartGivesUp, StopProbes,
         Shutdown, ShutdownFails
    <3> QED
      BY <3>1, <3>2
  <2>6. CASE UNCHANGED vars
    BY <2>6 DEF vars
  <2> QED
    BY <2>1, <2>2, <2>3, <2>4, <2>5, <2>6 DEF Next, CallStep
<1>3. TypeOK /\ TraceInv => LeavesNoTrace
  BY LifecycleAssumption DEF TypeOK, TraceInv, LeavesNoTrace
<1> QED
  BY <1>1, <1>2, <1>3, TypeCorrect, PTL DEF Spec

-----------------------------------------------------------------------------
(* The socket file                                                          *)

\* What a process has found out about the file in listen is still true.
ClaimInv ==
    \A d \in Daemons :
        /\ pc[d] = "claiming" => Unix /\ path \notin listener
        /\ pc[d] = "binding"  => Unix /\ path = None

\* The file is its own as long as a process listens.
ReachInv == \A d \in Daemons : Unix /\ pc[d] \in {"bound", "serving"} => path = d

LEMMA InitClaim == Init => ClaimInv /\ ReachInv
  BY DEF Init, ClaimInv, ReachInv

LEMMA NextClaim ==
    ASSUME ClaimsApart, TypeOK, ClaimInv, [Next]_vars
    PROVE  ClaimInv'
<1> USE LifecycleAssumption DEF TypeOK, ClaimInv, Goto, machine, daemon, rpc
<1>1. ASSUME NEW d \in Daemons, Boot(d) PROVE ClaimInv'
  <2>1. CASE OpenState(d) \/ DialEndpoint(d) \/ Serve(d)
    BY <2>1 DEF OpenState, DialEndpoint, Refused, Serve
  <2>2. CASE CreatePipe(d)
    BY <2>2 DEF CreatePipe
  <2>3. CASE RemoveEndpoint(d)
    BY <2>3 DEF RemoveEndpoint
  <2>4. CASE Bind(d)
    <3>1. \A e \in Daemons \ {d} : pc[e] \notin {"claiming", "binding"}
      BY <2>4 DEF Bind, ClaimsApart
    <3>2. \A e \in Daemons : pc'[e] \notin {"claiming", "binding"}
      BY <2>4, <3>1 DEF Bind
    <3> QED
      BY <3>2
  <2> QED
    BY <1>1, <2>1, <2>2, <2>3, <2>4 DEF Boot
<1>2. ASSUME NEW d \in Daemons, Wind(d) PROVE ClaimInv'
  BY <1>2 DEF Wind, Stop, Drain, Drained, Cleanup, CloseState, Exit
<1>3. ASSUME NEW d \in Daemons, Signal(d) \/ Mishap(d) PROVE ClaimInv'
  BY <1>3 DEF Signal, Mishap, BootFails, PidFails, ServeFails, Drain, Crash
<1>4. ASSUME NEW d \in Daemons, NEW k \in Calls, CallStep(d, k) PROVE ClaimInv'
  BY <1>4 DEF CallStep, Call, HangUp, Return
<1>5. ASSUME NEW c \in Commands, Command(c) PROVE ClaimInv'
  <2>1. CASE StartSpawns(c)
    BY <2>1 DEF StartSpawns
  <2>2. CASE ~StartSpawns(c)
    BY <1>5, <2>2 DEF Command, StartFinds, StartSucceeds, StartGivesUp, StopProbes,
       Shutdown, ShutdownFails
  <2> QED
    BY <2>1, <2>2
<1>6. CASE UNCHANGED vars
  BY <1>6 DEF vars
<1> QED
  BY <1>1, <1>2, <1>3, <1>4, <1>5, <1>6 DEF Next, CallStep

LEMMA NextReach ==
    ASSUME StopsApart, TypeOK, ClaimInv, ReachInv, [Next]_vars
    PROVE  ReachInv'
<1> USE LifecycleAssumption DEF TypeOK, ReachInv, Goto, machine, daemon, rpc
<1>1. ASSUME NEW d \in Daemons, Boot(d) PROVE ReachInv'
  <2>1. CASE OpenState(d) \/ DialEndpoint(d) \/ Serve(d)
    BY <2>1 DEF OpenState, DialEndpoint, Serve
  <2>2. CASE CreatePipe(d)
    BY <2>2 DEF CreatePipe
  <2>3. CASE RemoveEndpoint(d)
    BY <2>3 DEF RemoveEndpoint, ClaimInv
  <2>4. CASE Bind(d)
    BY <2>4 DEF Bind, ClaimInv
  <2> QED
    BY <1>1, <2>1, <2>2, <2>3, <2>4 DEF Boot
<1>2. ASSUME NEW d \in Daemons, Drain(d), pc[d] = "serving" PROVE ReachInv'
  <2>1. Unix => \A e \in Daemons \ {d} : pc[e] \notin {"bound", "serving"}
    BY <1>2
  <2> QED
    BY <1>2, <2>1 DEF Drain
<1>3. ASSUME NEW d \in Daemons, Wind(d) PROVE ReachInv'
  <2>1. CASE Stop(d)
    BY <1>2, <2>1 DEF Stop, Told
  <2>2. CASE Cleanup(d)
    BY <2>2 DEF Cleanup, StopsApart
  <2>3. CASE Drained(d) \/ CloseState(d) \/ Exit(d)
    BY <2>3 DEF Drained, CloseState, Exit
  <2> QED
    BY <1>3, <2>1, <2>2, <2>3 DEF Wind
<1>4. ASSUME NEW d \in Daemons, Signal(d) \/ Mishap(d) PROVE ReachInv'
  <2>1. CASE ServeFails(d)
    BY <1>2, <2>1 DEF ServeFails
  <2>2. CASE ~ServeFails(d)
    BY <1>4, <2>2 DEF Signal, Mishap, BootFails, PidFails, Crash
  <2> QED
    BY <2>1, <2>2
<1>5. ASSUME NEW d \in Daemons, NEW k \in Calls, CallStep(d, k) PROVE ReachInv'
  BY <1>5 DEF CallStep, Call, HangUp, Return
<1>6. ASSUME NEW c \in Commands, Command(c) PROVE ReachInv'
  <2>1. CASE StartSpawns(c)
    BY <2>1 DEF StartSpawns
  <2>2. CASE ~StartSpawns(c)
    BY <1>6, <2>2 DEF Command, StartFinds, StartSucceeds, StartGivesUp, StopProbes,
       Shutdown, ShutdownFails
  <2> QED
    BY <2>1, <2>2
<1>7. CASE UNCHANGED vars
  BY <1>7 DEF vars
<1> QED
  BY <1>1, <1>3, <1>4, <1>5, <1>6, <1>7 DEF Next, CallStep

\* However many daemons there are and however they overlap otherwise, each that
\* serves can be reached, provided that no two claim the endpoint at once and,
\* with a socket file, none comes up while another goes down.  (listen and
\* cleanup in socket_unix.go)
THEOREM ApartIsReachable == Spec => ReachableWhenApart
<1>1. TypeOK /\ ReachInv => ServingIsReachable
  BY DEF ReachInv, ServingIsReachable, Answers
<1>2. ClaimsApart /\ TypeOK /\ ClaimInv /\ [Next]_vars => ClaimInv'
  BY NextClaim
<1>3. StopsApart /\ TypeOK /\ ClaimInv /\ ReachInv /\ [Next]_vars => ReachInv'
  BY NextReach
<1> QED
  BY <1>1, <1>2, <1>3, InitClaim, TypeCorrect, PTL DEF Spec, ReachableWhenApart

\* A daemon is refused the endpoint by a process that is there, never by the
\* file of one that has gone; two that claim the endpoint at once are the only
\* exception, on a socket file.  (listen in socket_unix.go and pipe_windows.go)
THEOREM ApartIsNotRefused == Spec => RefusedOnlyByTheLiving
<1>1. TypeOK /\ ClaimInv /\ CallsInv => RefusedByTheLiving
  <2> SUFFICES ASSUME TypeOK, ClaimInv, CallsInv, NEW d \in Daemons, Refused(d)
               PROVE  \E e \in Daemons \ {d} : pc[e] # "down"
    BY DEF RefusedByTheLiving
  <2> USE DEF TypeOK
  <2>1. CASE pc[d] = "stateOpen" /\ path \in listener
    <3>1. path \in Daemons \ {d} /\ pc[path] # "down"
      BY <2>1
    <3> QED
      BY <3>1
  <2>2. CASE pc[d] = "binding" /\ path # None
    BY <2>2 DEF ClaimInv
  <2>3. CASE pc[d] = "stateOpen" /\ \E e \in Daemons : HoldsPipe(e)
    <3>1. PICK e \in Daemons : HoldsPipe(e)
      BY <2>3
    <3>2. pc[e] \in {"bound", "serving", "draining"}
      BY <3>1 DEF HoldsPipe, CallsInv
    <3> QED
      BY <2>3, <3>2
  <2> QED
    BY <2>1, <2>2, <2>3 DEF Refused
<1>2. ClaimsApart /\ TypeOK /\ ClaimInv /\ [Next]_vars => ClaimInv'
  BY NextClaim
<1> QED
  BY <1>1, <1>2, InitClaim, TypeCorrect, CallsOnlyWhileServing, PTL
     DEF Spec, RefusedOnlyByTheLiving

\* A named pipe is not claimed in steps: no daemon is ever refused it but by a
\* living one, and each that serves is reached, however they overlap.
\* (listen in pipe_windows.go)
THEOREM PipeIsFair == ASSUME ~Unix PROVE Spec => []ServingIsReachable /\ []RefusedByTheLiving
<1>1. PipeInv => ClaimsApart /\ StopsApart
  BY DEF PipeInv, ClaimsApart, StopsApart
<1> QED
  BY <1>1, NoSocketSteps, ApartIsReachable, ApartIsNotRefused, PTL
     DEF ReachableWhenApart, RefusedOnlyByTheLiving

\* A daemon that lives after the other's end is reached and never refused,
\* whatever files crashes have left.
THEOREM AloneIsServed ==
    ASSUME \A d, e \in Daemons : d = e
    PROVE  Spec => []ServingIsReachable /\ []RefusedByTheLiving
<1>1. ClaimsApart /\ StopsApart
  BY DEF ClaimsApart, StopsApart
<1> QED
  BY <1>1, ApartIsReachable, ApartIsNotRefused, PTL
     DEF ReachableWhenApart, RefusedOnlyByTheLiving

-----------------------------------------------------------------------------
(* Stopping                                                                 *)

\* A step can be taken when its guard holds.  That is what ENABLED means for
\* these actions, which constrain nothing else; but no prover here knows
\* ENABLED, so the liveness theorems have it for a hypothesis.
GuardsSuffice ==
    \A d \in Daemons :
        /\ Told(d) => ENABLED <<Wind(d)>>_vars
        /\ pc[d] = "draining" /\ handlers[d] = {} => ENABLED <<Wind(d)>>_vars
        /\ pc[d] \in {"drained", "cleaned", "stateClosed"} => ENABLED <<Wind(d)>>_vars
        /\ \A k \in handlers[d] :
               /\ Held(d, k) => ENABLED <<HangUp(d, k)>>_vars
               /\ ~Held(d, k) => ENABLED <<Return(d, k)>>_vars

Live == EndingSpec /\ []GuardsSuffice

\* How far a daemon that stops has come.
Draining(d)  == pc[d] = "draining"
Drainless(d) == pc[d] = "drained"
Cleaned(d)   == pc[d] = "cleaned"
Closed(d)    == pc[d] = "stateClosed"
Gone(d)      == pc[d] = "down"

\* How far a call is that it waits for.
Out(d, k)    == k \notin handlers[d]
Bound(d, k)  == Draining(d) /\ ~Out(d, k) /\ Held(d, k)
Loose(d, k)  == Draining(d) /\ ~Out(d, k) /\ ~Held(d, k)
Empty(d)     == \A k \in Calls : Out(d, k)

\* Where a step takes them.
StopsOn(d) ==
    /\ Told(d) => Told(d)' \/ Draining(d)' \/ Gone(d)'
    /\ Draining(d) => Draining(d)' \/ Drainless(d)' \/ Gone(d)'
    /\ Drainless(d) => Drainless(d)' \/ Cleaned(d)' \/ Gone(d)'
    /\ Cleaned(d) => Cleaned(d)' \/ Closed(d)' \/ Gone(d)'
    /\ Closed(d) => Closed(d)' \/ Gone(d)'

LEMMA NextStopsOn ==
    ASSUME TypeOK, NEW d \in Daemons, [Next]_vars
    PROVE  StopsOn(d)
<1> USE DEF TypeOK, Told, Draining, Drainless, Cleaned, Closed, Gone, Goto, machine, daemon, rpc
<1>1. ASSUME UNCHANGED pc,
             dstate[d] = "stopping" => dstate'[d] = "stopping",
             signalled[d] => signalled'[d]
      PROVE  StopsOn(d)
  BY <1>1 DEF StopsOn
<1>2. ASSUME NEW e \in Daemons, Boot(e) PROVE StopsOn(d)
  <2>1. CASE e = d
    BY <1>2, <2>1 DEF StopsOn, Boot, OpenState, DialEndpoint, RemoveEndpoint, Bind, CreatePipe,
       Serve
  <2>2. CASE e # d
    <3>1. pc'[d] = pc[d] /\ UNCHANGED <<dstate, signalled>>
      BY <1>2, <2>2 DEF Boot, OpenState, DialEndpoint, RemoveEndpoint, Bind, CreatePipe, Serve
    <3> QED
      BY <3>1 DEF StopsOn
  <2> QED
    BY <2>1, <2>2
<1>3. ASSUME NEW e \in Daemons, Wind(e) \/ Mishap(e) PROVE StopsOn(d)
  <2>1. CASE e = d
    BY <1>3, <2>1 DEF StopsOn, Wind, Stop, Drain, Drained, Cleanup, CloseState, Exit, Mishap,
       BootFails, PidFails, ServeFails, Crash
  <2>2. CASE e # d
    <3>1. pc'[d] = pc[d] /\ UNCHANGED <<dstate, signalled>>
      BY <1>3, <2>2 DEF Wind, Stop, Drain, Drained, Cleanup, CloseState, Exit, Mishap,
         BootFails, PidFails, ServeFails, Crash
    <3> QED
      BY <3>1 DEF StopsOn
  <2> QED
    BY <2>1, <2>2
<1>4. ASSUME NEW e \in Daemons, Signal(e) PROVE StopsOn(d)
  BY <1>1, <1>4 DEF Signal
<1>5. ASSUME NEW e \in Daemons, NEW k \in Calls, CallStep(e, k) PROVE StopsOn(d)
  BY <1>1, <1>5 DEF CallStep, Call, HangUp, Return
<1>6. ASSUME NEW c \in Commands, Command(c) PROVE StopsOn(d)
  <2>1. CASE StartSpawns(c)
    BY <2>1 DEF StartSpawns, StopsOn
  <2>2. CASE Shutdown(c)
    BY <1>1, <2>2 DEF Shutdown
  <2>3. CASE ~StartSpawns(c) /\ ~Shutdown(c)
    BY <1>1, <1>6, <2>3 DEF Command, StartFinds, StartSucceeds, StartGivesUp, StopProbes,
       ShutdownFails
  <2> QED
    BY <2>1, <2>2, <2>3
<1>7. CASE UNCHANGED vars
  BY <1>1, <1>7 DEF vars
<1> QED
  BY <1>2, <1>3, <1>4, <1>5, <1>6, <1>7 DEF Next, CallStep

\* While a daemon drains nobody calls it, and nobody connects again.
DrainsOn(d, k) ==
    /\ Draining(d) /\ Out(d, k) /\ Draining(d)' => Out(d, k)'
    /\ Bound(d, k) => Bound(d, k)' \/ Loose(d, k)' \/ Out(d, k)' \/ ~Draining(d)'
    /\ Loose(d, k) => Loose(d, k)' \/ Out(d, k)' \/ ~Draining(d)'

LEMMA NextDrainsOn ==
    ASSUME TypeOK, NEW d \in Daemons, NEW k \in Calls, [Next]_vars
    PROVE  DrainsOn(d, k)
<1> USE DEF TypeOK, Draining, Out, Held, Bound, Loose, Goto, machine, daemon, rpc
<1>1. ASSUME handlers'[d] = handlers[d], conns'[d] = conns[d] PROVE DrainsOn(d, k)
  BY <1>1 DEF DrainsOn
<1>2. ASSUME NEW e \in Daemons, Boot(e) PROVE DrainsOn(d, k)
  BY <1>1, <1>2 DEF Boot, OpenState, DialEndpoint, RemoveEndpoint, Bind, CreatePipe, Serve
<1>3. ASSUME NEW e \in Daemons, Wind(e) \/ Signal(e) PROVE DrainsOn(d, k)
  BY <1>1, <1>3 DEF Wind, Stop, Drain, Drained, Cleanup, CloseState, Exit, Signal
<1>4. ASSUME NEW e \in Daemons, Mishap(e) PROVE DrainsOn(d, k)
  <2>1. CASE Crash(e)
    BY <2>1 DEF Crash, DrainsOn
  <2>2. CASE ~Crash(e)
    BY <1>1, <1>4, <2>2 DEF Mishap, BootFails, PidFails, ServeFails, Drain
  <2> QED
    BY <2>1, <2>2
<1>5. ASSUME NEW e \in Daemons, NEW j \in Calls, CallStep(e, j) PROVE DrainsOn(d, k)
  <2>1. CASE Call(e, j)
    <3>1. CASE e = d
      BY <2>1, <3>1 DEF Call, Answers, DrainsOn
    <3>2. CASE e # d
      BY <1>1, <2>1, <3>2 DEF Call
    <3> QED
      BY <3>1, <3>2
  <2>2. CASE HangUp(e, j)
    BY <2>2 DEF HangUp, DrainsOn
  <2>3. CASE Return(e, j)
    BY <2>3 DEF Return, DrainsOn
  <2> QED
    BY <1>5, <2>1, <2>2, <2>3 DEF CallStep
<1>6. ASSUME NEW c \in Commands, Command(c) PROVE DrainsOn(d, k)
  BY <1>1, <1>6 DEF Command, StartFinds, StartSpawns, StartSucceeds, StartGivesUp, StopProbes,
     Shutdown, ShutdownFails
<1>7. CASE UNCHANGED vars
  BY <1>1, <1>7 DEF vars
<1> QED
  BY <1>2, <1>3, <1>4, <1>5, <1>6, <1>7 DEF Next, CallStep

\* Their own steps take them on.
LEMMA OwnStepsStop ==
    ASSUME TypeOK, NEW d \in Daemons
    PROVE  /\ Told(d) /\ Wind(d) => Draining(d)'
           /\ Draining(d) /\ Wind(d) => Drainless(d)'
           /\ Drainless(d) /\ Wind(d) => Cleaned(d)'
           /\ Cleaned(d) /\ Wind(d) => Closed(d)'
           /\ Closed(d) /\ Wind(d) => Gone(d)'
           /\ \A k \in Calls : HangUp(d, k) => ~Held(d, k)'
           /\ \A k \in Calls : Return(d, k) => Out(d, k)'
<1> USE DEF TypeOK, Told, Draining, Drainless, Cleaned, Closed, Gone, Goto
<1>1. ASSUME NEW k \in Calls
      PROVE  (HangUp(d, k) => ~Held(d, k)') /\ (Return(d, k) => Out(d, k)')
  BY DEF HangUp, Return, Held, Out
<1>2. ASSUME Wind(d)
      PROVE  /\ Told(d) => Draining(d)'
             /\ Draining(d) => Drainless(d)'
             /\ Drainless(d) => Cleaned(d)'
             /\ Cleaned(d) => Closed(d)'
             /\ Closed(d) => Gone(d)'
  BY <1>2 DEF Wind, Stop, Drain, Drained, Cleanup, CloseState, Exit
<1> QED
  BY <1>1, <1>2

\* What each stage can take from GuardsSuffice.
LEMMA StopsAreEnabled ==
    ASSUME NEW d \in Daemons
    PROVE  GuardsSuffice =>
             /\ Told(d) => ENABLED <<Wind(d)>>_vars
             /\ Draining(d) /\ handlers[d] = {} => ENABLED <<Wind(d)>>_vars
             /\ Drainless(d) => ENABLED <<Wind(d)>>_vars
             /\ Cleaned(d) => ENABLED <<Wind(d)>>_vars
             /\ Closed(d) => ENABLED <<Wind(d)>>_vars
<1>1. GuardsSuffice =>
        /\ Told(d) => ENABLED <<Wind(d)>>_vars
        /\ pc[d] = "draining" /\ handlers[d] = {} => ENABLED <<Wind(d)>>_vars
        /\ pc[d] \in {"drained", "cleaned", "stateClosed"} => ENABLED <<Wind(d)>>_vars
  BY Zenon DEF GuardsSuffice
<1>2. Drainless(d) \/ Cleaned(d) \/ Closed(d) => pc[d] \in {"drained", "cleaned", "stateClosed"}
  BY DEF Drainless, Cleaned, Closed
<1> QED
  BY <1>1, <1>2, Zenon DEF Draining

LEMMA CallsAreEnabled ==
    ASSUME NEW d \in Daemons, NEW k \in Calls
    PROVE  GuardsSuffice =>
             /\ Bound(d, k) => ENABLED <<HangUp(d, k)>>_vars
             /\ Loose(d, k) => ENABLED <<Return(d, k)>>_vars
BY Zenon DEF GuardsSuffice, Bound, Loose, Out

\* A call that a daemon waits for when it stops comes back, and no call comes
\* in its place, provided that clients of event streams disconnect.
\* (GracefulStop, StreamEvents)
LEMMA CallComesBack ==
    ASSUME NEW d \in Daemons, NEW k \in Calls
    PROVE  Live => (Draining(d) ~> ~Draining(d) \/ Out(d, k))
<1>1. Draining(d) => Bound(d, k) \/ Loose(d, k) \/ Out(d, k)
  BY DEF Bound, Loose
<1>2. TypeOK /\ [Next]_vars => DrainsOn(d, k)
  BY NextDrainsOn
<1>3. GuardsSuffice =>
        /\ Bound(d, k) => ENABLED <<HangUp(d, k)>>_vars
        /\ Loose(d, k) => ENABLED <<Return(d, k)>>_vars
  BY CallsAreEnabled
<1>4. TypeOK /\ <<HangUp(d, k)>>_vars => ~Held(d, k)'
  BY OwnStepsStop
<1>5. TypeOK /\ <<Return(d, k)>>_vars => Out(d, k)'
  BY OwnStepsStop
<1>6. Fairness => Returns(d, k)
  BY DEF Fairness
<1>7. Live => (Bound(d, k) ~> Loose(d, k) \/ Out(d, k) \/ ~Draining(d))
  <2>1. CASE k \in Streams
    <3>1. StreamsEnd => HangsUp(d, k)
      BY <2>1 DEF StreamsEnd
    <3>2. ~Held(d, k)' => ~Bound(d, k)'
      BY DEF Bound
    <3> QED
      BY <1>2, <1>3, <1>4, <3>1, <3>2, TypeCorrect, PTL DEF Live, EndingSpec, Spec, HangsUp, DrainsOn
  <2>2. CASE k \notin Streams
    <3>1. ~Bound(d, k)
      BY <2>2 DEF Bound, Held
    <3> QED
      BY <3>1, PTL
  <2> QED
    BY <2>1, <2>2
<1>8. Live => (Loose(d, k) ~> Out(d, k) \/ ~Draining(d))
  <2>1. Out(d, k)' => ~Loose(d, k)'
    BY DEF Loose
  <2> QED
    BY <1>2, <1>3, <1>5, <1>6, <2>1, TypeCorrect, PTL DEF Live, EndingSpec, Spec, Returns, DrainsOn
<1> QED
  BY <1>1, <1>7, <1>8, PTL

\* Each call comes back, and stays away.  (GracefulStop, StreamEvents)
THEOREM CallsComeBack ==
    EndingSpec /\ []GuardsSuffice =>
        \A d \in Daemons, k \in Calls :
            <>[](pc[d] = "draining") => <>[](k \notin handlers[d])
<1> SUFFICES ASSUME NEW d \in Daemons, NEW k \in Calls
             PROVE  Live => (<>[]Draining(d) => <>[]Out(d, k))
  BY Zenon DEF Live, Draining, Out
<1>1. TypeOK /\ [Next]_vars => DrainsOn(d, k)
  BY NextDrainsOn
<1> QED
  BY <1>1, CallComesBack, TypeCorrect, PTL DEF Live, EndingSpec, Spec, DrainsOn

\* A daemon that is told to stop ends, or waits for calls for ever.
LEMMA OnlyCallsHoldItUp ==
    ASSUME NEW d \in Daemons
    PROVE  Live => (Told(d) ~> Gone(d) \/ [](Draining(d) /\ ~(handlers[d] = {})))
<1> DEFINE Idle == handlers[d] = {}
<1> HIDE DEF Idle
<1>1. TypeOK /\ [Next]_vars => StopsOn(d)
  BY NextStopsOn
<1>2. TypeOK =>
        /\ Told(d) /\ <<Wind(d)>>_vars => Draining(d)'
        /\ Draining(d) /\ <<Wind(d)>>_vars => Drainless(d)'
        /\ Drainless(d) /\ <<Wind(d)>>_vars => Cleaned(d)'
        /\ Cleaned(d) /\ <<Wind(d)>>_vars => Closed(d)'
        /\ Closed(d) /\ <<Wind(d)>>_vars => Gone(d)'
  BY OwnStepsStop, Zenon
<1>3. GuardsSuffice =>
        /\ Told(d) => ENABLED <<Wind(d)>>_vars
        /\ Draining(d) /\ Idle => ENABLED <<Wind(d)>>_vars
        /\ Drainless(d) => ENABLED <<Wind(d)>>_vars
        /\ Cleaned(d) => ENABLED <<Wind(d)>>_vars
        /\ Closed(d) => ENABLED <<Wind(d)>>_vars
  BY StopsAreEnabled, Zenon DEF Idle
<1>4. Fairness => Runs(d)
  BY DEF Fairness
<1>5. /\ Draining(d) => ~Told(d) /\ ~Drainless(d)
      /\ Drainless(d) => ~Cleaned(d)
      /\ Cleaned(d) => ~Closed(d)
      /\ Gone(d) => ~Told(d) /\ ~Draining(d) /\ ~Drainless(d) /\ ~Cleaned(d) /\ ~Closed(d)
  BY DEF Told, Draining, Drainless, Cleaned, Closed, Gone
<1>6. TypeOK /\ TypeOK' /\ [Next]_vars => (Draining(d) /\ Idle /\ Draining(d)' => Idle')
  <2> SUFFICES ASSUME TypeOK, TypeOK', [Next]_vars, Draining(d), Idle, Draining(d)' PROVE Idle'
    OBVIOUS
  <2>1. \A k \in Calls : k \notin handlers'[d]
    BY NextDrainsOn DEF DrainsOn, Out, Idle
  <2> QED
    BY <2>1 DEF TypeOK, Idle
<1>7. Live => (Told(d) ~> Draining(d) \/ Gone(d))
  BY <1>1, <1>2, <1>3, <1>4, <1>5, TypeCorrect, PTL DEF Live, EndingSpec, Spec, Runs, StopsOn
<1>8. Live => (Draining(d) /\ Idle ~> Drainless(d) \/ Gone(d))
  BY <1>1, <1>2, <1>3, <1>4, <1>5, <1>6, TypeCorrect, PTL DEF Live, EndingSpec, Spec, Runs, StopsOn
<1>9. Live => (Drainless(d) ~> Cleaned(d) \/ Gone(d))
  BY <1>1, <1>2, <1>3, <1>4, <1>5, TypeCorrect, PTL DEF Live, EndingSpec, Spec, Runs, StopsOn
<1>10. Live => (Cleaned(d) ~> Closed(d) \/ Gone(d))
  BY <1>1, <1>2, <1>3, <1>4, <1>5, TypeCorrect, PTL DEF Live, EndingSpec, Spec, Runs, StopsOn
<1>11. Live => (Closed(d) ~> Gone(d))
  BY <1>1, <1>2, <1>3, <1>4, <1>5, TypeCorrect, PTL DEF Live, EndingSpec, Spec, Runs, StopsOn
<1>12. Live => (Draining(d) ~> Drainless(d) \/ Gone(d) \/ [](Draining(d) /\ ~Idle))
  BY <1>1, <1>8, TypeCorrect, PTL DEF Live, EndingSpec, Spec, StopsOn
<1> QED
  BY <1>7, <1>9, <1>10, <1>11, <1>12, PTL DEF Idle

\* That each call of S stays away from some time on is enough for all of them
\* to stay away together from some time on.  It does, for any finite S.
StaysAway(d, k) == <>[](k \notin handlers[d])
TogetherOn(d, S) ==
    (\A k \in S : StaysAway(d, k))
        => <>[](\A k \in S : k \notin handlers[d])

LEMMA NoneTogether ==
    ASSUME NEW d \in Daemons
    PROVE  TogetherOn(d, {})
<1>1. \A k \in {} : k \notin handlers[d]
  OBVIOUS
<1> QED
  BY <1>1, PTL DEF TogetherOn

LEMMA OneMoreTogether ==
    ASSUME NEW d \in Daemons, NEW S, NEW j
    PROVE  TogetherOn(d, S) => TogetherOn(d, S \cup {j})
<1> DEFINE Away(k) == k \notin handlers[d]
           Each(T) == \A k \in T : StaysAway(d, k)
           All(T)  == \A k \in T : Away(k)
<1>1. Each(S \cup {j}) => Each(S) /\ StaysAway(d, j)
  OBVIOUS
<1>2. All(S) /\ Away(j) => All(S \cup {j})
  OBVIOUS
<1>3. StaysAway(d, j) => <>[]Away(j)
  BY DEF StaysAway
<1> HIDE DEF Away, Each, All
<1>4. (Each(S) => <>[]All(S)) => (Each(S \cup {j}) => <>[]All(S \cup {j}))
  BY <1>1, <1>2, <1>3, PTL
<1> QED
  BY <1>4 DEF TogetherOn, Away, Each, All

\* A daemon told to stop ends.  The first two hypotheses are those of the run;
\* the third is not about the daemon: by the two lemmas above it is true of any
\* finite number of calls, and only the induction is missing.  (run's stop
\* sequence)
THEOREM StopsComplete ==
    EndingSpec /\ []GuardsSuffice /\ (\A d \in Daemons : TogetherOn(d, Calls))
        => StopCompletes
<1> SUFFICES ASSUME NEW d \in Daemons
             PROVE  Live /\ TogetherOn(d, Calls) => (Told(d) ~> Gone(d))
  BY Zenon DEF Live, StopCompletes, Gone
<1>1. Live => \A k \in Calls : (<>[]Draining(d) => <>[](k \notin handlers[d]))
  BY CallsComeBack DEF Live, Draining
<1>2. Live /\ TogetherOn(d, Calls)
        => (<>[]Draining(d) => <>[](\A k \in Calls : k \notin handlers[d]))
  BY <1>1 DEF TogetherOn, StaysAway
<1>3. TypeOK /\ (\A k \in Calls : k \notin handlers[d]) => handlers[d] = {}
  BY DEF TypeOK
<1> QED
  BY <1>2, <1>3, OnlyCallsHoldItUp, TypeCorrect, PTL DEF Live, EndingSpec

\* With two calls, as in the run, the induction is two steps, and a daemon told
\* to stop ends.  (run's stop sequence)
THEOREM TwoCallsStop ==
    ASSUME NEW a, NEW b, Calls = {a, b}
    PROVE  EndingSpec /\ []GuardsSuffice => StopCompletes
<1>1. ASSUME NEW d \in Daemons
      PROVE  TogetherOn(d, Calls)
  <2>1. TogetherOn(d, ({} \cup {a}) \cup {b})
    BY NoneTogether, OneMoreTogether
  <2>2. ({} \cup {a}) \cup {b} = Calls
    OBVIOUS
  <2> QED
    BY <2>1, <2>2
<1> QED
  BY <1>1, StopsComplete
=============================================================================

------------------------------ MODULE Endpoint ------------------------------
(***************************************************************************)
(* Where a daemon listens and where a command looks for it.  Either side   *)
(* resolves the endpoint by itself, from the config file, ENVORCA_SOCKET   *)
(* and ENVORCA_STATE_DIR: the daemon when it boots                         *)
(* (daemon/internal/config/config.go), a command whenever it is run        *)
(* (cli/cmd/envorca/config.go), both through api/ipc.  The file may be     *)
(* edited in between, and terminals differ in their settings.              *)
(*                                                                         *)
(* Lifecycle has one endpoint and all that daemons do on their way to and  *)
(* from it.  Here are many, and of that way the steps in which daemons at  *)
(* one endpoint can meet: on a socket file the dial, the removal and the   *)
(* bind of listen, and the two removals of a stop.                         *)
(***************************************************************************)
EXTENDS Naturals

CONSTANTS
    Terminals,
    Home,       \* the platform's state directory
    Dirs,       \* the directories a setting may name
    Sockets,    \* the endpoints a setting may name
    Endpoints,  \* all sockets and pipes
    Platforms,  \* each gives the endpoint of a state directory
    SocketFiles,\* the platforms whose endpoints are socket files, not pipes
    None,       \* a setting that is not made
    MaxEdits    \* bound of the model: the config file is edited MaxEdits times

StateDirs == Dirs \cup {Home}

ASSUME EndpointAssumption ==
    /\ Sockets \subseteq Endpoints
    /\ Platforms \subseteq [StateDirs -> Endpoints]
    /\ SocketFiles \subseteq Platforms
    /\ None \notin StateDirs \cup Endpoints \cup Terminals
    /\ MaxEdits \in Nat

VARIABLES
    platform,   \* one of Platforms
    settings,   \* settings[t]: what terminal t sets
    file,       \* the config file
    edits,      \* how often it has been edited
    start,      \* start[t]: the envorca start that is polling in t
    daemon,     \* daemon[t]: the daemon started from t
    owner,      \* owner[e]: from where the daemon is whose socket the file at e is
    raced       \* history: the socket files at which daemons that are still
                \* around have met while they listened or drained

world == <<platform, settings, file, edits>>
names == <<owner, raced>>
vars  == <<world, start, daemon, names>>

Optional(S) == S \cup {None}

\* --config or ENVORCA_CONFIG, ENVORCA_SOCKET, ENVORCA_STATE_DIR
Setting == [config : BOOLEAN, socket : Optional(Sockets), dir : Optional(Dirs)]

\* Nobody can use a file that is "unreadable": not there, or not YAML.  The
\* daemon cannot use one that is "invalid" (types, log level) either; the CLI,
\* which looks at one field, can.
NoFile == [kind |-> "unreadable", socket |-> None, dir |-> None]
File   == {NoFile} \cup [kind : {"invalid", "valid"},
                         socket : Optional(Sockets), dir : Optional(Dirs)]

-----------------------------------------------------------------------------
(* The two resolutions                                                      *)

\* ENVORCA_STATE_DIR, or the platform's directory.
DefaultStateDir(v) == IF v.dir # None THEN v.dir ELSE Home

\* Fault: one socket for all state directories.
OneDefaultEndpoint(v, dir) == IF v.socket # None THEN v.socket ELSE platform[Home]

\* ENVORCA_SOCKET, or the platform's endpoint for the directory.
DefaultEndpoint(v, dir) == IF v.socket # None THEN v.socket ELSE platform[dir]

\* Where a command looks.  A file that it cannot read is passed over.
CommandEndpoint(v, f) ==
    IF v.config /\ f.socket # None THEN f.socket
    ELSE DefaultEndpoint(v, DefaultStateDir(v))

\* Load and logging.Level: a configured file has to be there and be valid.
Loads(v, f) == v.config => f.kind = "valid"

StateDir(v, f) == IF v.config /\ f.dir # None THEN f.dir ELSE DefaultStateDir(v)

\* Fault: the endpoint is derived from the default directory, as in the CLI.
OfDefaultDir(v, f) ==
    IF v.config /\ f.socket # None THEN f.socket
    ELSE DefaultEndpoint(v, DefaultStateDir(v))

\* Where the daemon listens.
DaemonEndpoint(v, f) ==
    IF v.config /\ f.socket # None THEN f.socket
    ELSE DefaultEndpoint(v, StateDir(v, f))

-----------------------------------------------------------------------------
(* Commands and daemons                                                     *)

NoDaemon == [phase |-> "none", file |-> NoFile, dir |-> None, endpoint |-> None]
NoStart  == [endpoint |-> None, file |-> NoFile]

Init ==
    /\ platform \in Platforms
    /\ settings \in [Terminals -> Setting]
    /\ file \in File
    /\ edits = 0
    /\ start = [t \in Terminals |-> NoStart]
    /\ daemon = [t \in Terminals |-> NoDaemon]
    /\ owner = [e \in Endpoints |-> None]
    /\ raced = {}

OnFiles == platform \in SocketFiles

At(u, e, phases) == daemon[u].phase \in phases /\ daemon[u].endpoint = e

\* The daemon of u has a listener open at e, and is who a client reaches there.
Serves(u, e)  == At(u, e, {"serving"})
Answers(u, e) == Serves(u, e) /\ (OnFiles => owner[e] = u)

Becomes(t, d)   == daemon' = [daemon EXCEPT ![t] = d]
Enters(t, ph)   == Becomes(t, [daemon[t] EXCEPT !.phase = ph])
NameBecomes(t, o) == owner' = [owner EXCEPT ![daemon[t].endpoint] = o]

\* What a command in t uses: start, while it polls, what it has resolved
\* before; any other, which may be run at any time, what it finds now.
Target(t) == IF start[t] # NoStart THEN start[t]
             ELSE [endpoint |-> CommandEndpoint(settings[t], file), file |-> file]

\* envorca start finds nobody and spawns a daemon, which inherits the settings.
\* (Bound of the model: a terminal has one daemon of its own at a time.)
Start(t) ==
    /\ start[t] = NoStart
    /\ daemon[t] = NoDaemon
    /\ \A u \in Terminals : ~Answers(u, Target(t).endpoint)
    /\ start' = [start EXCEPT ![t] = Target(t)]
    /\ Becomes(t, [NoDaemon EXCEPT !.phase = "spawned"])
    /\ UNCHANGED <<world, names>>

\* start reports the daemon that answers, or that none did in 15 seconds.
EndStart(t) ==
    /\ start[t] # NoStart
    /\ start' = [start EXCEPT ![t] = NoStart]
    /\ UNCHANGED <<world, daemon, names>>

\* Fault: the daemon goes on with the empty Config that comes with an error.
LoadAnyway(t) ==
    /\ daemon[t].phase = "spawned"
    /\ Becomes(t, [phase |-> "loaded", file |-> file,
                   dir |-> IF Loads(settings[t], file) THEN StateDir(settings[t], file) ELSE None,
                   endpoint |-> DaemonEndpoint(settings[t], file)])
    /\ UNCHANGED <<world, start, names>>

\* The daemon reads its configuration, or ends.
Load(t) ==
    /\ daemon[t].phase = "spawned"
    /\ Becomes(t, IF Loads(settings[t], file)
         THEN [phase |-> "loaded", file |-> file, dir |-> StateDir(settings[t], file),
               endpoint |-> DaemonEndpoint(settings[t], file)]
         ELSE NoDaemon)
    /\ UNCHANGED <<world, start, names>>

\* History: a daemon that begins to listen at e meets others that listen or
\* drain; where nobody is left at e, what was before is over.
RacedAfter(e) ==
    LET someone(phases) == \E u \in Terminals : At(u, e, phases) IN
    IF someone({"claiming", "binding", "draining"}) THEN raced \cup {e}
    ELSE IF someone({"serving"}) THEN raced
    ELSE raced \ {e}

\* Fault: nobody is asked; whatever is at the endpoint will be removed.
ClaimUnseen(t) ==
    /\ OnFiles
    /\ daemon[t].phase = "loaded"
    /\ Enters(t, "claiming")
    /\ UNCHANGED <<world, start, names>>

\* A daemon that has opened its state listens.  On a socket file it first asks
\* whether anybody accepts connections there, and ends if so.
Dial(t) ==
    LET e == daemon[t].endpoint IN
    /\ OnFiles
    /\ daemon[t].phase = "loaded"
    /\ IF \E u \in Terminals : Answers(u, e)
         THEN Becomes(t, NoDaemon) /\ raced' = raced
         ELSE /\ Enters(t, "claiming")
              /\ raced' = RacedAfter(e)
    /\ UNCHANGED <<world, start, owner>>

\* Then it removes the file, whatever that is by now,
Remove(t) ==
    /\ daemon[t].phase = "claiming"
    /\ Enters(t, "binding")
    /\ NameBecomes(t, None)
    /\ UNCHANGED <<world, start, raced>>

\* and makes one, unless there is one again.
Bind(t) ==
    /\ daemon[t].phase = "binding"
    /\ IF owner[daemon[t].endpoint] = None
         THEN Enters(t, "serving") /\ NameBecomes(t, t)
         ELSE Becomes(t, NoDaemon) /\ owner' = owner
    /\ UNCHANGED <<world, start, raced>>

\* A pipe is created in one step, if nobody has it open: a daemon that drains
\* may have, while a client of it is connected.
CreatePipe(t) ==
    LET e == daemon[t].endpoint IN
    /\ ~OnFiles
    /\ daemon[t].phase = "loaded"
    /\ \/ /\ \A u \in Terminals : ~Serves(u, e)
          /\ Enters(t, "serving")
       \/ /\ \E u \in Terminals : At(u, e, {"serving", "draining"})
          /\ Becomes(t, NoDaemon)
    /\ UNCHANGED <<world, start, names>>

\* It is told to stop.  The listener is closed, and so is, on a socket file,
\* the name removed, while handlers may go on.
Drain(u) ==
    /\ daemon[u].phase = "serving"
    /\ Enters(u, "draining")
    /\ IF OnFiles THEN NameBecomes(u, None) ELSE owner' = owner
    /\ UNCHANGED <<world, start, raced>>

\* By envorca stop, which reaches it, or by a signal.
Stop(t) ==
    /\ start[t] = NoStart
    /\ \E u \in Terminals : Answers(u, Target(t).endpoint) /\ Drain(u)

Signal(u) == Drain(u)

\* The last handler has returned: Cleanup removes the name once more.
Leave(u) ==
    /\ daemon[u].phase = "draining"
    /\ Becomes(u, NoDaemon)
    /\ IF OnFiles THEN NameBecomes(u, None) ELSE owner' = owner
    /\ UNCHANGED <<world, start, raced>>

\* It is killed, or fails to boot; a socket file stays.
Die(t) ==
    /\ daemon[t] # NoDaemon
    /\ Becomes(t, NoDaemon)
    /\ UNCHANGED <<world, start, names>>

Edit ==
    /\ edits < MaxEdits
    /\ edits' = edits + 1
    /\ file' \in File
    /\ UNCHANGED <<platform, settings, start, daemon, names>>

Next ==
    \/ Edit
    \/ \E t \in Terminals :
        \/ Start(t) \/ EndStart(t) \/ Load(t)
        \/ Dial(t) \/ Remove(t) \/ Bind(t) \/ CreatePipe(t)
        \/ Stop(t) \/ Signal(t) \/ Leave(t) \/ Die(t)

Spec == Init /\ [][Next]_vars

-----------------------------------------------------------------------------
(* Properties                                                               *)

Phases  == {"none", "spawned", "loaded", "claiming", "binding", "serving", "draining"}
Daemons == [phase : Phases, file : File,
            dir : Optional(StateDirs), endpoint : Optional(Endpoints)]
Starts  == [endpoint : Optional(Endpoints), file : File]

\* Every variable holds a value of its type, and a daemon that has loaded its
\* configuration has a state directory and an endpoint.  (Load)
TypeOK ==
    /\ platform \in Platforms
    /\ settings \in [Terminals -> Setting]
    /\ file \in File
    /\ edits \in 0..MaxEdits
    /\ start \in [Terminals -> Starts]
    /\ daemon \in [Terminals -> Daemons]
    /\ \A t \in Terminals : daemon[t].phase \notin {"none", "spawned"} =>
            daemon[t].dir # None /\ daemon[t].endpoint # None
    /\ owner \in [Endpoints -> Optional(Terminals)]
    /\ raced \subseteq Endpoints

NamesSocket(v, f) == v.socket # None \/ (v.config /\ f.socket # None)

\* The config file takes the daemon out of the CLI's sight: it moves the state
\* directory, to one with another endpoint, and nobody names a socket.
Relocated(v, f) ==
    /\ v.config
    /\ ~NamesSocket(v, f)
    /\ f.dir # None
    /\ platform[f.dir] # platform[DefaultStateDir(v)]

\* Commands look for a daemon where it is: under the settings it was started
\* with, and with the file it has read, they resolve its endpoint "the same way
\* the daemon does".  (commandEndpoint against Config.Endpoint)
SeesItsDaemon ==
    \A t \in Terminals : daemon[t].phase = "serving" =>
        CommandEndpoint(settings[t], daemon[t].file) = daemon[t].endpoint

\* Two daemons never serve from one state directory, with its database and pid
\* file, unless a socket setting has given one of them another endpoint than
\* the directory's own, or one began to listen at its socket file while another
\* was about to, or was draining there.  (The three steps of listen and the two
\* removals of a stop; DefaultEndpoint derives what daemons meet at from the
\* directory)
OwnsItsState ==
    \A t, u \in Terminals :
        /\ t # u
        /\ daemon[t].phase = "serving" /\ daemon[u].phase = "serving"
        /\ daemon[t].dir = daemon[u].dir
        => \/ NamesSocket(settings[t], daemon[t].file)
           \/ NamesSocket(settings[u], daemon[u].file)
           \/ daemon[t].endpoint \in raced

\* A command that finds a daemon finds one that works on the state directory
\* its own settings lead to, unless a socket is named, the file moves the
\* directory, or the platform has one endpoint for all directories: whatever
\* the file has been edited to since the daemon read it, or start did.  (Probe
\* tells daemons apart by their endpoints only)
ReachesItsState ==
    (\A a, b \in StateDirs : platform[a] = platform[b] => a = b) =>
        \A t, u \in Terminals :
            LET v == settings[t]  f == Target(t).file IN
            Answers(u, Target(t).endpoint) =>
                \/ daemon[u].dir = StateDir(v, f)
                \/ NamesSocket(v, f) \/ NamesSocket(settings[u], daemon[u].file)
                \/ Relocated(v, f)
=============================================================================

-------------------------- MODULE EndpointProofs --------------------------
(***************************************************************************)
(* The invariants of Endpoint, for any terminals, directories, sockets,    *)
(* platforms and number of edits.  Inductive are the types; that what a    *)
(* daemon or a polling start has resolved is what the settings of its      *)
(* terminal, which do not change, and the file it has read, which need not *)
(* be the current one, resolve to; and that daemons keep apart: one at a   *)
(* socket file where no listen has met another daemon, one at a pipe.      *)
(***************************************************************************)
EXTENDS Endpoint, TLAPS

Up(t) == daemon[t].phase \notin {"none", "spawned"}

\* A daemon is where its settings and the file it has read have put it.
Configured ==
    \A t \in Terminals : Up(t) =>
        /\ daemon[t].dir = StateDir(settings[t], daemon[t].file)
        /\ daemon[t].endpoint = DaemonEndpoint(settings[t], daemon[t].file)

\* start polls where its settings and the file it has read have led it.
Resolved ==
    \A t \in Terminals : start[t] # NoStart =>
        start[t].endpoint = CommandEndpoint(settings[t], start[t].file)

\* The phases in which a daemon changes what is at its endpoint, or may yet.
Busy == {"claiming", "binding", "serving", "draining"}

\* Socket files: where nobody has met, one daemon at most is busy, and the file
\* is that of the one that serves.
FilesApart ==
    OnFiles => \A e \in Endpoints \ raced : \A t \in Terminals :
        /\ \A u \in Terminals : At(t, e, Busy) /\ At(u, e, Busy) => t = u
        /\ Serves(t, e) => owner[e] = t

\* Pipes: one daemon serves at most.
PipesApart ==
    ~OnFiles => \A t \in Terminals :
        /\ daemon[t].phase \notin {"claiming", "binding"}
        /\ \A u \in Terminals : \A e \in Endpoints : Serves(t, e) /\ Serves(u, e) => t = u

Apart == FilesApart /\ PipesApart

IInv == TypeOK /\ Configured /\ Resolved /\ Apart

-----------------------------------------------------------------------------
(* What the resolutions return                                              *)

\* Either side resolves to a directory and an endpoint.
LEMMA ResolutionTypes ==
    ASSUME platform \in Platforms, NEW v \in Setting, NEW f \in File
    PROVE  /\ StateDir(v, f) \in StateDirs
           /\ DaemonEndpoint(v, f) \in Endpoints
           /\ CommandEndpoint(v, f) \in Endpoints
<1>1. DefaultStateDir(v) \in StateDirs
  BY DEF DefaultStateDir, Setting, Optional, StateDirs
<1>2. StateDir(v, f) \in StateDirs
  BY <1>1 DEF StateDir, Setting, File, NoFile, Optional, StateDirs
<1>3. \A d \in StateDirs : DefaultEndpoint(v, d) \in Endpoints
  BY EndpointAssumption DEF DefaultEndpoint, Setting, Optional
<1>4. f.socket # None => f.socket \in Endpoints
  BY EndpointAssumption DEF File, NoFile, Optional
<1> QED
  BY <1>1, <1>2, <1>3, <1>4 DEF DaemonEndpoint, CommandEndpoint

\* With the same file they differ in exactly the case Relocated describes.
LEMMA ResolutionsAgree ==
    ASSUME NEW v, NEW f
    PROVE  CommandEndpoint(v, f) # DaemonEndpoint(v, f) <=> Relocated(v, f)
BY DEF CommandEndpoint, DaemonEndpoint, DefaultEndpoint, StateDir, Relocated, NamesSocket

\* Where nobody names a socket, the daemon is at its directory's endpoint.
LEMMA UnnamedIsDerived ==
    ASSUME NEW v, NEW f, ~NamesSocket(v, f)
    PROVE  /\ DaemonEndpoint(v, f) = platform[StateDir(v, f)]
           /\ CommandEndpoint(v, f) = platform[DefaultStateDir(v)]
BY DEF NamesSocket, DaemonEndpoint, CommandEndpoint, DefaultEndpoint

\* A command, start or another, uses what some file resolves to.
LEMMA TargetResolved ==
    ASSUME IInv, NEW t \in Terminals
    PROVE  /\ Target(t) \in Starts
           /\ Target(t).endpoint = CommandEndpoint(settings[t], Target(t).file)
<1>1. /\ settings[t] \in Setting /\ file \in File /\ start[t] \in Starts
      /\ platform \in Platforms
  BY DEF IInv, TypeOK
<1>2. CommandEndpoint(settings[t], file) \in Endpoints
  BY <1>1, ResolutionTypes
<1>3. CASE start[t] # NoStart
  BY <1>1, <1>3 DEF Target, IInv, Resolved
<1>4. CASE start[t] = NoStart
  BY <1>1, <1>2, <1>4 DEF Target, Starts, Optional
<1> QED
  BY <1>3, <1>4

-----------------------------------------------------------------------------
(* The invariant                                                            *)

LEMMA InitIInv == Init => IInv
<1> SUFFICES ASSUME Init PROVE IInv
  OBVIOUS
<1>1. NoFile \in File /\ NoStart \in Starts /\ NoDaemon \in Daemons
  BY DEF File, NoFile, NoStart, NoDaemon, Starts, Daemons, Phases, Optional
<1>2. \A t \in Terminals : daemon[t].phase = "none" /\ start[t] = NoStart
  BY DEF Init, NoDaemon
<1>3. TypeOK
  BY <1>1, <1>2, EndpointAssumption DEF Init, TypeOK, Optional
<1>4. Apart
  BY <1>2 DEF Apart, FilesApart, PipesApart, At, Serves, Busy
<1> QED
  BY <1>2, <1>3, <1>4 DEF IInv, Configured, Resolved, Up

\* A step that leaves the world and the daemons of other terminals alone keeps
\* types and configurations when what it does to daemon u does.
LEMMA DaemonStep ==
    ASSUME IInv, NEW u \in Terminals, NEW d \in Daemons, Becomes(u, d), UNCHANGED world,
           d.phase \notin {"none", "spawned"} =>
                /\ d.dir # None /\ d.endpoint # None
                /\ d.dir = StateDir(settings[u], d.file)
                /\ d.endpoint = DaemonEndpoint(settings[u], d.file),
           start' \in [Terminals -> Starts],
           owner' \in [Endpoints -> Optional(Terminals)], raced' \subseteq Endpoints
    PROVE  TypeOK' /\ Configured'
<1>1. daemon' \in [Terminals -> Daemons] /\ daemon'[u] = d
  BY DEF IInv, TypeOK, Becomes
<1>2. \A t \in Terminals : t # u => daemon'[t] = daemon[t]
  BY DEF IInv, TypeOK, Becomes
<1>3. \A t \in Terminals : Up(t)' => daemon'[t].dir # None /\ daemon'[t].endpoint # None
  BY <1>1, <1>2 DEF IInv, TypeOK, Up
<1>4. TypeOK'
  BY <1>1, <1>3 DEF IInv, TypeOK, Up, world
<1>5. Configured'
  BY <1>1, <1>2 DEF IInv, Configured, Up, StateDir, DefaultStateDir,
                    DaemonEndpoint, DefaultEndpoint, world
<1> QED
  BY <1>4, <1>5

\* It keeps daemons apart when on a socket file u was busy there before, serves
\* with the file its own only, and changes the file nowhere else; and when on a
\* pipe it serves where nobody does.
LEMMA ApartStep ==
    ASSUME IInv, NEW u \in Terminals, NEW d \in Daemons, Becomes(u, d), UNCHANGED <<world, raced>>,
           OnFiles => /\ d.phase \in Busy => At(u, d.endpoint, Busy)
                      /\ d.phase = "serving" => owner'[d.endpoint] = u
                      /\ \A e \in Endpoints : owner'[e] = owner[e] \/ At(u, e, Busy),
           ~OnFiles => /\ d.phase \notin {"claiming", "binding"}
                       /\ d.phase = "serving" => \A t \in Terminals : ~Serves(t, d.endpoint)
    PROVE  Apart'
<1>1. daemon'[u] = d /\ \A t \in Terminals : t # u => daemon'[t] = daemon[t]
  BY DEF IInv, TypeOK, Becomes
<1>2. OnFiles' <=> OnFiles
  BY DEF OnFiles, world
<1>3. ASSUME OnFiles, NEW e \in Endpoints \ raced', NEW t \in Terminals
      PROVE  /\ \A w \in Terminals : At(t, e, Busy)' /\ At(w, e, Busy)' => t = w
             /\ Serves(t, e)' => owner'[e] = t
  <2>1. \A w \in Terminals : At(w, e, Busy)' => At(w, e, Busy)
    BY <1>1, <1>3 DEF At
  <2>2. \A w \in Terminals : At(t, e, Busy)' /\ At(w, e, Busy)' => t = w
    BY <1>3, <2>1 DEF IInv, Apart, FilesApart
  <2>3. ASSUME Serves(t, e)' PROVE owner'[e] = t
    <3>1. CASE t = u
      BY <1>1, <1>3, <2>3, <3>1 DEF Serves, At
    <3>2. CASE t # u
      <4>1. Serves(t, e) /\ At(t, e, Busy)
        BY <1>1, <2>3, <3>2 DEF Serves, At, Busy
      <4>2. ~At(u, e, Busy) /\ owner[e] = t
        BY <1>3, <3>2, <4>1 DEF IInv, Apart, FilesApart
      <4> QED
        BY <1>3, <4>2
    <3> QED
      BY <3>1, <3>2
  <2> QED
    BY <2>2, <2>3
<1>4. FilesApart'
  BY <1>2, <1>3 DEF FilesApart
<1>5. PipesApart'
  <2>1. ASSUME ~OnFiles, NEW t \in Terminals
        PROVE  daemon'[t].phase \notin {"claiming", "binding"}
    BY <1>1, <2>1 DEF IInv, Apart, PipesApart
  <2>2. ASSUME ~OnFiles, NEW t \in Terminals, NEW w \in Terminals, NEW e \in Endpoints
        PROVE  Serves(t, e)' /\ Serves(w, e)' => t = w
    BY <1>1, <2>2 DEF IInv, Apart, PipesApart, Serves, At
  <2> QED
    BY <1>2, <2>1, <2>2 DEF PipesApart
<1> QED
  BY <1>4, <1>5 DEF Apart

LEMMA ResolvedKept ==
    ASSUME IInv, UNCHANGED <<world, start>>
    PROVE  start' \in [Terminals -> Starts] /\ Resolved'
BY DEF IInv, TypeOK, Resolved, CommandEndpoint, DefaultEndpoint, DefaultStateDir, world

\* The daemon of u comes to its end, and if it was busy so may its file.
LEMMA EndStep ==
    ASSUME IInv, NEW u \in Terminals, Becomes(u, NoDaemon), UNCHANGED <<world, start, raced>>,
           owner' = owner \/ (daemon[u].phase \in Busy /\ NameBecomes(u, None))
    PROVE  IInv'
<1>1. NoDaemon \in Daemons /\ NoDaemon.phase = "none"
  BY DEF Daemons, Phases, NoDaemon, NoFile, File, Optional
<1>2. /\ owner' \in [Endpoints -> Optional(Terminals)]
      /\ \A e \in Endpoints : owner'[e] = owner[e] \/ At(u, e, Busy)
  BY DEF IInv, TypeOK, NameBecomes, At, Busy, Optional
<1>3. raced' \subseteq Endpoints
  BY DEF IInv, TypeOK
<1>4. TypeOK' /\ Configured'
  BY <1>1, <1>2, <1>3, DaemonStep, ResolvedKept
<1>5. Apart'
  BY <1>1, <1>2, ApartStep DEF Busy
<1> QED
  BY <1>4, <1>5, ResolvedKept DEF IInv

\* A daemon that has loaded its configuration enters another such phase.
LEMMA PhaseStep ==
    ASSUME IInv, NEW u \in Terminals, Up(u),
           NEW ph \in Phases \ {"none", "spawned"}, Enters(u, ph), UNCHANGED <<world, start>>,
           owner' \in [Endpoints -> Optional(Terminals)], raced' \subseteq Endpoints
    PROVE  /\ TypeOK' /\ Configured' /\ Resolved'
           /\ \E d \in Daemons : /\ Becomes(u, d) /\ d.phase = ph
                                 /\ d.endpoint = daemon[u].endpoint /\ d.endpoint \in Endpoints
<1> DEFINE d == [daemon[u] EXCEPT !.phase = ph]
<1>1. daemon[u] \in Daemons
  BY DEF IInv, TypeOK
<1>2. /\ d \in Daemons /\ d.phase = ph /\ d.dir = daemon[u].dir
      /\ d.endpoint = daemon[u].endpoint /\ d.file = daemon[u].file
  BY <1>1 DEF Daemons
<1>3. /\ d.dir # None /\ d.endpoint # None
      /\ d.dir = StateDir(settings[u], d.file)
      /\ d.endpoint = DaemonEndpoint(settings[u], d.file)
  BY <1>2 DEF IInv, TypeOK, Configured, Up
<1>4. d.endpoint \in Endpoints
  BY <1>1, <1>2, <1>3 DEF Daemons, Optional
<1>5. Becomes(u, d)
  BY DEF Enters
<1> HIDE DEF d
<1>6. TypeOK' /\ Configured'
  BY <1>2, <1>3, <1>5, DaemonStep, ResolvedKept
<1> QED
  BY <1>2, <1>4, <1>5, <1>6, ResolvedKept

LEMMA StartIInv == ASSUME IInv, NEW t \in Terminals, Start(t) PROVE IInv'
<1>1. Target(t) \in Starts /\ Target(t).endpoint = CommandEndpoint(settings[t], Target(t).file)
  BY TargetResolved
<1>2. start' \in [Terminals -> Starts]
  BY <1>1 DEF Start, IInv, TypeOK
<1>3. Resolved'
  <2>1. UNCHANGED world /\ start' = [start EXCEPT ![t] = Target(t)]
    BY DEF Start
  <2> HIDE DEF Target
  <2> QED
    BY <1>1, <2>1 DEF IInv, TypeOK, Resolved, CommandEndpoint, DefaultEndpoint, DefaultStateDir, world
<1> DEFINE d == [NoDaemon EXCEPT !.phase = "spawned"]
<1>4. d \in Daemons /\ d.phase = "spawned"
  BY DEF Daemons, Phases, NoDaemon, NoFile, File, Optional
<1>5. Becomes(t, d) /\ UNCHANGED <<world, owner, raced>>
  BY DEF Start, names
<1>6. owner' \in [Endpoints -> Optional(Terminals)] /\ raced' \subseteq Endpoints
  BY <1>5 DEF IInv, TypeOK
<1> HIDE DEF d
<1>7. TypeOK' /\ Configured'
  BY <1>2, <1>4, <1>5, <1>6, DaemonStep
<1>8. Apart'
  BY <1>4, <1>5, ApartStep DEF Busy
<1> QED
  BY <1>3, <1>7, <1>8 DEF IInv

LEMMA LoadIInv == ASSUME IInv, NEW t \in Terminals, Load(t) PROVE IInv'
<1>1. UNCHANGED <<world, start, owner, raced>>
  BY DEF Load, names
<1>2. CASE Loads(settings[t], file)
  <2> DEFINE d == [phase |-> "loaded", file |-> file, dir |-> StateDir(settings[t], file),
                   endpoint |-> DaemonEndpoint(settings[t], file)]
  <2>1. Becomes(t, d)
    BY <1>2 DEF Load
  <2>2. StateDir(settings[t], file) \in StateDirs /\ DaemonEndpoint(settings[t], file) \in Endpoints
    BY ResolutionTypes DEF IInv, TypeOK
  <2>3. d \in Daemons /\ d.dir # None /\ d.endpoint # None
    BY <2>2, EndpointAssumption DEF Daemons, Phases, Optional, IInv, TypeOK
  <2>4. /\ d.phase = "loaded" /\ d.dir = StateDir(settings[t], d.file)
        /\ d.endpoint = DaemonEndpoint(settings[t], d.file)
    OBVIOUS
  <2>5. owner' \in [Endpoints -> Optional(Terminals)] /\ raced' \subseteq Endpoints
    BY <1>1 DEF IInv, TypeOK
  <2> HIDE DEF d
  <2>6. TypeOK' /\ Configured'
    BY <1>1, <2>1, <2>3, <2>4, <2>5, DaemonStep, ResolvedKept
  <2>7. Apart'
    BY <1>1, <2>1, <2>3, <2>4, ApartStep DEF Busy
  <2> QED
    BY <1>1, <2>6, <2>7, ResolvedKept DEF IInv
<1>3. CASE ~Loads(settings[t], file)
  BY <1>1, <1>3, EndStep DEF Load
<1> QED
  BY <1>2, <1>3

LEMMA DialIInv == ASSUME IInv, NEW t \in Terminals, Dial(t) PROVE IInv'
<1> DEFINE e == daemon[t].endpoint
<1>1. CASE \E u \in Terminals : Answers(u, e)
  <2>1. Becomes(t, NoDaemon) /\ UNCHANGED <<world, start, owner, raced>>
    BY <1>1 DEF Dial
  <2> QED
    BY <2>1, EndStep
<1>2. CASE \A u \in Terminals : ~Answers(u, e)
  <2>1. /\ Enters(t, "claiming") /\ UNCHANGED <<world, start, owner>>
        /\ raced' = RacedAfter(e) /\ OnFiles /\ daemon[t].phase = "loaded"
    BY <1>2 DEF Dial
  <2>2. e \in Endpoints /\ Up(t)
    BY <2>1 DEF IInv, TypeOK, Up, Daemons, Optional
  <2>3. owner' \in [Endpoints -> Optional(Terminals)] /\ raced' \subseteq Endpoints
    BY <2>1, <2>2 DEF IInv, TypeOK, RacedAfter
  <2>4. TypeOK' /\ Configured' /\ Resolved'
    <3>1. "claiming" \in Phases \ {"none", "spawned"}
      BY DEF Phases
    <3> QED
      BY <2>1, <2>2, <2>3, <3>1, PhaseStep
  <2>5. PICK d \in Daemons : Becomes(t, d) /\ d.phase = "claiming" /\ d.endpoint = e
    <3>1. "claiming" \in Phases \ {"none", "spawned"}
      BY DEF Phases
    <3> QED
      BY <2>1, <2>2, <2>3, <3>1, PhaseStep
  <2> HIDE DEF e
  <2>6. daemon'[t] = d /\ \A u \in Terminals : u # t => daemon'[u] = daemon[u]
    BY <2>5 DEF IInv, TypeOK, Becomes
  <2>7. ASSUME NEW x \in Endpoints \ raced', x # e, NEW u \in Terminals
        PROVE  /\ x \notin raced
               /\ At(u, x, Busy)' => At(u, x, Busy)
               /\ Serves(u, x)' => Serves(u, x)
    BY <2>1, <2>5, <2>6, <2>7 DEF RacedAfter, At, Serves
  \* At e itself nobody was busy, or a race is recorded.
  <2>8. ASSUME e \notin raced', NEW u \in Terminals, u # t PROVE ~At(u, e, Busy)
    <3>1. /\ ~At(u, e, {"claiming", "binding", "draining"})
          /\ Serves(u, e) => e \notin raced
      BY <2>1, <2>8 DEF RacedAfter, Serves
    <3>2. ~Serves(u, e)
      BY <1>2, <2>1, <2>2, <3>1 DEF IInv, Apart, FilesApart, Answers, e
    <3> QED
      BY <3>1, <3>2 DEF At, Serves, Busy
  <2>9. FilesApart'
    <3> SUFFICES ASSUME NEW x \in Endpoints \ raced', NEW u \in Terminals
                 PROVE  /\ \A w \in Terminals : At(u, x, Busy)' /\ At(w, x, Busy)' => u = w
                        /\ Serves(u, x)' => owner'[x] = u
      BY DEF FilesApart
    <3>1. CASE x = e
      <4>1. \A w \in Terminals : At(w, x, Busy)' => w = t
        BY <2>6, <2>8, <3>1 DEF At
      <4>2. ~Serves(u, x)'
        BY <2>5, <2>6, <4>1 DEF At, Serves, Busy
      <4> QED
        BY <4>1, <4>2
    <3>2. CASE x # e
      BY <2>1, <2>7, <3>2 DEF IInv, Apart, FilesApart
    <3> QED
      BY <3>1, <3>2
  <2>10. PipesApart'
    BY <2>1 DEF PipesApart, OnFiles, world
  <2> QED
    BY <2>4, <2>9, <2>10 DEF IInv, Apart
<1> QED
  BY <1>1, <1>2

LEMMA RemoveIInv == ASSUME IInv, NEW t \in Terminals, Remove(t) PROVE IInv'
<1>1. /\ Enters(t, "binding") /\ UNCHANGED <<world, start, raced>>
      /\ NameBecomes(t, None) /\ daemon[t].phase = "claiming" /\ Up(t)
  BY DEF Remove, Up
<1>2. /\ owner' \in [Endpoints -> Optional(Terminals)]
      /\ \A e \in Endpoints : owner'[e] = owner[e] \/ At(t, e, Busy)
  BY <1>1 DEF IInv, TypeOK, NameBecomes, At, Busy, Optional
<1>3. "binding" \in Phases \ {"none", "spawned"} /\ raced' \subseteq Endpoints
  BY <1>1 DEF Phases, IInv, TypeOK
<1>4. TypeOK' /\ Configured' /\ Resolved'
  BY <1>1, <1>2, <1>3, PhaseStep
<1>5. PICK d \in Daemons : Becomes(t, d) /\ d.phase = "binding" /\ d.endpoint = daemon[t].endpoint
  BY <1>1, <1>2, <1>3, PhaseStep
<1>6. OnFiles /\ At(t, d.endpoint, Busy)
  BY <1>1, <1>5 DEF IInv, Apart, PipesApart, At, Busy
<1>7. Apart'
  BY <1>1, <1>2, <1>5, <1>6, ApartStep
<1> QED
  BY <1>4, <1>7 DEF IInv

LEMMA BindIInv == ASSUME IInv, NEW t \in Terminals, Bind(t) PROVE IInv'
<1>1. UNCHANGED <<world, start, raced>> /\ daemon[t].phase = "binding" /\ Up(t)
  BY DEF Bind, Up
<1>2. CASE owner[daemon[t].endpoint] = None
  <2>1. Enters(t, "serving") /\ NameBecomes(t, t)
    BY <1>2 DEF Bind
  <2>2. /\ owner' \in [Endpoints -> Optional(Terminals)]
        /\ \A e \in Endpoints : owner'[e] = owner[e] \/ At(t, e, Busy)
    BY <1>1, <2>1 DEF IInv, TypeOK, NameBecomes, At, Busy, Optional
  <2>3. "serving" \in Phases \ {"none", "spawned"} /\ raced' \subseteq Endpoints
    BY <1>1 DEF Phases, IInv, TypeOK
  <2>4. TypeOK' /\ Configured' /\ Resolved'
    BY <1>1, <2>1, <2>2, <2>3, PhaseStep
  <2>5. PICK d \in Daemons : /\ Becomes(t, d) /\ d.phase = "serving"
                             /\ d.endpoint = daemon[t].endpoint /\ d.endpoint \in Endpoints
    BY <1>1, <2>1, <2>2, <2>3, PhaseStep
  <2>6. OnFiles /\ At(t, d.endpoint, Busy)
    BY <1>1, <2>5 DEF IInv, Apart, PipesApart, At, Busy
  <2>7. owner'[d.endpoint] = t
    BY <2>1, <2>5 DEF NameBecomes, IInv, TypeOK
  <2>8. Apart'
    BY <1>1, <2>2, <2>5, <2>6, <2>7, ApartStep
  <2> QED
    BY <2>4, <2>8 DEF IInv
<1>3. CASE owner[daemon[t].endpoint] # None
  BY <1>1, <1>3, EndStep DEF Bind
<1> QED
  BY <1>2, <1>3

LEMMA CreatePipeIInv == ASSUME IInv, NEW t \in Terminals, CreatePipe(t) PROVE IInv'
<1>1. /\ UNCHANGED <<world, start, owner, raced>> /\ ~OnFiles
      /\ daemon[t].phase = "loaded" /\ Up(t)
  BY DEF CreatePipe, Up, names
<1>2. CASE Becomes(t, NoDaemon)
  BY <1>1, <1>2, EndStep
<1>3. CASE Enters(t, "serving") /\ \A u \in Terminals : ~Serves(u, daemon[t].endpoint)
  <2>1. /\ owner' \in [Endpoints -> Optional(Terminals)] /\ raced' \subseteq Endpoints
        /\ "serving" \in Phases \ {"none", "spawned"}
    BY <1>1 DEF IInv, TypeOK, Phases
  <2>2. TypeOK' /\ Configured' /\ Resolved'
    BY <1>1, <1>3, <2>1, PhaseStep
  <2>3. PICK d \in Daemons : Becomes(t, d) /\ d.phase = "serving" /\ d.endpoint = daemon[t].endpoint
    BY <1>1, <1>3, <2>1, PhaseStep
  <2>4. Apart'
    BY <1>1, <1>3, <2>3, ApartStep
  <2> QED
    BY <2>2, <2>4 DEF IInv
<1> QED
  BY <1>2, <1>3 DEF CreatePipe

LEMMA DrainIInv == ASSUME IInv, NEW u \in Terminals, Drain(u) PROVE IInv'
<1>1. /\ Enters(u, "draining") /\ UNCHANGED <<world, start, raced>>
      /\ daemon[u].phase = "serving" /\ Up(u)
      /\ owner' = owner \/ NameBecomes(u, None)
  BY DEF Drain, Up
<1>2. /\ owner' \in [Endpoints -> Optional(Terminals)]
      /\ \A e \in Endpoints : owner'[e] = owner[e] \/ At(u, e, Busy)
  BY <1>1 DEF IInv, TypeOK, NameBecomes, At, Busy, Optional
<1>3. "draining" \in Phases \ {"none", "spawned"} /\ raced' \subseteq Endpoints
  BY <1>1 DEF Phases, IInv, TypeOK
<1>4. TypeOK' /\ Configured' /\ Resolved'
  BY <1>1, <1>2, <1>3, PhaseStep
<1>5. PICK d \in Daemons : Becomes(u, d) /\ d.phase = "draining" /\ d.endpoint = daemon[u].endpoint
  BY <1>1, <1>2, <1>3, PhaseStep
<1>6. At(u, d.endpoint, Busy)
  BY <1>1, <1>5 DEF At, Busy
<1>7. Apart'
  BY <1>1, <1>2, <1>5, <1>6, ApartStep
<1> QED
  BY <1>4, <1>7 DEF IInv

LEMMA LeaveIInv == ASSUME IInv, NEW u \in Terminals, Leave(u) PROVE IInv'
<1>1. /\ Becomes(u, NoDaemon) /\ UNCHANGED <<world, start, raced>>
      /\ daemon[u].phase \in Busy /\ (owner' = owner \/ NameBecomes(u, None))
  BY DEF Leave, Busy
<1> QED
  BY <1>1, EndStep

\* A step that touches neither a daemon nor a name.
LEMMA OtherStep ==
    ASSUME IInv, UNCHANGED <<platform, settings, daemon, owner, raced>>,
           file' \in File, edits' \in 0..MaxEdits,
           start' \in [Terminals -> Starts], Resolved'
    PROVE  IInv'
<1>1. TypeOK'
  BY DEF IInv, TypeOK
<1>2. Configured'
  BY DEF IInv, Configured, Up, StateDir, DefaultStateDir, DaemonEndpoint, DefaultEndpoint
<1>3. Apart'
  BY DEF IInv, Apart, FilesApart, PipesApart, OnFiles, Serves, At
<1> QED
  BY <1>1, <1>2, <1>3 DEF IInv

LEMMA NextIInv == IInv /\ [Next]_vars => IInv'
<1> SUFFICES ASSUME IInv, [Next]_vars PROVE IInv'
  OBVIOUS
<1>1. CASE Edit
  <2>1. /\ UNCHANGED <<platform, settings, start, daemon, owner, raced>>
        /\ file' \in File /\ edits' \in 0..MaxEdits
    BY <1>1, EndpointAssumption DEF Edit, IInv, TypeOK, names
  <2>2. start' \in [Terminals -> Starts] /\ Resolved'
    BY <2>1 DEF IInv, TypeOK, Resolved, CommandEndpoint, DefaultEndpoint, DefaultStateDir
  <2> QED
    BY <2>1, <2>2, OtherStep
<1>2. ASSUME NEW t \in Terminals, EndStart(t) PROVE IInv'
  <2>1. NoStart \in Starts
    BY DEF NoStart, Starts, NoFile, File, Optional
  <2>2. UNCHANGED <<platform, settings, file, edits, daemon, owner, raced>>
    BY <1>2 DEF EndStart, world, names
  <2>3. start' \in [Terminals -> Starts]
    BY <1>2, <2>1 DEF EndStart, IInv, TypeOK
  <2>4. Resolved'
    BY <1>2, <2>2 DEF EndStart, IInv, TypeOK, Resolved, CommandEndpoint, DefaultEndpoint, DefaultStateDir
  <2>5. file' \in File /\ edits' \in 0..MaxEdits
    BY <2>2 DEF IInv, TypeOK
  <2> QED
    BY <2>2, <2>3, <2>4, <2>5, OtherStep
<1>3. ASSUME NEW t \in Terminals, Stop(t) \/ Signal(t) PROVE IInv'
  <2>1. \E u \in Terminals : Drain(u)
    BY <1>3 DEF Stop, Signal
  <2> QED
    BY <2>1, DrainIInv
<1>4. ASSUME NEW t \in Terminals, Die(t) PROVE IInv'
  BY <1>4, EndStep DEF Die, names
<1>5. CASE UNCHANGED vars
  <2>1. UNCHANGED <<platform, settings, file, edits, start, daemon, owner, raced>>
    BY <1>5 DEF vars, world, names
  <2>2. file' \in File /\ edits' \in 0..MaxEdits
    BY <2>1 DEF IInv, TypeOK
  <2>3. start' \in [Terminals -> Starts] /\ Resolved'
    BY <2>1, ResolvedKept DEF world
  <2> QED
    BY <2>1, <2>2, <2>3, OtherStep
<1> QED
  BY <1>1, <1>2, <1>3, <1>4, <1>5, StartIInv, LoadIInv, DialIInv, RemoveIInv, BindIInv,
     CreatePipeIInv, LeaveIInv DEF Next

LEMMA Invariance == Spec => []IInv
BY InitIInv, NextIInv, PTL DEF Spec

-----------------------------------------------------------------------------
(* The theorems                                                             *)

\* All values have their types, and a daemon past Load is fully configured.
\* (Load)
THEOREM TypeCorrect == Spec => []TypeOK
<1>1. IInv => TypeOK
  BY DEF IInv
<1> QED
  BY <1>1, Invariance, PTL

\* Commands with the settings and the file of a daemon that serves miss it in
\* exactly one case, which is the one SeesItsDaemon fails in.
FoundUnlessRelocated ==
    \A t \in Terminals : daemon[t].phase = "serving" =>
        ( CommandEndpoint(settings[t], daemon[t].file) # daemon[t].endpoint
            <=> Relocated(settings[t], daemon[t].file) )

\* (Config.Endpoint, commandEndpoint)
THEOREM Found == Spec => []FoundUnlessRelocated
<1>1. IInv => FoundUnlessRelocated
  <2> SUFFICES ASSUME IInv, NEW t \in Terminals, daemon[t].phase = "serving"
               PROVE  CommandEndpoint(settings[t], daemon[t].file) # daemon[t].endpoint
                        <=> Relocated(settings[t], daemon[t].file)
    BY DEF FoundUnlessRelocated
  <2>1. daemon[t].endpoint = DaemonEndpoint(settings[t], daemon[t].file)
    BY DEF IInv, Configured, Up
  <2> QED
    BY <2>1, ResolutionsAgree
<1> QED
  BY <1>1, Invariance, PTL

\* Two daemons share a state directory only where a socket is named or daemons
\* have met in listen or a drain.  (Dial, Remove, Bind, Drain, Leave;
\* DefaultEndpoint)
THEOREM OwnState == Spec => []OwnsItsState
<1>1. IInv => OwnsItsState
  <2> SUFFICES ASSUME IInv, NEW t \in Terminals, NEW u \in Terminals, t # u,
                      daemon[t].phase = "serving", daemon[u].phase = "serving",
                      daemon[t].dir = daemon[u].dir,
                      ~NamesSocket(settings[t], daemon[t].file),
                      ~NamesSocket(settings[u], daemon[u].file),
                      daemon[t].endpoint \notin raced
               PROVE  FALSE
    BY DEF OwnsItsState
  <2>1. \A w \in {t, u} : daemon[w].endpoint = platform[daemon[w].dir]
    BY UnnamedIsDerived DEF IInv, Configured, Up
  <2> DEFINE e == daemon[t].endpoint
  <2>2. daemon[u].endpoint = e
    BY <2>1
  <2>3. e \in Endpoints
    BY DEF IInv, TypeOK, Daemons, Optional
  <2>4. /\ Serves(t, e) /\ Serves(u, e)
        /\ At(t, e, Busy) /\ At(u, e, Busy)
    BY <2>2 DEF Serves, At, Busy
  <2> QED
    BY <2>3, <2>4 DEF IInv, Apart, FilesApart, PipesApart
<1> QED
  BY <1>1, Invariance, PTL

\* Whom a command finds works on the directory its settings lead to, but for
\* named sockets, moved directories and shared pipes.  (Probe, DefaultEndpoint)
THEOREM ReachState == Spec => []ReachesItsState
<1>1. IInv => ReachesItsState
  <2> SUFFICES ASSUME IInv,
                      \A a, b \in StateDirs : platform[a] = platform[b] => a = b,
                      NEW t \in Terminals, NEW u \in Terminals,
                      NEW f, f = Target(t).file, Answers(u, Target(t).endpoint),
                      ~NamesSocket(settings[t], f),
                      ~NamesSocket(settings[u], daemon[u].file),
                      ~Relocated(settings[t], f)
               PROVE  daemon[u].dir = StateDir(settings[t], f)
    BY DEF ReachesItsState
  <2>1. Target(t).endpoint = CommandEndpoint(settings[t], f) /\ f \in File
    BY TargetResolved DEF Starts
  <2>2. Target(t).endpoint = platform[StateDir(settings[t], f)]
    BY <2>1, ResolutionsAgree, UnnamedIsDerived
  <2>3. daemon[u].phase = "serving" /\ daemon[u].endpoint = Target(t).endpoint
    BY DEF Answers, Serves, At
  <2>4. daemon[u].endpoint = platform[daemon[u].dir] /\ daemon[u].dir \in StateDirs
    BY <2>3, UnnamedIsDerived DEF IInv, TypeOK, Configured, Up, Daemons, Optional
  <2>5. StateDir(settings[t], f) \in StateDirs
    BY <2>1, ResolutionTypes DEF IInv, TypeOK
  <2> QED
    BY <2>2, <2>3, <2>4, <2>5
<1> QED
  BY <1>1, Invariance, PTL
=============================================================================

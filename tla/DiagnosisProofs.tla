-------------------------- MODULE DiagnosisProofs --------------------------
(***************************************************************************)
(* The invariants of Diagnosis, for any budgets, deadlines and durations,  *)
(* and that every diagnosis ends.                                          *)
(***************************************************************************)
EXTENDS Diagnosis, TLAPS

\* What the probe of component c has found out once it has come to step s.
Knows(c, s, w) ==
    /\ c = Wsl /\ s = "boot" => w.host = "answers" /\ w.distro # "none"
    /\ c = Wsl /\ s = "list" => w.distro = "boots"
    /\ c = ContainerRuntime /\ s = "client" => w.host = "answers" /\ w.distro # "none"
    /\ c = ContainerRuntime /\ s \in {"list for server", "server"} =>
           w.host = "answers" /\ w.distro = "boots" /\ w.docker # "none"
    /\ c = ContainerRuntime /\ s \in {"list for ps", "ps"} => w.docker = "running"

Known == Knows(at, step, world)

CauseOf(f, p) ==
    /\ f = "virtualization disabled" => ~p.cpu
    /\ f = "no address translation"  => p.cpu /\ ~p.slat
    /\ f = "platform not installed"  => p.vmcompute = "missing"
    /\ f = "host service stopped"    => p.vmcompute = "stopped"
    /\ f = "WSL service stopped"     => p.service = "stopped"

Readable(k) == k # <<>>

HealthOf(c, w) ==
    /\ c = Virtualization   => w.host = "answers"
    /\ c = Wsl              => w.distro = "boots"
    /\ c = LinuxKernel      => Readable(w.kernel)
    /\ c = ContainerRuntime => w.docker = "running"

BlameOf(f, w) ==
    /\ f = "not installed"   => w.host = "missing"
    /\ f = "could not query" => w.host = "fails"
    /\ f = "no distribution" => w.host = "answers" /\ w.distro = "none"
    /\ f = "failed to start" => w.distro = "fails"
    /\ f = "outdated"        => Before(w.kernel, 5, 10)
    /\ f = "unreachable"     => w.host = "fails" \/ w.distro = "none"
    /\ f = "no docker"       => w.distro = "fails" \/ w.docker = "none"
    /\ f = "daemon silent"   => w.docker = "stopped"

\* What is said of component c is true in world w, where the commands of the
\* components in k were killed.
Truthful(c, status, finding, w, k) ==
    /\ c = Virtualization => CauseOf(finding, w.platform)
    /\ status = "HEALTHY" => HealthOf(c, w)
    /\ c \notin k => BlameOf(finding, w)

Truth == \A c \in 1..Len(report) :
             Truthful(c, report[c].status, report[c].finding, world, killed)

\* An answer is denied by the context of the call only when that is done, and
\* a client that has been told has been told by a handler that is gone.
Order ==
    /\ cut => gone
    /\ cli = "told" => at = 0

IInv == TypeOK /\ BudgetsHold /\ Known /\ Truth /\ Order /\ ToldIsWhole

Lines == [status : Statuses, finding : Findings]

-----------------------------------------------------------------------------
(* Sequences and commands                                                   *)

\* A sequence with one more element.
LEMMA Appended ==
    ASSUME NEW S, NEW s \in Seq(S), NEW x \in S
    PROVE  /\ Append(s, x) \in Seq(S)
           /\ Len(Append(s, x)) = Len(s) + 1
           /\ \A i \in 1..Len(s) : Append(s, x)[i] = s[i]
           /\ Append(s, x)[Len(s) + 1] = x
OBVIOUS

\* A command keeps within the room it has, which is what is left of the budget
\* of the probe and of the deadline of the call, and ends as it may.
LEMMA OutcomeFacts ==
    ASSUME TypeOK, at \in Components, NEW R, NEW o \in Outcomes(R)
    PROVE  /\ o.time \in Nat
           /\ spent + o.time <= Budget[at]
           /\ elapsed + o.time <= Patience[cmd]
           /\ o.ok \in BOOLEAN /\ o.killed \in BOOLEAN
           /\ o.ok => "ok" \in R
           /\ ~o.ok /\ ~o.killed => \E r \in R : r # "ok" /\ r # "never"
<1>a. Budget[at] \in Nat /\ Delays \subseteq Nat
  BY DiagnosisAssumption
<1>b. Patience[cmd] \in Nat
  BY DiagnosisAssumption DEF TypeOK
<1>c. elapsed \in Nat /\ spent \in Nat /\ elapsed <= Patience[cmd] /\ (spent # 0 => spent <= Budget[at])
  BY DEF TypeOK
<1>1. /\ Budget[at] \in Nat /\ Patience[cmd] \in Nat /\ elapsed \in Nat /\ spent \in Nat
      /\ elapsed <= Patience[cmd] /\ spent <= Budget[at] /\ Delays \subseteq Nat
  BY <1>a, <1>b, <1>c
<1>2. Room \in Nat /\ spent + Room <= Budget[at] /\ elapsed + Room <= Patience[cmd]
  BY <1>1 DEF Room
<1>3. CASE o \in {[ok |-> r = "ok", killed |-> FALSE, time |-> t] :
                    r \in R \ {"never"}, t \in {d \in Delays : d <= Room /\ Room > 0}}
  <2>1. PICK r \in R \ {"never"}, t \in {d \in Delays : d <= Room /\ Room > 0} :
            o = [ok |-> r = "ok", killed |-> FALSE, time |-> t]
    BY <1>3
  <2>2. t \in Nat /\ t <= Room
    BY <2>1, <1>1
  <2>3. o.time = t /\ o.killed = FALSE /\ o.ok \in BOOLEAN /\ (o.ok <=> r = "ok")
    BY <2>1
  <2> HIDE DEF Room
  <2> QED
    BY <1>1, <1>2, <2>1, <2>2, <2>3
<1>4. CASE o = [ok |-> FALSE, killed |-> TRUE, time |-> Room]
  BY <1>1, <1>2, <1>4
<1> QED
  BY <1>3, <1>4 DEF Outcomes

\* Time has passed.
LEMMA RanFacts ==
    ASSUME IInv, at \in Components, NEW R, NEW o \in Outcomes(R), Ran(o)
    PROVE  /\ UNCHANGED <<world, cmd, cli, offered, recorded>>
           /\ elapsed' = elapsed + o.time /\ elapsed' \in Nat /\ elapsed' <= Patience[cmd']
           /\ gone' \in BOOLEAN /\ killed' \subseteq Components /\ cut' \in BOOLEAN
           /\ killed \subseteq killed' /\ (o.killed => at \in killed')
           /\ cut' => gone'
           /\ cli' # "told"
<1>1. UNCHANGED <<world, cmd, cli, offered, recorded>>
  BY DEF Ran, client
<1>2. o.time \in Nat /\ elapsed + o.time <= Patience[cmd] /\ o.killed \in BOOLEAN
  BY OutcomeFacts DEF IInv
<1>3. elapsed' = elapsed + o.time /\ elapsed' \in Nat /\ elapsed' <= Patience[cmd']
  <2>1. elapsed' = elapsed + o.time
    BY Zenon DEF Ran
  <2>2. elapsed \in Nat
    BY DEF IInv, TypeOK
  <2>3. Patience[cmd'] = Patience[cmd]
    BY <1>1
  <2> QED
    BY <1>2, <2>1, <2>2, <2>3
<1>4. /\ gone' = (gone \/ elapsed + o.time >= Patience[cmd])
      /\ killed' = IF o.killed THEN killed \cup {at} ELSE killed
      /\ cut' = (cut \/ (o.killed /\ gone'))
  BY Zenon DEF Ran
<1>5. gone' \in BOOLEAN /\ killed' \subseteq Components /\ cut' \in BOOLEAN
      /\ killed \subseteq killed' /\ (o.killed => at \in killed')
  BY <1>4 DEF IInv, TypeOK
<1>6. cut' => gone'
  BY <1>4 DEF IInv, Order
<1>7. cli # "told"
  BY DEF IInv, Order, Components
<1> QED
  BY <1>1, <1>3, <1>5, <1>6, <1>7

\* What the commands are asked for can fail only where something is wrong.
LEMMA ReplyFacts ==
    ASSUME NEW r
    PROVE  /\ r \in Host /\ r = "ok" => world.host = "answers"
           /\ r \in Host /\ r # "ok" /\ r # "never" =>
                 world.host # "answers" /\ world.host # "hangs"
           /\ r \in Distro /\ r = "ok" => world.distro = "boots"
           /\ r \in Distro /\ r # "ok" /\ r # "never" =>
                 world.distro # "boots" /\ world.distro # "hangs"
BY DEF Host, Distro

\* What parses as an old version is one.
LEMMA OldKernel ==
    ASSUME world \in World
    PROVE  Outdated(world.kernel) => Before(world.kernel, 5, 10)
<1>1. PICK k : k = world.kernel
  OBVIOUS
<1>2. k = <<>> \/ k = <<6>> \/ k = <<4, 19>> \/ k = <<5, 10>> \/ k = <<6, 1>>
  BY <1>1 DEF World
<1>3. ~Outdated(<<>>)
  BY DEF Outdated
<1>4. ~Outdated(<<6>>)
  BY DEF Outdated
<1>5. ~Outdated(<<5, 10>>) /\ ~Outdated(<<6, 1>>)
  BY DEF Outdated
<1>6. Before(<<4, 19>>, 5, 10)
  BY DEF Before
<1>7. Outdated(k) => Before(k, 5, 10)
  BY <1>2, <1>3, <1>4, <1>5, <1>6, Zenon
<1> QED
  BY <1>1, <1>7, Zenon

LEMMA DockerFacts ==
    ASSUME IInv, NEW r, NEW server \in BOOLEAN
    PROVE  /\ r \in Docker(server) /\ r = "ok" =>
                 world.distro = "boots" /\ world.docker # "none"
           /\ r \in Docker(TRUE) /\ r = "ok" => world.docker = "running"
           /\ r \in Docker(server) /\ r # "ok" /\ r # "never" =>
                 \/ world.distro # "boots" /\ world.distro # "hangs"
                 \/ world.distro = "boots" /\ world.docker \in {"none", "stopped"}
           /\ r \in Docker(FALSE) /\ r # "ok" /\ r # "never" /\ world.distro = "boots" =>
                 world.docker = "none"
<1>1. world.docker \in {"none", "stopped", "hangs", "running"}
  BY DEF IInv, TypeOK, Worlds, World
<1> QED
  BY <1>1 DEF Docker, Distro

-----------------------------------------------------------------------------
(* Steps                                                                    *)

\* Shares of the probes before the one at c and after it.
LEMMA ShareStep ==
    ASSUME at \in Components, at' = at + 1,
           NEW d \in Nat, d <= Budget[at], NEW e \in Nat, BudgetsHold,
           e <= elapsed + (d - spent), spent \in Nat, elapsed \in Nat, elapsed' = e,
           spent' = 0
    PROVE  BudgetsHold'
<1>1. \A c \in Components : Budget[c] \in Nat
  BY DiagnosisAssumption
<1>2. \A c \in Components :
        Share(c)' = IF c = at THEN Share(c) + Budget[c] ELSE Share(c)
  BY <1>1 DEF Share, Components
<1>3. \A c \in Components : Share(c) \in Nat /\ Share(c)' \in Nat
  BY <1>1 DEF Share
<1>4. /\ Daemon \in Components /\ Windows \in Components /\ Virtualization \in Components
      /\ Wsl \in Components /\ LinuxKernel \in Components /\ Resources \in Components
      /\ ContainerRuntime \in Components
      /\ Components = {Daemon, Windows, Virtualization, Wsl, LinuxKernel, Resources,
                       ContainerRuntime}
  BY DEF Components, Daemon, Windows, Virtualization, Wsl, LinuxKernel, Resources,
         ContainerRuntime
<1>5. at \in {Daemon, Windows, Virtualization, Wsl, LinuxKernel, Resources, ContainerRuntime}
  BY <1>4
<1>6. at # 0
  BY DEF Components
<1>7. elapsed <= spent + Shares
  BY <1>6 DEF BudgetsHold
<1>8. Shares \in Nat
  BY <1>3, <1>4 DEF Shares
<1>9. Shares' = Shares + Budget[at]
  BY <1>1, <1>2, <1>3, <1>4, <1>5 DEF Shares, Daemon, Windows, Virtualization, Wsl,
                                LinuxKernel, Resources, ContainerRuntime
<1>10. Budget[at] \in Nat
  BY <1>1
<1>11. elapsed' <= spent' + Shares'
  BY <1>7, <1>8, <1>9, <1>10
<1> QED
  BY <1>11 DEF BudgetsHold

\* The report grows by a line that is true.
LEMMA TruthStep ==
    ASSUME IInv, at \in Components, NEW status \in Statuses, NEW finding \in Findings,
           report' = Append(report, [status |-> status, finding |-> finding]),
           world' = world, killed \subseteq killed',
           Truthful(at, status, finding, world, killed')
    PROVE  /\ report' \in Seq(Lines) /\ Len(report') = at
           /\ Truth'
<1> DEFINE l == [status |-> status, finding |-> finding]
<1>1. report \in Seq(Lines) /\ l \in Lines
  BY DEF IInv, TypeOK, Lines
<1>2. Len(report) = at - 1
  <2>1. at # 0
    BY DEF Components
  <2> QED
    BY <2>1, Zenon DEF IInv, TypeOK
<1>3. /\ report' \in Seq(Lines) /\ Len(report') = Len(report) + 1
      /\ \A i \in 1..Len(report) : report'[i] = report[i]
      /\ report'[Len(report) + 1] = l
  <2> HIDE DEF l
  <2> SUFFICES /\ Append(report, l) \in Seq(Lines) /\ Len(Append(report, l)) = Len(report) + 1
               /\ \A i \in 1..Len(report) : Append(report, l)[i] = report[i]
               /\ Append(report, l)[Len(report) + 1] = l
    BY DEF l
  <2> QED
    BY <1>1, Appended
<1>4. Len(report') = at
  BY <1>2, <1>3 DEF Components
<1>5. ASSUME NEW c \in 1..at
      PROVE  Truthful(c, report'[c].status, report'[c].finding, world', killed')
  <2>1. CASE c = at
    <3>1. report'[c] = l
      BY <1>2, <1>3, <2>1 DEF Components
    <3>2. l.status = status /\ l.finding = finding
      OBVIOUS
    <3> HIDE DEF l
    <3> QED
      BY <3>1, <3>2, <2>1
  <2>2. CASE c # at
    <3>1. c \in 1..Len(report) /\ report'[c] = report[c]
      BY <1>2, <1>3, <2>2 DEF Components
    <3>2. Truthful(c, report[c].status, report[c].finding, world, killed)
      BY <3>1 DEF IInv, Truth
    <3>3. Truthful(c, report[c].status, report[c].finding, world, killed')
      BY <3>2 DEF Truthful
    <3> QED
      BY <3>1, <3>3
  <2> QED
    BY <2>1, <2>2
<1> QED
  BY <1>3, <1>4, <1>5 DEF Truth

\* A command of the probe has ended and the probe goes on.
LEMMA ContinueStep ==
    ASSUME IInv, at \in Components, NEW R, NEW o \in Outcomes(R), Ran(o),
           NEW s \in Steps, Continue(s, o), Knows(at, s, world)
    PROVE  IInv'
<1>1. /\ UNCHANGED <<world, cmd, cli, offered, recorded>>
      /\ elapsed' = elapsed + o.time /\ elapsed' \in Nat /\ elapsed' <= Patience[cmd']
      /\ gone' \in BOOLEAN /\ killed' \subseteq Components /\ cut' \in BOOLEAN
      /\ killed \subseteq killed' /\ (o.killed => at \in killed')
      /\ cut' => gone'
      /\ cli' # "told"
  BY RanFacts
<1>2. UNCHANGED <<at, report>> /\ step' = s /\ spent' = spent + o.time
  BY DEF Continue
<1>3. o.time \in Nat /\ spent + o.time <= Budget[at]
  BY OutcomeFacts DEF IInv
<1>4. spent' \in Nat /\ spent' <= Budget[at'] /\ spent \in Nat /\ elapsed \in Nat
  <2>1. spent \in Nat /\ elapsed \in Nat
    BY Zenon DEF IInv, TypeOK
  <2>2. Budget[at'] = Budget[at]
    BY <1>2
  <2> QED
    BY <1>2, <1>3, <2>1, <2>2
<1>5. TypeOK'
  BY <1>1, <1>2, <1>4 DEF IInv, TypeOK
<1>6. BudgetsHold'
  <2>1. \A c \in Components : Budget[c] \in Nat
    BY DiagnosisAssumption
  <2>2. \A c \in Components : Share(c) \in Nat
    BY <2>1 DEF Share
  <2>3. \A c : Share(c)' = Share(c)
    BY <1>2 DEF Share
  <2>4. Shares' = Shares
    BY <2>3 DEF Shares
  <2>5. Shares \in Nat
    BY <2>2 DEF Shares, Components, Daemon, Windows, Virtualization, Wsl, LinuxKernel,
                Resources, ContainerRuntime
  <2>6. elapsed <= spent + Shares
    BY DEF IInv, BudgetsHold, Components
  <2>7. elapsed' <= spent' + Shares'
    BY <1>1, <1>2, <1>3, <1>4, <2>4, <2>5, <2>6
  <2> QED
    BY <2>7 DEF BudgetsHold
<1>7. Truth'
  BY <1>1, <1>2 DEF IInv, Truth, Truthful
<1>8. Order' /\ ToldIsWhole'
  BY <1>1 DEF Order, ToldIsWhole, IInv
<1>9. Known'
  BY <1>1, <1>2 DEF Known
<1> QED
  BY <1>5, <1>6, <1>7, <1>8, <1>9 DEF IInv

\* A command of the probe has ended and so does the probe.
LEMMA ConcludeStep ==
    ASSUME IInv, at \in Components, NEW R, NEW o \in Outcomes(R), Ran(o),
           NEW status \in Statuses, NEW finding \in Findings, Conclude(status, finding),
           Truthful(at, status, finding, world, killed')
    PROVE  IInv'
<1>1. /\ UNCHANGED <<world, cmd, cli, offered, recorded>>
      /\ elapsed' = elapsed + o.time /\ elapsed' \in Nat /\ elapsed' <= Patience[cmd']
      /\ gone' \in BOOLEAN /\ killed' \subseteq Components /\ cut' \in BOOLEAN
      /\ killed \subseteq killed' /\ (o.killed => at \in killed')
      /\ cut' => gone'
      /\ cli' # "told"
  BY RanFacts
<1>2. /\ report' = Append(report, [status |-> status, finding |-> finding])
      /\ at' = at + 1 /\ step' = "begin" /\ spent' = 0
  BY DEF Conclude
<1>3. report' \in Seq(Lines) /\ Len(report') = at /\ Truth'
  BY <1>1, <1>2, TruthStep
<1>4. o.time \in Nat /\ spent + o.time <= Budget[at] /\ spent \in Nat /\ elapsed \in Nat
  BY OutcomeFacts DEF IInv, TypeOK
<1>5. at' \in 0..8 /\ at' # 0 /\ Len(report') = at' - 1 /\ step' \in Steps
  BY <1>2, <1>3 DEF Components, Steps
<1>6. TypeOK'
  BY <1>1, <1>2, <1>3, <1>5 DEF IInv, TypeOK, Lines
<1>7. BudgetsHold'
  <2> DEFINE d == spent + o.time
  <2>1. d \in Nat /\ d <= Budget[at] /\ elapsed' <= elapsed + (d - spent)
    BY <1>1, <1>4
  <2> HIDE DEF d
  <2> QED
    BY <1>1, <1>2, <1>4, <2>1, ShareStep DEF IInv
<1>8. Known'
  BY <1>2 DEF Known, Knows
<1>9. Order' /\ ToldIsWhole'
  BY <1>1 DEF Order, ToldIsWhole, IInv
<1> QED
  BY <1>3, <1>6, <1>7, <1>8, <1>9 DEF IInv

\* A probe ends without having run a command.
LEMMA TellStep ==
    ASSUME IInv, at \in Components, NEW status \in Statuses, NEW finding \in Findings,
           Tell(status, finding),
           Truthful(at, status, finding, world, killed)
    PROVE  IInv'
<1>1. UNCHANGED <<world, cmd, cli, offered, recorded, elapsed, gone, killed, cut>>
  BY DEF Tell, client, clock
<1>2. /\ report' = Append(report, [status |-> status, finding |-> finding])
      /\ at' = at + 1 /\ step' = "begin" /\ spent' = 0
  BY DEF Tell, Conclude
<1>3. report' \in Seq(Lines) /\ Len(report') = at /\ Truth'
  <2>1. killed \subseteq killed'
    BY <1>1
  <2>2. Truthful(at, status, finding, world, killed')
    BY <1>1
  <2> QED
    BY <1>1, <1>2, <2>1, <2>2, TruthStep
<1>4. spent \in Nat /\ elapsed \in Nat
  BY DEF IInv, TypeOK
<1>5. at' \in 0..8 /\ at' # 0 /\ Len(report') = at' - 1 /\ step' \in Steps
  BY <1>2, <1>3 DEF Components, Steps
<1>6. TypeOK'
  BY <1>1, <1>2, <1>3, <1>5 DEF IInv, TypeOK, Lines
<1>7. BudgetsHold'
  <2>1. spent <= Budget[at] /\ elapsed' <= elapsed + (spent - spent)
    <3>1. Budget[at] \in Nat
      BY DiagnosisAssumption
    <3>2. spent # 0 => spent <= Budget[at]
      BY DEF IInv, TypeOK
    <3> QED
      BY <1>1, <1>4, <3>1, <3>2
  <2> QED
    BY <1>1, <1>2, <1>4, <2>1, ShareStep DEF IInv
<1>8. Known'
  BY <1>2 DEF Known, Knows
<1>9. Order' /\ ToldIsWhole'
  BY <1>1 DEF Order, ToldIsWhole, IInv, Components
<1> QED
  BY <1>3, <1>6, <1>7, <1>8, <1>9 DEF IInv

-----------------------------------------------------------------------------
(* The probes                                                               *)

USE DEF Daemon, Windows, Virtualization, Wsl, LinuxKernel, Resources, ContainerRuntime

\* The step of a probe that tells.
LEMMA Telling ==
    ASSUME IInv, NEW c \in Components, at = c
    PROVE  \A status \in Statuses, finding \in Findings :
               Tell(status, finding) /\ Truthful(c, status, finding, world, killed) => IInv'
BY TellStep

\* The step of a probe that runs a command, and how that may have ended.
LEMMA Running ==
    ASSUME IInv, NEW c \in Components, at = c, NEW R, NEW o \in Outcomes(R), Ran(o)
    PROVE  /\ \A status \in Statuses, finding \in Findings :
                  Conclude(status, finding) /\ Truthful(c, status, finding, world, killed')
                      => IInv'
           /\ \A s \in Steps : Continue(s, o) /\ Knows(c, s, world) => IInv'
           /\ o.ok \in BOOLEAN
           /\ o.ok => "ok" \in R
           /\ ~o.ok => c \in killed' \/ \E r \in R : r # "ok" /\ r # "never"
<1>1. /\ o.ok \in BOOLEAN /\ o.killed \in BOOLEAN /\ (o.ok => "ok" \in R)
      /\ ~o.ok /\ ~o.killed => \E r \in R : r # "ok" /\ r # "never"
  BY OutcomeFacts DEF IInv
<1>2. o.killed => c \in killed'
  BY RanFacts
<1>3. ASSUME NEW status \in Statuses, NEW finding \in Findings, Conclude(status, finding),
             Truthful(c, status, finding, world, killed')
      PROVE  IInv'
  BY <1>3, ConcludeStep
<1>4. ASSUME NEW s \in Steps, Continue(s, o), Knows(c, s, world) PROVE IInv'
  BY <1>4, ContinueStep
<1> QED
  BY <1>1, <1>2, <1>3, <1>4

\* The daemon's own line.
LEMMA ProbeDaemonStep == IInv /\ ProbeDaemon => IInv'
<1> SUFFICES ASSUME IInv, ProbeDaemon PROVE IInv'
  OBVIOUS
<1>1. at = Daemon /\ Daemon \in Components
  BY DEF ProbeDaemon, Probing, Components
<1>2. /\ Truthful(Daemon, "HEALTHY", "running", world, killed)
  BY DEF Truthful, CauseOf, HealthOf, BlameOf
<1> QED
  BY <1>1, <1>2, Telling DEF ProbeDaemon, Statuses, Findings

\* RtlGetVersion.
LEMMA ProbeWindowsStep == IInv /\ ProbeWindows => IInv'
<1> SUFFICES ASSUME IInv, ProbeWindows PROVE IInv'
  OBVIOUS
<1>1. at = Windows /\ Windows \in Components
  BY DEF ProbeWindows, Probing, Components
<1>2. /\ Truthful(Windows, "UNKNOWN", "skipped", world, killed)
      /\ Truthful(Windows, "HEALTHY", "version", world, killed)
      /\ Truthful(Windows, "CRITICAL", "fault", world, killed)
  BY DEF Truthful, CauseOf, HealthOf, BlameOf
<1> QED
  BY <1>1, <1>2, Telling DEF ProbeWindows, Skip, Statuses, Findings

\* GlobalMemoryStatusEx.
LEMMA ProbeResourcesStep == IInv /\ ProbeResources => IInv'
<1> SUFFICES ASSUME IInv, ProbeResources PROVE IInv'
  OBVIOUS
<1>1. at = Resources /\ Resources \in Components
  BY DEF ProbeResources, Probing, Components
<1>2. /\ Truthful(Resources, "HEALTHY", "memory", world, killed)
      /\ Truthful(Resources, "UNKNOWN", "fault", world, killed)
  BY DEF Truthful, CauseOf, HealthOf, BlameOf
<1> QED
  BY <1>1, <1>2, Telling DEF ProbeResources, Statuses, Findings

\* wsl --status, and the firmware.
LEMMA ProbeVirtualizationStep == IInv /\ ProbeVirtualization => IInv'
<1> SUFFICES ASSUME IInv, ProbeVirtualization PROVE IInv'
  OBVIOUS
<1>1. at = Virtualization /\ step = "begin"
  BY Zenon DEF ProbeVirtualization, Probing
<1>2. Virtualization \in Components
  BY DEF Components
<1>3. world \in World
  BY Zenon DEF IInv, TypeOK, Worlds
<1>4. Knows(Virtualization, "begin", world)
  BY <1>1 DEF IInv, Known
<1>5. CASE world.os = "other" /\ Tell("UNKNOWN", "skipped")
  <2>1. Truthful(Virtualization, "UNKNOWN", "skipped", world, killed)
    BY <1>5 DEF Truthful, CauseOf, HealthOf, BlameOf
  <2> QED
    BY <1>1, <1>2, <1>5, <2>1, Telling DEF Statuses, Findings
<1>6. ASSUME NEW o \in Outcomes(Host), Ran(o),
             world.os = "windows",
             IF o.ok
               THEN Conclude("HEALTHY", "available")
             ELSE IF ~world.platform.cpu
               THEN Conclude("CRITICAL", "virtualization disabled")
             ELSE IF ~world.platform.slat
               THEN Conclude("CRITICAL", "no address translation")
             ELSE Continue("vmcompute", o)
      PROVE  IInv'
  <2>1. /\ \A status \in Statuses, finding \in Findings :
             Conclude(status, finding) /\ Truthful(Virtualization, status, finding, world, killed')
                 => IInv'
        /\ \A s \in Steps : Continue(s, o) /\ Knows(Virtualization, s, world) => IInv'
        /\ o.ok \in BOOLEAN
        /\ o.ok => "ok" \in Host
        /\ ~o.ok => Virtualization \in killed' \/ \E r \in Host : r # "ok" /\ r # "never"
    BY <1>1, <1>2, <1>6, Running
  <2>2. o.ok => Truthful(Virtualization, "HEALTHY", "available", world, killed')
    <3>1. o.ok => HealthOf(Virtualization, world)
      BY <2>1, ReplyFacts DEF HealthOf
    <3>2. BlameOf("available", world) /\ CauseOf("available", world.platform)
      BY DEF BlameOf, CauseOf
    <3> QED
      BY <3>1, <3>2 DEF Truthful
  <2>3. ~world.platform.cpu => Truthful(Virtualization, "CRITICAL", "virtualization disabled", world, killed')
    BY <1>3, <1>4, <1>6, <2>1, ReplyFacts DEF Truthful, CauseOf, HealthOf, BlameOf, Knows
  <2>4. world.platform.cpu /\ ~world.platform.slat => Truthful(Virtualization, "CRITICAL", "no address translation", world, killed')
    BY <1>3, <1>4, <1>6, <2>1, ReplyFacts DEF Truthful, CauseOf, HealthOf, BlameOf, Knows
  <2>5. Knows(Virtualization, "vmcompute", world)
    BY <1>3, <1>4, <1>6, <2>1, ReplyFacts DEF Knows
  <2> QED
    BY <1>6, <2>1, <2>2, <2>3, <2>4, <2>5 DEF Statuses, Findings, Steps
<1> QED
  BY <1>5, <1>6 DEF ProbeVirtualization, Skip

\* sc query vmcompute.
LEMMA QueryVmcomputeStep == IInv /\ QueryVmcompute => IInv'
<1> SUFFICES ASSUME IInv, QueryVmcompute PROVE IInv'
  OBVIOUS
<1>1. at = Virtualization /\ step = "vmcompute"
  BY Zenon DEF QueryVmcompute, Probing
<1>2. Virtualization \in Components
  BY DEF Components
<1>3. world \in World
  BY Zenon DEF IInv, TypeOK, Worlds
<1>4. Knows(Virtualization, "vmcompute", world)
  BY <1>1 DEF IInv, Known
<1>5. ASSUME NEW o \in Outcomes({"ok", "error"}), Ran(o),
             IF ~o.ok \/ world.platform.vmcompute = "running"
               THEN Continue("WslService", o)
             ELSE IF world.platform.vmcompute = "missing"
               THEN Conclude("CRITICAL", "platform not installed")
             ELSE Conclude("CRITICAL", "host service stopped")
      PROVE  IInv'
  <2>1. /\ \A status \in Statuses, finding \in Findings :
             Conclude(status, finding) /\ Truthful(Virtualization, status, finding, world, killed')
                 => IInv'
        /\ \A s \in Steps : Continue(s, o) /\ Knows(Virtualization, s, world) => IInv'
        /\ o.ok \in BOOLEAN
        /\ o.ok => "ok" \in {"ok", "error"}
        /\ ~o.ok => Virtualization \in killed' \/ \E r \in {"ok", "error"} : r # "ok" /\ r # "never"
    BY <1>1, <1>2, <1>5, Running
  <2>2. Knows(Virtualization, "WslService", world)
    BY <1>3, <1>4, <1>5, <2>1, ReplyFacts DEF Knows
  <2>3. world.platform.vmcompute = "missing" => Truthful(Virtualization, "CRITICAL", "platform not installed", world, killed')
    BY <1>3, <1>4, <1>5, <2>1, ReplyFacts DEF Truthful, CauseOf, HealthOf, BlameOf, Knows, World, Platforms, Services
  <2>4. world.platform.vmcompute \notin {"running", "missing"} => Truthful(Virtualization, "CRITICAL", "host service stopped", world, killed')
    BY <1>3, <1>4, <1>5, <2>1, ReplyFacts DEF Truthful, CauseOf, HealthOf, BlameOf, Knows, World, Platforms, Services
  <2> QED
    BY <1>5, <2>1, <2>2, <2>3, <2>4 DEF Statuses, Findings, Steps
<1> QED
  BY <1>5 DEF QueryVmcompute

\* sc query WslService.
LEMMA QueryWslServiceStep == IInv /\ QueryWslService => IInv'
<1> SUFFICES ASSUME IInv, QueryWslService PROVE IInv'
  OBVIOUS
<1>1. at = Virtualization /\ step = "WslService"
  BY Zenon DEF QueryWslService, Probing
<1>2. Virtualization \in Components
  BY DEF Components
<1>3. world \in World
  BY Zenon DEF IInv, TypeOK, Worlds
<1>4. Knows(Virtualization, "WslService", world)
  BY <1>1 DEF IInv, Known
<1>5. ASSUME NEW o \in Outcomes({"ok", "error"}), Ran(o),
             IF o.ok /\ world.platform.service = "stopped"
               THEN Conclude("CRITICAL", "WSL service stopped")
             ELSE Conclude("CRITICAL", "unavailable")
      PROVE  IInv'
  <2>1. /\ \A status \in Statuses, finding \in Findings :
             Conclude(status, finding) /\ Truthful(Virtualization, status, finding, world, killed')
                 => IInv'
        /\ \A s \in Steps : Continue(s, o) /\ Knows(Virtualization, s, world) => IInv'
        /\ o.ok \in BOOLEAN
        /\ o.ok => "ok" \in {"ok", "error"}
        /\ ~o.ok => Virtualization \in killed' \/ \E r \in {"ok", "error"} : r # "ok" /\ r # "never"
    BY <1>1, <1>2, <1>5, Running
  <2>2. world.platform.service = "stopped" => Truthful(Virtualization, "CRITICAL", "WSL service stopped", world, killed')
    BY <1>3, <1>4, <1>5, <2>1, ReplyFacts DEF Truthful, CauseOf, HealthOf, BlameOf, Knows
  <2>3. Truthful(Virtualization, "CRITICAL", "unavailable", world, killed')
    BY <1>3, <1>4, <1>5, <2>1, ReplyFacts DEF Truthful, CauseOf, HealthOf, BlameOf, Knows
  <2> QED
    BY <1>5, <2>1, <2>2, <2>3 DEF Statuses, Findings, Steps
<1> QED
  BY <1>5 DEF QueryWslService

\* wsl.exe lists the distributions.
LEMMA ProbeWslStep == IInv /\ ProbeWsl => IInv'
<1> SUFFICES ASSUME IInv, ProbeWsl PROVE IInv'
  OBVIOUS
<1>1. at = Wsl /\ step = "begin"
  BY Zenon DEF ProbeWsl, Probing
<1>2. Wsl \in Components
  BY DEF Components
<1>3. world \in World
  BY Zenon DEF IInv, TypeOK, Worlds
<1>4. Knows(Wsl, "begin", world)
  BY <1>1 DEF IInv, Known
<1>5. CASE world.host = "missing" /\ Tell("CRITICAL", "not installed")
  <2>1. Truthful(Wsl, "CRITICAL", "not installed", world, killed)
    BY <1>5 DEF Truthful, CauseOf, HealthOf, BlameOf
  <2> QED
    BY <1>1, <1>2, <1>5, <2>1, Telling DEF Statuses, Findings
<1>6. ASSUME NEW o \in Outcomes(Host), Ran(o),
             world.host # "missing",
             IF ~o.ok
               THEN Conclude("CRITICAL", "could not query")
             ELSE IF world.distro = "none"
               THEN Conclude("WARNING", "no distribution")
             ELSE Continue("boot", o)
      PROVE  IInv'
  <2>1. /\ \A status \in Statuses, finding \in Findings :
             Conclude(status, finding) /\ Truthful(Wsl, status, finding, world, killed')
                 => IInv'
        /\ \A s \in Steps : Continue(s, o) /\ Knows(Wsl, s, world) => IInv'
        /\ o.ok \in BOOLEAN
        /\ o.ok => "ok" \in Host
        /\ ~o.ok => Wsl \in killed' \/ \E r \in Host : r # "ok" /\ r # "never"
    BY <1>1, <1>2, <1>6, Running
  <2>2. ~o.ok => Truthful(Wsl, "CRITICAL", "could not query", world, killed')
    BY <1>3, <1>4, <1>6, <2>1, ReplyFacts DEF Truthful, CauseOf, HealthOf, BlameOf, Knows, World
  <2>3. o.ok /\ world.distro = "none" => Truthful(Wsl, "WARNING", "no distribution", world, killed')
    BY <1>3, <1>4, <1>6, <2>1, ReplyFacts DEF Truthful, CauseOf, HealthOf, BlameOf, Knows, World
  <2>4. o.ok /\ world.distro # "none" => Knows(Wsl, "boot", world)
    BY <1>3, <1>4, <1>6, <2>1, ReplyFacts DEF Knows
  <2> QED
    BY <1>6, <2>1, <2>2, <2>3, <2>4 DEF Statuses, Findings, Steps
<1> QED
  BY <1>5, <1>6 DEF ProbeWsl

\* wsl.exe boots the default distribution.
LEMMA BootWslStep == IInv /\ BootWsl => IInv'
<1> SUFFICES ASSUME IInv, BootWsl PROVE IInv'
  OBVIOUS
<1>1. at = Wsl /\ step = "boot"
  BY Zenon DEF BootWsl, Probing
<1>2. Wsl \in Components
  BY DEF Components
<1>3. world \in World
  BY Zenon DEF IInv, TypeOK, Worlds
<1>4. Knows(Wsl, "boot", world)
  BY <1>1 DEF IInv, Known
<1>5. ASSUME NEW o \in Outcomes(Distro), Ran(o),
             IF o.ok
               THEN Continue("list", o)
             ELSE Conclude("CRITICAL", "failed to start")
      PROVE  IInv'
  <2>1. /\ \A status \in Statuses, finding \in Findings :
             Conclude(status, finding) /\ Truthful(Wsl, status, finding, world, killed')
                 => IInv'
        /\ \A s \in Steps : Continue(s, o) /\ Knows(Wsl, s, world) => IInv'
        /\ o.ok \in BOOLEAN
        /\ o.ok => "ok" \in Distro
        /\ ~o.ok => Wsl \in killed' \/ \E r \in Distro : r # "ok" /\ r # "never"
    BY <1>1, <1>2, <1>5, Running
  <2>2. o.ok => Knows(Wsl, "list", world)
    BY <1>3, <1>4, <1>5, <2>1, ReplyFacts DEF Knows
  <2>3. ~o.ok => Truthful(Wsl, "CRITICAL", "failed to start", world, killed')
    BY <1>3, <1>4, <1>5, <2>1, ReplyFacts DEF Truthful, CauseOf, HealthOf, BlameOf, Knows, World
  <2> QED
    BY <1>5, <2>1, <2>2, <2>3 DEF Statuses, Findings, Steps
<1> QED
  BY <1>5 DEF BootWsl

\* wsl.exe lists them once more.
LEMMA ListWslStep == IInv /\ ListWsl => IInv'
<1> SUFFICES ASSUME IInv, ListWsl PROVE IInv'
  OBVIOUS
<1>1. at = Wsl /\ step = "list"
  BY Zenon DEF ListWsl, Probing
<1>2. Wsl \in Components
  BY DEF Components
<1>3. world \in World
  BY Zenon DEF IInv, TypeOK, Worlds
<1>4. Knows(Wsl, "list", world)
  BY <1>1 DEF IInv, Known
<1>5. ASSUME NEW o \in Outcomes(Host), Ran(o),
             Conclude("HEALTHY", "ready")
      PROVE  IInv'
  <2>1. /\ \A status \in Statuses, finding \in Findings :
             Conclude(status, finding) /\ Truthful(Wsl, status, finding, world, killed')
                 => IInv'
        /\ \A s \in Steps : Continue(s, o) /\ Knows(Wsl, s, world) => IInv'
        /\ o.ok \in BOOLEAN
        /\ o.ok => "ok" \in Host
        /\ ~o.ok => Wsl \in killed' \/ \E r \in Host : r # "ok" /\ r # "never"
    BY <1>1, <1>2, <1>5, Running
  <2>2. Truthful(Wsl, "HEALTHY", "ready", world, killed')
    <3>1. HealthOf(Wsl, world)
      BY <1>4 DEF HealthOf, Knows
    <3>2. BlameOf("ready", world)
      BY DEF BlameOf
    <3> QED
      BY <3>1, <3>2 DEF Truthful, CauseOf
  <2> QED
    BY <1>5, <2>1, <2>2 DEF Statuses, Findings, Steps
<1> QED
  BY <1>5 DEF ListWsl

\* wsl.exe tells its kernel.
LEMMA ProbeKernelStep == IInv /\ ProbeKernel => IInv'
<1> SUFFICES ASSUME IInv, ProbeKernel PROVE IInv'
  OBVIOUS
<1>1. at = LinuxKernel /\ step = "begin"
  BY Zenon DEF ProbeKernel, Probing
<1>2. LinuxKernel \in Components
  BY DEF Components
<1>3. world \in World
  BY Zenon DEF IInv, TypeOK, Worlds
<1>4. Knows(LinuxKernel, "begin", world)
  BY <1>1 DEF IInv, Known
<1>5. CASE world.host = "missing" /\ Tell("UNKNOWN", "skipped")
  <2>1. Truthful(LinuxKernel, "UNKNOWN", "skipped", world, killed)
    BY <1>5 DEF Truthful, CauseOf, HealthOf, BlameOf
  <2> QED
    BY <1>1, <1>2, <1>5, <2>1, Telling DEF Statuses, Findings
<1>6. ASSUME NEW o \in Outcomes(Host), Ran(o),
             world.host # "missing",
             IF ~o.ok \/ world.kernel = <<>>
               THEN Conclude("UNKNOWN", "unavailable")
             ELSE IF Outdated(world.kernel)
               THEN Conclude("WARNING", "outdated")
             ELSE Conclude("HEALTHY", "version")
      PROVE  IInv'
  <2>1. /\ \A status \in Statuses, finding \in Findings :
             Conclude(status, finding) /\ Truthful(LinuxKernel, status, finding, world, killed')
                 => IInv'
        /\ \A s \in Steps : Continue(s, o) /\ Knows(LinuxKernel, s, world) => IInv'
        /\ o.ok \in BOOLEAN
        /\ o.ok => "ok" \in Host
        /\ ~o.ok => LinuxKernel \in killed' \/ \E r \in Host : r # "ok" /\ r # "never"
    BY <1>1, <1>2, <1>6, Running
  <2>2. Truthful(LinuxKernel, "UNKNOWN", "unavailable", world, killed')
    BY <1>3, <1>4, <1>6, <2>1, ReplyFacts DEF Truthful, CauseOf, HealthOf, BlameOf, Knows, World
  <2>3. Outdated(world.kernel) => Truthful(LinuxKernel, "WARNING", "outdated", world, killed')
    BY <1>3, OldKernel DEF Truthful, CauseOf, HealthOf, BlameOf
  <2>4. Readable(world.kernel) => Truthful(LinuxKernel, "HEALTHY", "version", world, killed')
    BY DEF Truthful, CauseOf, HealthOf, BlameOf
  <2>5. world.kernel = <<>> \/ Readable(world.kernel)
    BY Zenon DEF Readable
  <2> QED
    BY <1>6, <2>1, <2>2, <2>3, <2>4, <2>5 DEF Statuses, Findings, Steps
<1> QED
  BY <1>5, <1>6 DEF ProbeKernel

\* The default distribution, for docker.
LEMMA ProbeContainersStep == IInv /\ ProbeContainers => IInv'
<1> SUFFICES ASSUME IInv, ProbeContainers PROVE IInv'
  OBVIOUS
<1>1. at = ContainerRuntime /\ step = "begin"
  BY Zenon DEF ProbeContainers, Probing
<1>2. ContainerRuntime \in Components
  BY DEF Components
<1>3. world \in World
  BY Zenon DEF IInv, TypeOK, Worlds
<1>4. Knows(ContainerRuntime, "begin", world)
  BY <1>1 DEF IInv, Known
<1>5. CASE world.host = "missing" /\ Tell("UNKNOWN", "skipped")
  <2>1. Truthful(ContainerRuntime, "UNKNOWN", "skipped", world, killed)
    BY <1>5 DEF Truthful, CauseOf, HealthOf, BlameOf
  <2> QED
    BY <1>1, <1>2, <1>5, <2>1, Telling DEF Statuses, Findings
<1>6. ASSUME NEW o \in Outcomes(Host), Ran(o),
             world.host # "missing",
             IF o.ok /\ world.distro # "none"
               THEN Continue("client", o)
             ELSE Conclude("UNKNOWN", "unreachable")
      PROVE  IInv'
  <2>1. /\ \A status \in Statuses, finding \in Findings :
             Conclude(status, finding) /\ Truthful(ContainerRuntime, status, finding, world, killed')
                 => IInv'
        /\ \A s \in Steps : Continue(s, o) /\ Knows(ContainerRuntime, s, world) => IInv'
        /\ o.ok \in BOOLEAN
        /\ o.ok => "ok" \in Host
        /\ ~o.ok => ContainerRuntime \in killed' \/ \E r \in Host : r # "ok" /\ r # "never"
    BY <1>1, <1>2, <1>6, Running
  <2>2. o.ok /\ world.distro # "none" => Knows(ContainerRuntime, "client", world)
    BY <1>3, <1>4, <1>6, <2>1, ReplyFacts DEF Knows
  <2>3. ~(o.ok /\ world.distro # "none") => Truthful(ContainerRuntime, "UNKNOWN", "unreachable", world, killed')
    BY <1>3, <1>4, <1>6, <2>1, ReplyFacts DEF Truthful, CauseOf, HealthOf, BlameOf, Knows, World
  <2> QED
    BY <1>6, <2>1, <2>2, <2>3 DEF Statuses, Findings, Steps
<1> QED
  BY <1>5, <1>6 DEF ProbeContainers

\* docker, asked for its own version.
LEMMA AskClientStep == IInv /\ AskClient => IInv'
<1> SUFFICES ASSUME IInv, AskClient PROVE IInv'
  OBVIOUS
<1>1. at = ContainerRuntime /\ step = "client"
  BY Zenon DEF AskClient, Probing
<1>2. ContainerRuntime \in Components
  BY DEF Components
<1>3. world \in World
  BY Zenon DEF IInv, TypeOK, Worlds
<1>4. Knows(ContainerRuntime, "client", world)
  BY <1>1 DEF IInv, Known
<1>5. ASSUME NEW o \in Outcomes(Docker(FALSE)), Ran(o),
             IF o.ok
               THEN Continue("list for server", o)
             ELSE Conclude("WARNING", "no docker")
      PROVE  IInv'
  <2>1. /\ \A status \in Statuses, finding \in Findings :
             Conclude(status, finding) /\ Truthful(ContainerRuntime, status, finding, world, killed')
                 => IInv'
        /\ \A s \in Steps : Continue(s, o) /\ Knows(ContainerRuntime, s, world) => IInv'
        /\ o.ok \in BOOLEAN
        /\ o.ok => "ok" \in Docker(FALSE)
        /\ ~o.ok => ContainerRuntime \in killed' \/ \E r \in Docker(FALSE) : r # "ok" /\ r # "never"
    BY <1>1, <1>2, <1>5, Running
  <2>2. o.ok => Knows(ContainerRuntime, "list for server", world)
    BY <1>3, <1>4, <1>5, <2>1, DockerFacts DEF Knows
  <2>3. ~o.ok => Truthful(ContainerRuntime, "WARNING", "no docker", world, killed')
    BY <1>3, <1>4, <1>5, <2>1, DockerFacts DEF Truthful, CauseOf, HealthOf, BlameOf, Knows, World
  <2> QED
    BY <1>5, <2>1, <2>2, <2>3 DEF Statuses, Findings, Steps
<1> QED
  BY <1>5 DEF AskClient

\* The default distribution again.
LEMMA ListForServerStep == IInv /\ ListForServer => IInv'
<1> SUFFICES ASSUME IInv, ListForServer PROVE IInv'
  OBVIOUS
<1>1. at = ContainerRuntime /\ step = "list for server"
  BY Zenon DEF ListForServer, Probing
<1>2. ContainerRuntime \in Components
  BY DEF Components
<1>3. world \in World
  BY Zenon DEF IInv, TypeOK, Worlds
<1>4. Knows(ContainerRuntime, "list for server", world)
  BY <1>1 DEF IInv, Known
<1>5. ASSUME NEW o \in Outcomes(Host), Ran(o),
             IF o.ok
               THEN Continue("server", o)
             ELSE Conclude("CRITICAL", "daemon silent")
      PROVE  IInv'
  <2>1. /\ \A status \in Statuses, finding \in Findings :
             Conclude(status, finding) /\ Truthful(ContainerRuntime, status, finding, world, killed')
                 => IInv'
        /\ \A s \in Steps : Continue(s, o) /\ Knows(ContainerRuntime, s, world) => IInv'
        /\ o.ok \in BOOLEAN
        /\ o.ok => "ok" \in Host
        /\ ~o.ok => ContainerRuntime \in killed' \/ \E r \in Host : r # "ok" /\ r # "never"
    BY <1>1, <1>2, <1>5, Running
  <2>2. Knows(ContainerRuntime, "server", world)
    BY <1>3, <1>4, <1>5, <2>1, ReplyFacts DEF Knows
  <2>3. ~o.ok => Truthful(ContainerRuntime, "CRITICAL", "daemon silent", world, killed')
    BY <1>3, <1>4, <1>5, <2>1, ReplyFacts DEF Truthful, CauseOf, HealthOf, BlameOf, Knows
  <2> QED
    BY <1>5, <2>1, <2>2, <2>3 DEF Statuses, Findings, Steps
<1> QED
  BY <1>5 DEF ListForServer

\* docker, asked for the daemon's version.
LEMMA AskServerStep == IInv /\ AskServer => IInv'
<1> SUFFICES ASSUME IInv, AskServer PROVE IInv'
  OBVIOUS
<1>1. at = ContainerRuntime /\ step = "server"
  BY Zenon DEF AskServer, Probing
<1>2. ContainerRuntime \in Components
  BY DEF Components
<1>3. world \in World
  BY Zenon DEF IInv, TypeOK, Worlds
<1>4. Knows(ContainerRuntime, "server", world)
  BY <1>1 DEF IInv, Known
<1>5. ASSUME NEW o \in Outcomes(Docker(TRUE)), Ran(o),
             IF o.ok
               THEN Continue("list for ps", o)
             ELSE Conclude("CRITICAL", "daemon silent")
      PROVE  IInv'
  <2>1. /\ \A status \in Statuses, finding \in Findings :
             Conclude(status, finding) /\ Truthful(ContainerRuntime, status, finding, world, killed')
                 => IInv'
        /\ \A s \in Steps : Continue(s, o) /\ Knows(ContainerRuntime, s, world) => IInv'
        /\ o.ok \in BOOLEAN
        /\ o.ok => "ok" \in Docker(TRUE)
        /\ ~o.ok => ContainerRuntime \in killed' \/ \E r \in Docker(TRUE) : r # "ok" /\ r # "never"
    BY <1>1, <1>2, <1>5, Running
  <2>2. o.ok => Knows(ContainerRuntime, "list for ps", world)
    BY <1>3, <1>4, <1>5, <2>1, DockerFacts DEF Knows
  <2>3. ~o.ok => Truthful(ContainerRuntime, "CRITICAL", "daemon silent", world, killed')
    BY <1>3, <1>4, <1>5, <2>1, DockerFacts DEF Truthful, CauseOf, HealthOf, BlameOf, Knows, World
  <2> QED
    BY <1>5, <2>1, <2>2, <2>3 DEF Statuses, Findings, Steps
<1> QED
  BY <1>5 DEF AskServer

\* The default distribution, a third time.
LEMMA ListForPsStep == IInv /\ ListForPs => IInv'
<1> SUFFICES ASSUME IInv, ListForPs PROVE IInv'
  OBVIOUS
<1>1. at = ContainerRuntime /\ step = "list for ps"
  BY Zenon DEF ListForPs, Probing
<1>2. ContainerRuntime \in Components
  BY DEF Components
<1>3. world \in World
  BY Zenon DEF IInv, TypeOK, Worlds
<1>4. Knows(ContainerRuntime, "list for ps", world)
  BY <1>1 DEF IInv, Known
<1>5. ASSUME NEW o \in Outcomes(Host), Ran(o),
             IF o.ok
               THEN Continue("ps", o)
             ELSE Conclude("HEALTHY", "ready")
      PROVE  IInv'
  <2>1. /\ \A status \in Statuses, finding \in Findings :
             Conclude(status, finding) /\ Truthful(ContainerRuntime, status, finding, world, killed')
                 => IInv'
        /\ \A s \in Steps : Continue(s, o) /\ Knows(ContainerRuntime, s, world) => IInv'
        /\ o.ok \in BOOLEAN
        /\ o.ok => "ok" \in Host
        /\ ~o.ok => ContainerRuntime \in killed' \/ \E r \in Host : r # "ok" /\ r # "never"
    BY <1>1, <1>2, <1>5, Running
  <2>2. Knows(ContainerRuntime, "ps", world)
    BY <1>3, <1>4, <1>5, <2>1, ReplyFacts DEF Knows
  <2>3. Truthful(ContainerRuntime, "HEALTHY", "ready", world, killed')
    <3>1. HealthOf(ContainerRuntime, world)
      BY <1>4 DEF HealthOf, Knows
    <3>2. BlameOf("ready", world)
      BY DEF BlameOf
    <3> QED
      BY <3>1, <3>2 DEF Truthful, CauseOf
  <2> QED
    BY <1>5, <2>1, <2>2, <2>3 DEF Statuses, Findings, Steps
<1> QED
  BY <1>5 DEF ListForPs

\* docker ps.
LEMMA ListContainersStep == IInv /\ ListContainers => IInv'
<1> SUFFICES ASSUME IInv, ListContainers PROVE IInv'
  OBVIOUS
<1>1. at = ContainerRuntime /\ step = "ps"
  BY Zenon DEF ListContainers, Probing
<1>2. ContainerRuntime \in Components
  BY DEF Components
<1>3. world \in World
  BY Zenon DEF IInv, TypeOK, Worlds
<1>4. Knows(ContainerRuntime, "ps", world)
  BY <1>1 DEF IInv, Known
<1>5. ASSUME NEW o \in Outcomes(Docker(TRUE)), Ran(o),
             Conclude("HEALTHY", "ready")
      PROVE  IInv'
  <2>1. /\ \A status \in Statuses, finding \in Findings :
             Conclude(status, finding) /\ Truthful(ContainerRuntime, status, finding, world, killed')
                 => IInv'
        /\ \A s \in Steps : Continue(s, o) /\ Knows(ContainerRuntime, s, world) => IInv'
        /\ o.ok \in BOOLEAN
        /\ o.ok => "ok" \in Docker(TRUE)
        /\ ~o.ok => ContainerRuntime \in killed' \/ \E r \in Docker(TRUE) : r # "ok" /\ r # "never"
    BY <1>1, <1>2, <1>5, Running
  <2>2. Truthful(ContainerRuntime, "HEALTHY", "ready", world, killed')
    <3>1. HealthOf(ContainerRuntime, world)
      BY <1>4 DEF HealthOf, Knows
    <3>2. BlameOf("ready", world)
      BY DEF BlameOf
    <3> QED
      BY <3>1, <3>2 DEF Truthful, CauseOf
  <2> QED
    BY <1>5, <2>1, <2>2 DEF Statuses, Findings, Steps
<1> QED
  BY <1>5 DEF ListContainers

\* A probe panics.
LEMMA PanicStep == IInv /\ Panic => IInv'
<1> SUFFICES ASSUME IInv, Panic PROVE IInv'
  OBVIOUS
<1>1. at \in Components /\ Tell("CRITICAL", "fault")
  BY DEF Panic
<1>2. Truthful(at, "CRITICAL", "fault", world, killed)
  BY DEF Truthful, CauseOf, BlameOf
<1> QED
  BY <1>1, <1>2, Telling DEF Statuses, Findings

LEMMA ProbeStep == IInv /\ Probe => IInv'
BY ProbeDaemonStep, ProbeWindowsStep, ProbeVirtualizationStep, QueryVmcomputeStep,
   QueryWslServiceStep, ProbeWslStep, BootWslStep, ListWslStep, ProbeKernelStep,
   ProbeResourcesStep, ProbeContainersStep, AskClientStep, ListForServerStep,
   AskServerStep, ListForPsStep, ListContainersStep, PanicStep, Zenon DEF Probe

-----------------------------------------------------------------------------
(* The call                                                                 *)

LEMMA InitIInv == Init => IInv
<1> SUFFICES ASSUME Init PROVE IInv
  OBVIOUS
<1>a. report = <<>>
  BY Zenon DEF Init
<1>1. /\ at = 0 /\ step = "begin" /\ cut = FALSE /\ cli = "idle"
      /\ recorded = "none" /\ spent = 0 /\ elapsed = 0 /\ cmd = "status" /\ killed = {}
      /\ offered = FALSE /\ gone = FALSE /\ world \in Worlds
  BY DEF Init
<1>2. report \in Seq(Lines) /\ Len(report) = 0
  <2>1. <<>> \in Seq(Lines) /\ Len(<<>>) = 0
    OBVIOUS
  <2> QED
    BY <1>a, <2>1, Zenon
<1>3. Patience["status"] \in Nat
  BY DiagnosisAssumption DEF Commands
<1>4. TypeOK
  <2>1. elapsed \in Nat /\ elapsed <= Patience[cmd]
    BY <1>1, <1>3
  <2>2. /\ cmd \in Commands /\ at \in 0..8 /\ step \in Steps
        /\ cli \in {"idle", "waiting", "told", "gave up", "interrupted"}
        /\ spent \in Nat /\ ~(spent # 0) /\ ~(at # 0)
        /\ recorded \in {"none", "whole", "cut"}
    BY <1>1 DEF Commands, Steps
  <2>3. /\ gone \in BOOLEAN /\ offered \in BOOLEAN /\ cut \in BOOLEAN
        /\ killed \subseteq Components
    BY <1>1, Zenon
  <2> QED
    BY <1>1, <1>2, <2>1, <2>2, <2>3, Zenon DEF TypeOK, Lines
<1>5. BudgetsHold /\ Known /\ Order /\ ToldIsWhole
  BY <1>1 DEF BudgetsHold, Known, Knows, Order, ToldIsWhole
<1>6. Truth
  BY <1>2 DEF Truth
<1> QED
  BY <1>4, <1>5, <1>6 DEF IInv

\* Once all probes are done there is nothing to know.
LEMMA NothingKnown == ASSUME NEW s, NEW w PROVE Knows(8, s, w)
<1>1. 8 # Wsl /\ 8 # ContainerRuntime
  OBVIOUS
<1> QED
  BY <1>1, Zenon DEF Knows

\* A step that touches neither the probe nor the clock, but for ending the
\* context of the call.
LEMMA QuietStep ==
    ASSUME IInv, UNCHANGED <<world, cmd, at, report, spent, elapsed, killed, cut>>,
           step' = step \/ (at = 8 /\ step' \in Steps),
           gone' \in BOOLEAN, gone => gone', offered' \in BOOLEAN,
           cli' \in {"idle", "waiting", "told", "gave up", "interrupted"},
           cli' = "told" => cli = "told",
           recorded' \in {"none", "whole"}
    PROVE  IInv'
<1>1. report' \in Seq(Lines) /\ (at' # 0 => Len(report') = at' - 1)
  BY Zenon DEF IInv, TypeOK, Lines
<1>2. elapsed' \in Nat /\ elapsed' <= Patience[cmd'] /\ spent' \in Nat
      /\ (spent' # 0 => at' \in Components /\ spent' <= Budget[at'])
  BY Zenon DEF IInv, TypeOK
<1>3. /\ world' \in Worlds /\ cmd' \in Commands /\ at' \in 0..8 /\ step' \in Steps
      /\ killed' \subseteq Components /\ cut' \in BOOLEAN
  BY DEF IInv, TypeOK
<1>4. TypeOK'
  BY <1>1, <1>2, <1>3, Zenon DEF TypeOK, Lines
<1>5. BudgetsHold'
  <2>1. \A c : Share(c)' = Share(c)
    BY DEF Share
  <2>2. Shares' = Shares
    BY <2>1 DEF Shares
  <2> QED
    BY <2>2 DEF IInv, BudgetsHold
<1>6. Known'
  <2>1. CASE step' = step
    BY <2>1 DEF IInv, Known
  <2>2. CASE at = 8
    <3>1. at' = 8
      BY <2>2
    <3>2. Knows(8, step', world')
      BY NothingKnown
    <3> QED
      BY <3>1, <3>2 DEF Known
  <2> QED
    BY <2>1, <2>2
<1>7. Truth'
  BY Zenon DEF IInv, Truth
<1>8. Order' /\ ToldIsWhole'
  BY DEF IInv, Order, ToldIsWhole
<1> QED
  BY <1>4, <1>5, <1>6, <1>7, <1>8 DEF IInv

\* The handler returns.
LEMMA ReplyStep == IInv /\ Reply => IInv'
<1> SUFFICES ASSUME IInv, Reply PROVE IInv'
  OBVIOUS
<1>1. /\ at = 8 /\ at' = 0 /\ step = "reply"
      /\ UNCHANGED <<world, cmd, step, report, spent, elapsed, gone, killed, cut, recorded>>
  BY DEF Reply, clock
<1>2. (gone /\ UNCHANGED <<cli, offered>>) \/ (~gone /\ cli' = "told" /\ offered' \in BOOLEAN)
  BY <1>1 DEF Reply, IInv, TypeOK
<1>3. ~gone => ~cut
  BY DEF IInv, Order
<1>4. spent = 0
  <2>1. spent # 0 => at \in Components
    BY Zenon DEF IInv, TypeOK
  <2> QED
    BY <1>1, <2>1 DEF Components
<1>5. report' \in Seq(Lines)
  BY <1>1, Zenon DEF IInv, TypeOK, Lines
<1>6. elapsed' \in Nat /\ elapsed' <= Patience[cmd'] /\ spent' = 0
  BY <1>1, <1>4, Zenon DEF IInv, TypeOK
<1>7. /\ world' \in Worlds /\ cmd' \in Commands /\ at' \in 0..8 /\ step' \in Steps
      /\ killed' \subseteq Components /\ cut' \in BOOLEAN /\ gone' \in BOOLEAN
      /\ recorded' \in {"none", "whole", "cut"}
  <2>1. /\ world \in Worlds /\ cmd \in Commands /\ step \in Steps
        /\ killed \subseteq Components /\ cut \in BOOLEAN /\ gone \in BOOLEAN
        /\ recorded \in {"none", "whole", "cut"}
    BY Zenon DEF IInv, TypeOK
  <2> QED
    BY <1>1, <2>1
<1>8. /\ cli' \in {"idle", "waiting", "told", "gave up", "interrupted"}
      /\ offered' \in BOOLEAN
  BY <1>2 DEF IInv, TypeOK
<1>9. TypeOK'
  <2>1. spent' \in Nat /\ ~(spent' # 0)
    BY <1>6
  <2>2. ~(at' # 0)
    BY <1>1
  <2> QED
    BY <1>5, <1>6, <1>7, <1>8, <2>1, <2>2, Zenon DEF TypeOK, Lines
<1>10. BudgetsHold' /\ Known'
  BY <1>1 DEF BudgetsHold, Known, Knows
<1>11. Truth'
  BY <1>1, Zenon DEF IInv, Truth
<1>12. Order' /\ ToldIsWhole'
  BY <1>1, <1>2, <1>3 DEF IInv, Order, ToldIsWhole
<1> QED
  BY <1>9, <1>10, <1>11, <1>12 DEF IInv

\* The next command is given.
LEMMA AskStep == ASSUME IInv, NEW k \in Commands, Ask(k) PROVE IInv'
<1>1. /\ cmd' = k /\ cli' = "waiting" /\ at' = 1 /\ step' = "begin" /\ spent' = 0
      /\ elapsed' = 0 /\ gone' = FALSE /\ killed' = {} /\ cut' = FALSE
      /\ recorded' = "none" /\ UNCHANGED <<world, offered>>
  BY DEF Ask
<1>a. report' = <<>>
  BY Zenon DEF Ask
<1>2. report' \in Seq(Lines) /\ Len(report') = 0
  <2>1. <<>> \in Seq(Lines) /\ Len(<<>>) = 0
    OBVIOUS
  <2> QED
    BY <1>a, <2>1, Zenon
<1>3. Patience[k] \in Nat
  BY DiagnosisAssumption
<1>4. world' \in Worlds /\ offered' \in BOOLEAN
  BY <1>1 DEF IInv, TypeOK
<1>5. TypeOK'
  <2>1. elapsed' \in Nat /\ elapsed' <= Patience[cmd'] /\ at' - 1 = 0
    BY <1>1, <1>3
  <2>2. /\ cmd' \in Commands /\ at' \in 0..8 /\ step' \in Steps
        /\ cli' \in {"idle", "waiting", "told", "gave up", "interrupted"}
        /\ spent' \in Nat /\ ~(spent' # 0) /\ recorded' \in {"none", "whole", "cut"}
    BY <1>1 DEF Steps
  <2>3. gone' \in BOOLEAN /\ cut' \in BOOLEAN /\ killed' \subseteq Components
    BY <1>1, Zenon
  <2>4. Len(report') = at' - 1
    BY <1>2, <2>1
  <2> QED
    BY <1>2, <1>4, <2>1, <2>2, <2>3, <2>4, Zenon DEF TypeOK, Lines
<1>6. BudgetsHold'
  <2>1. \A c \in Components : Share(c)' = 0
    BY <1>1 DEF Share, Components
  <2>2. Shares' = 0
    BY <2>1 DEF Shares, Components
  <2> QED
    BY <1>1, <2>2 DEF BudgetsHold
<1>7. Known' /\ Order' /\ ToldIsWhole'
  BY <1>1 DEF Known, Knows, Order, ToldIsWhole
<1>8. Truth'
  BY <1>2 DEF Truth
<1> QED
  BY <1>5, <1>6, <1>7, <1>8 DEF IInv

LEMMA NextIInv == IInv /\ [Next]_vars => IInv'
<1> SUFFICES ASSUME IInv, [Next]_vars PROVE IInv'
  OBVIOUS
<1>0. recorded \in {"none", "whole"} /\ gone \in BOOLEAN /\ offered \in BOOLEAN
      /\ cli \in {"idle", "waiting", "told", "gave up", "interrupted"}
  BY DEF IInv, TypeOK, ToldIsWhole
<1>1. CASE Record
  <2>1. ~gone => ~cut
    BY DEF IInv, Order
  <2>2. recorded' \in {"none", "whole"}
    BY <1>0, <1>1, <2>1 DEF Record
  <2>3. UNCHANGED <<world, client, at, report, spent, clock>> /\ at = 8 /\ step' = "reply"
    BY <1>1 DEF Record, Complete
  <2> QED
    BY <1>0, <2>2, <2>3, QuietStep DEF client, clock, Steps
<1>2. CASE MakePlan
  BY <1>0, <1>2, QuietStep DEF MakePlan, Complete, client, clock, Steps
<1>3. CASE GiveUp
  BY <1>0, <1>3, QuietStep DEF GiveUp, probe, clock
<1>4. CASE Interrupt
  BY <1>0, <1>4, QuietStep DEF Interrupt, probe
<1>5. CASE UNCHANGED vars
  BY <1>0, <1>5, QuietStep DEF vars
<1>6. CASE \E k \in Commands : Ask(k)
  BY <1>6, AskStep
<1>7. CASE Handler
  BY <1>1, <1>2, <1>7, ProbeStep, ReplyStep DEF Handler
<1> QED
  BY <1>3, <1>4, <1>5, <1>6, <1>7 DEF Next

LEMMA Invariance == Spec => []IInv
BY InitIInv, NextIInv, PTL DEF Spec

-----------------------------------------------------------------------------
(* The theorems                                                             *)

\* All values have their types; no probe outlives its budget and no call the
\* deadline of its command.  (WithTimeout, Snapshot)
THEOREM TypeCorrect == Spec => []TypeOK
<1>1. IInv => TypeOK
  BY DEF IInv
<1> QED
  BY <1>1, Invariance, PTL

\* A snapshot takes no longer than the budgets of its probes.  (Registry)
THEOREM Budgets == Spec => []BudgetsHold
<1>1. IInv => BudgetsHold
  BY DEF IInv
<1> QED
  BY <1>1, Invariance, PTL

\* A cause named for virtualization is one.  (diagnoseVirtualization)
THEOREM Cause == Spec => []CauseIsReal
<1>1. IInv => CauseIsReal
  <2> SUFFICES ASSUME IInv, Len(report) >= Virtualization
               PROVE  CauseOf(report[Virtualization].finding, world.platform)
    BY DEF CauseIsReal, CauseOf
  <2>1. Len(report) \in Nat
    <3>1. report \in Seq(Lines)
      BY Zenon DEF IInv, TypeOK, Lines
    <3> QED
      BY <3>1
  <2>2. Virtualization \in 1..Len(report)
    BY <2>1
  <2> QED
    BY <2>2 DEF IInv, Truth, Truthful
<1> QED
  BY <1>1, Invariance, PTL

\* What is reported healthy works.  (the error paths of the probes)
THEOREM Health == Spec => []HealthIsEarned
<1>1. IInv => HealthIsEarned
  <2> SUFFICES ASSUME IInv, NEW c \in 1..Len(report), report[c].status = "HEALTHY"
               PROVE  /\ c = Virtualization   => world.host = "answers"
                      /\ c = Wsl              => world.distro = "boots"
                      /\ c = LinuxKernel      => world.kernel # <<>>
                      /\ c = ContainerRuntime => world.docker = "running"
    BY Zenon DEF HealthIsEarned
  <2>1. HealthOf(c, world)
    BY DEF IInv, Truth, Truthful
  <2> QED
    BY <2>1, Zenon DEF HealthOf, Readable
<1> QED
  BY <1>1, Invariance, PTL

\* What is reported broken is, in the way that is reported, but for commands
\* that were killed.  (wslProbe, containerProbe)
THEOREM Blame == Spec => []BlameIsEarned
<1>1. IInv /\ CauseIsReal => BlameIsEarned
  <2> SUFFICES ASSUME IInv, CauseIsReal, NEW c \in (1..Len(report)) \ killed
               PROVE  BlameOf(report[c].finding, world)
    BY Zenon DEF BlameIsEarned, BlameOf
  <2> QED
    BY DEF IInv, Truth, Truthful
<1> QED
  BY <1>1, Cause, Invariance, PTL

\* A user is told, and the history keeps, whole diagnoses only.  (GetStatus)
THEOREM Whole == Spec => []ToldIsWhole
<1>1. IInv => ToldIsWhole
  BY DEF IInv
<1> QED
  BY <1>1, Invariance, PTL

-----------------------------------------------------------------------------
(* The overall status.  The function in Overall is defined by recursion,   *)
(* which says that it satisfies its equation if anything does.             *)

\* What the loop in OverallStatus makes of a status and of the worst so far.
Worse(prev, s) ==
    CASE prev = "CRITICAL" \/ s = "CRITICAL" -> "CRITICAL"
      [] prev # "CRITICAL" /\ s = "WARNING" -> "WARNING"
      [] prev \in {"HEALTHY", "UNKNOWN"} /\ s = "UNKNOWN" -> "UNKNOWN"
      [] OTHER -> prev

\* f is a solution of the recursion.
Solves(f, r) ==
    f = [i \in 0..7 |->
            IF i = 0 THEN "HEALTHY"
            ELSE CASE f[i - 1] = "CRITICAL" \/ r[i].status = "CRITICAL" -> "CRITICAL"
                   [] f[i - 1] # "CRITICAL" /\ r[i].status = "WARNING" -> "WARNING"
                   [] f[i - 1] \in {"HEALTHY", "UNKNOWN"} /\ r[i].status = "UNKNOWN" -> "UNKNOWN"
                   [] OTHER -> f[i - 1]]

\* Status s is among the first i.
Among(s, r, i) == \E j \in 1..i : r[j].status = s

\* The worst of the first i statuses, said at once.
Worst(r, i) ==
    IF Among("CRITICAL", r, i) THEN "CRITICAL"
    ELSE IF Among("WARNING", r, i) THEN "WARNING"
    ELSE IF Among("UNKNOWN", r, i) THEN "UNKNOWN"
    ELSE "HEALTHY"

\* The loop keeps the worst.
LEMMA LoopKeepsWorst ==
    ASSUME NEW r, NEW i \in 1..7
    PROVE  Worst(r, i) = Worse(Worst(r, i - 1), r[i].status)
<1>1. 1..i = (1..(i - 1)) \cup {i}
  OBVIOUS
<1>2. \A s : Among(s, r, i) <=> (r[i].status = s \/ Among(s, r, i - 1))
  BY <1>1, Zenon DEF Among
<1>3. Among("CRITICAL", r, i) <=> (r[i].status = "CRITICAL" \/ Among("CRITICAL", r, i - 1))
  BY <1>2
<1>4. Among("WARNING", r, i) <=> (r[i].status = "WARNING" \/ Among("WARNING", r, i - 1))
  BY <1>2
<1>5. Among("UNKNOWN", r, i) <=> (r[i].status = "UNKNOWN" \/ Among("UNKNOWN", r, i - 1))
  BY <1>2
<1> QED
  BY <1>3, <1>4, <1>5 DEF Worst, Worse

\* So the worst of every beginning solves the recursion.
LEMMA WorstSolves == ASSUME NEW r PROVE Solves([i \in 0..7 |-> Worst(r, i)], r)
<1> DEFINE f == [i \in 0..7 |-> Worst(r, i)]
           g == [i \in 0..7 |-> IF i = 0 THEN "HEALTHY" ELSE Worse(f[i - 1], r[i].status)]
<1>1. \A i \in 0..7 : f[i] = g[i]
  <2> SUFFICES ASSUME NEW i \in 0..7 PROVE f[i] = g[i]
    OBVIOUS
  <2>1. CASE i = 0
    <3>1. 1..0 = {}
      OBVIOUS
    <3>2. \A s : ~Among(s, r, 0)
      BY <3>1, Zenon DEF Among
    <3>3. Worst(r, 0) = "HEALTHY"
      BY <3>2 DEF Worst
    <3> QED
      BY <2>1, <3>3
  <2>2. CASE i # 0
    <3>1. i \in 1..7 /\ i - 1 \in 0..7
      BY <2>2
    <3>2. f[i] = Worst(r, i) /\ f[i - 1] = Worst(r, i - 1)
      BY <3>1
    <3>3. Worst(r, i) = Worse(Worst(r, i - 1), r[i].status)
      BY <3>1, LoopKeepsWorst
    <3>4. g[i] = Worse(f[i - 1], r[i].status)
      BY <2>2
    <3> QED
      BY <3>2, <3>3, <3>4
  <2> QED
    BY <2>1, <2>2
<1>2. f = g
  BY <1>1, Zenon
<1> QED
  BY <1>2, Zenon DEF Solves, Worse

\* And nothing else does.
LEMMA SolutionIsWorst ==
    ASSUME NEW r, NEW f, Solves(f, r), NEW n \in 0..7
    PROVE  f[n] = Worst(r, n)
<1>1. \A i \in 0..7 : f[i] = IF i = 0 THEN "HEALTHY" ELSE Worse(f[i - 1], r[i].status)
  BY Zenon DEF Solves, Worse
<1>2. f[0] = Worst(r, 0)
  <2>1. 1..0 = {}
    OBVIOUS
  <2>2. \A s : ~Among(s, r, 0)
    BY <2>1, Zenon DEF Among
  <2> QED
    BY <1>1, <2>2 DEF Worst
<1>3. ASSUME NEW i \in 1..7, f[i - 1] = Worst(r, i - 1) PROVE f[i] = Worst(r, i)
  <2>1. f[i] = Worse(f[i - 1], r[i].status)
    BY <1>1
  <2> QED
    BY <1>3, <2>1, LoopKeepsWorst
<1>4. f[1] = Worst(r, 1)
  BY <1>2, <1>3
<1>5. f[2] = Worst(r, 2)
  BY <1>3, <1>4
<1>6. f[3] = Worst(r, 3)
  BY <1>3, <1>5
<1>7. f[4] = Worst(r, 4)
  BY <1>3, <1>6
<1>8. f[5] = Worst(r, 5)
  BY <1>3, <1>7
<1>9. f[6] = Worst(r, 6)
  BY <1>3, <1>8
<1>10. f[7] = Worst(r, 7)
  BY <1>3, <1>9
<1> QED
  BY <1>2, <1>4, <1>5, <1>6, <1>7, <1>8, <1>9, <1>10

\* Overall computes the worst of the statuses.
LEMMA OverallWorst == ASSUME NEW r, Len(r) \in 0..7 PROVE Overall(r) = Worst(r, Len(r))
<1> DEFINE f == CHOOSE g : Solves(g, r)
<1>1. Solves(f, r)
  BY WorstSolves, Zenon
<1>2. Overall(r) = f[Len(r)]
  BY Zenon DEF Overall, Solves
<1> HIDE DEF f
<1> QED
  BY <1>1, <1>2, SolutionIsWorst

\* The overall status is the worst of those of the lines, and no problem is
\* counted exactly if all of them are healthy.  (OverallStatus)
THEOREM OverallCounts == Spec => []OverallIsWorst
<1>1. IInv => OverallIsWorst
  <2> SUFFICES ASSUME IInv, at = 8
               PROVE  /\ Overall(report) \in Found(report)
                      /\ Overall(report) # "CRITICAL" => "CRITICAL" \notin Found(report)
                      /\ Overall(report) \notin {"CRITICAL", "WARNING"}
                             => "WARNING" \notin Found(report)
                      /\ Overall(report) = "HEALTHY" => Found(report) = {"HEALTHY"}
    BY DEF OverallIsWorst
  <2>1. report \in Seq(Lines)
    BY Zenon DEF IInv, TypeOK, Lines
  <2>2. Len(report) = 7
    <3>1. at # 0 => Len(report) = at - 1
      BY Zenon DEF IInv, TypeOK
    <3> QED
      BY <3>1
  <2>3. \A i \in 1..7 : report[i].status \in Statuses
    <3>1. \A i \in 1..Len(report) : report[i] \in Lines
      BY <2>1
    <3> QED
      BY <2>2, <3>1 DEF Lines
  <2>4. \A s : s \in Found(report) <=> Among(s, report, 7)
    BY <2>2, Zenon DEF Found, Among
  <2>5. Overall(report) = Worst(report, 7)
    <3>1. Len(report) \in 0..7
      BY <2>2
    <3>2. Overall(report) = Worst(report, Len(report))
      BY <3>1, OverallWorst
    <3> QED
      BY <2>2, <3>2
  <2>6. Found(report) \subseteq Statuses /\ report[1].status \in Found(report)
    BY <2>2, <2>3 DEF Found
  <2> QED
    BY <2>4, <2>5, <2>6 DEF Worst, Statuses
<1> QED
  BY <1>1, Invariance, PTL

-----------------------------------------------------------------------------
(* How far a handler has still to go                                        *)

\* The most steps a handler makes from component c on,
From(c) ==
    IF c = Daemon THEN 18 ELSE IF c = Windows THEN 17
    ELSE IF c = Virtualization THEN 16 ELSE IF c = Wsl THEN 13
    ELSE IF c = LinuxKernel THEN 10 ELSE IF c = Resources THEN 9
    ELSE IF c = ContainerRuntime THEN 8 ELSE IF c = 8 THEN 2 ELSE 0

\* those of them that it has made when it comes to s,
Done(s) ==
    IF s \in {"vmcompute", "boot", "client", "reply"} THEN 1
    ELSE IF s \in {"WslService", "list", "list for server"} THEN 2
    ELSE IF s = "server" THEN 3 ELSE IF s = "list for ps" THEN 4
    ELSE IF s = "ps" THEN 5 ELSE 0

\* and the most that are left.
Left == IF at = 0 THEN 0 ELSE From(at) - Done(step)

\* A handler is at a place of the component it has come to.
Placed == at \in 1..8 => Done(step) < From(at) - From(at + 1)

\* The places within a component that follow each other.
Follows(c, s, t) ==
    \/ c = Virtualization /\ s = "begin" /\ t = "vmcompute"
    \/ c = Virtualization /\ s = "vmcompute" /\ t = "WslService"
    \/ c = Wsl /\ s = "begin" /\ t = "boot"
    \/ c = Wsl /\ s = "boot" /\ t = "list"
    \/ c = ContainerRuntime /\ s = "begin" /\ t = "client"
    \/ c = ContainerRuntime /\ s = "client" /\ t = "list for server"
    \/ c = ContainerRuntime /\ s = "list for server" /\ t = "server"
    \/ c = ContainerRuntime /\ s = "server" /\ t = "list for ps"
    \/ c = ContainerRuntime /\ s = "list for ps" /\ t = "ps"
    \/ c = 8 /\ s = "begin" /\ t = "reply"

\* What becomes of the handler in one step of it.
Advances ==
    \/ at \in Components /\ at' = at + 1 /\ step' = "begin"
    \/ at' = at /\ Follows(at, step, step')
    \/ at = 8 /\ step = "reply" /\ at' = 0 /\ step' = step

\* Every step of a handler takes it on.
LEMMA HandlerAdvances == Handler => Advances
<1>0. {Daemon, Windows, Virtualization, Wsl, LinuxKernel, Resources, ContainerRuntime}
          \subseteq Components
  BY DEF Daemon, Windows, Virtualization, Wsl, LinuxKernel, Resources, ContainerRuntime,
         Components
<1>a. ASSUME at \in Components, NEW status, NEW finding, Conclude(status, finding)
      PROVE  Advances
  BY <1>a, Zenon DEF Conclude, Advances
<1>b. ASSUME NEW s, NEW o, Continue(s, o), Follows(at, step, s) PROVE Advances
  BY <1>b, Zenon DEF Continue, Advances
<1>1. ASSUME ProbeDaemon \/ ProbeWindows \/ ProbeResources \/ Panic PROVE Advances
  BY <1>0, <1>1, <1>a, Zenon
     DEF ProbeDaemon, ProbeWindows, ProbeResources, Panic, Tell, Skip, Probing
<1>2. ASSUME ProbeVirtualization PROVE Advances
  BY <1>0, <1>2, <1>a, <1>b, Zenon DEF ProbeVirtualization, Probing, Skip, Tell, Follows
<1>3. ASSUME QueryVmcompute PROVE Advances
  BY <1>0, <1>3, <1>a, <1>b, Zenon DEF QueryVmcompute, Probing, Follows
<1>4. ASSUME QueryWslService PROVE Advances
  BY <1>0, <1>4, <1>a, <1>b, Zenon DEF QueryWslService, Probing
<1>5. ASSUME ProbeWsl PROVE Advances
  BY <1>0, <1>5, <1>a, <1>b, Zenon DEF ProbeWsl, Probing, Tell, Follows
<1>6. ASSUME BootWsl PROVE Advances
  BY <1>0, <1>6, <1>a, <1>b, Zenon DEF BootWsl, Probing, Follows
<1>7. ASSUME ListWsl \/ ListContainers PROVE Advances
  BY <1>0, <1>7, <1>a, Zenon DEF ListWsl, ListContainers, Probing
<1>8. ASSUME ProbeKernel PROVE Advances
  BY <1>0, <1>8, <1>a, Zenon DEF ProbeKernel, Probing, Tell
<1>9. ASSUME ProbeContainers PROVE Advances
  BY <1>0, <1>9, <1>a, <1>b, Zenon DEF ProbeContainers, Probing, Tell, Follows
<1>10. ASSUME AskClient PROVE Advances
  BY <1>0, <1>10, <1>a, <1>b, Zenon DEF AskClient, Probing, Follows
<1>11. ASSUME ListForServer PROVE Advances
  BY <1>0, <1>11, <1>a, <1>b, Zenon DEF ListForServer, Probing, Follows
<1>12. ASSUME AskServer PROVE Advances
  BY <1>0, <1>12, <1>a, <1>b, Zenon DEF AskServer, Probing, Follows
<1>13. ASSUME ListForPs PROVE Advances
  BY <1>0, <1>13, <1>a, <1>b, Zenon DEF ListForPs, Probing, Follows
<1>14. ASSUME Record \/ MakePlan \/ Reply PROVE Advances
  BY <1>14, Zenon DEF Record, MakePlan, Reply, Complete, Advances, Follows
<1> QED
  BY <1>1, <1>2, <1>3, <1>4, <1>5, <1>6, <1>7, <1>8, <1>9, <1>10, <1>11, <1>12,
     <1>13, <1>14, Zenon DEF Handler, Probe

LEMMA FollowCounts ==
    ASSUME NEW c, NEW s, NEW t, Follows(c, s, t)
    PROVE  c \in 3..8 /\ Done(t) = Done(s) + 1 /\ Done(t) < From(c) - From(c + 1)
<1> USE DEF Daemon, Windows, Virtualization, Wsl, LinuxKernel, Resources, ContainerRuntime
<1>1. /\ Done("begin") = 0 /\ Done("vmcompute") = 1 /\ Done("boot") = 1 /\ Done("client") = 1
      /\ Done("reply") = 1 /\ Done("WslService") = 2 /\ Done("list") = 2
      /\ Done("list for server") = 2 /\ Done("server") = 3 /\ Done("list for ps") = 4
      /\ Done("ps") = 5
  BY DEF Done
<1>2. /\ From(3) - From(3 + 1) = 3 /\ From(4) - From(4 + 1) = 3
      /\ From(7) - From(7 + 1) = 6 /\ From(8) - From(8 + 1) = 2
  BY DEF From
<1>3. \/ c \in {3, 4} /\ Done(s) = 0 /\ Done(t) = 1
      \/ c \in {3, 4} /\ Done(s) = 1 /\ Done(t) = 2
      \/ c = 7 /\ Done(s) = 0 /\ Done(t) = 1
      \/ c = 7 /\ Done(s) = 1 /\ Done(t) = 2
      \/ c = 7 /\ Done(s) = 2 /\ Done(t) = 3
      \/ c = 7 /\ Done(s) = 3 /\ Done(t) = 4
      \/ c = 7 /\ Done(s) = 4 /\ Done(t) = 5
      \/ c = 8 /\ Done(s) = 0 /\ Done(t) = 1
  BY <1>1, Zenon DEF Follows
<1> QED
  BY <1>2, <1>3

\* On the way it leaves fewer steps to make.
LEMMA AdvanceCounts ==
    Placed /\ Advances => Placed' /\ Left' \in Nat /\ Left \in 0..18 /\ Left' < Left
<1> SUFFICES ASSUME Placed, Advances
             PROVE  Placed' /\ Left' \in Nat /\ Left \in 0..18 /\ Left' < Left
  OBVIOUS
<1> USE DEF Daemon, Windows, Virtualization, Wsl, LinuxKernel, Resources, ContainerRuntime
<1>1. Done("begin") = 0 /\ \A s : Done(s) \in 0..5
  BY DEF Done
<1>2. CASE at \in Components /\ at' = at + 1 /\ step' = "begin"
  BY <1>1, <1>2 DEF Placed, Left, From, Components
<1>3. CASE at' = at /\ Follows(at, step, step')
  <2>1. /\ at \in 3..8 /\ Done(step') = Done(step) + 1
        /\ Done(step') < From(at) - From(at + 1)
    BY <1>3, FollowCounts
  <2>2. Done(step) \in Nat /\ From(at) \in 0..18 /\ From(at + 1) \in Nat
    BY <1>1, <2>1 DEF From
  <2>3. at # 0 /\ at' # 0 /\ From(at') = From(at) /\ From(at' + 1) = From(at + 1)
    BY <1>3, <2>1
  <2>4. Placed'
    BY <2>1, <2>3 DEF Placed
  <2>5. Left = From(at) - Done(step) /\ Left' = From(at) - Done(step')
    BY <2>3 DEF Left
  <2> QED
    BY <2>1, <2>2, <2>4, <2>5
<1>4. CASE at = 8 /\ step = "reply" /\ at' = 0 /\ step' = step
  BY <1>4 DEF Placed, Left, From, Done
<1> QED
  BY <1>2, <1>3, <1>4 DEF Advances

-----------------------------------------------------------------------------
(* Every command ends.  The state predicates below are names for the       *)
(* temporal steps.                                                         *)

Busy    == at # 0
Waiting == cli = "waiting"
Late    == cli = "waiting" /\ gone
Near(n) == Left <= n
Nearing(n, m) == Busy /\ Near(n) ~> ~Busy \/ Near(m)
Live    == FairSpec /\ []NobodyIsStuck

\* A client waits for a handler, unless the context of its call is done.
Attended == cli = "waiting" => at # 0 \/ gone

Paced == Placed /\ at \in 0..8 /\ Attended

\* The other steps leave the handler where it is, or begin a new one.
LEMMA NextAdvances ==
    ASSUME Paced, [Next]_vars
    PROVE  \/ Advances
           \/ at = 0 /\ at' = 1 /\ step' = "begin"
           \/ at' = at /\ step' = step
<1>1. CASE Handler
  BY <1>1, HandlerAdvances
<1>2. CASE GiveUp \/ Interrupt
  BY <1>2, Zenon DEF GiveUp, Interrupt, probe
<1>3. CASE UNCHANGED vars
  BY <1>3 DEF vars
<1>4. ASSUME NEW k \in Commands, Ask(k) PROVE at = 0 /\ at' = 1 /\ step' = "begin"
  BY <1>4, Zenon DEF Ask
<1> QED
  BY <1>1, <1>2, <1>3, <1>4 DEF Next

\* A step of a probe runs a command, or leaves the client and the clock alone.
LEMMA ProbeRuns ==
    Probe => /\ at \in Components
             /\ \/ UNCHANGED <<client, clock>>
                \/ \E R : \E o \in Outcomes(R) : Ran(o)
<1>0. {Daemon, Windows, Virtualization, Wsl, LinuxKernel, Resources, ContainerRuntime}
          \subseteq Components
  BY DEF Daemon, Windows, Virtualization, Wsl, LinuxKernel, Resources, ContainerRuntime,
         Components
<1> DEFINE Runs == /\ at \in Components
                   /\ \/ UNCHANGED <<client, clock>>
                      \/ \E R : \E o \in Outcomes(R) : Ran(o)
<1>a. ASSUME at \in Components, NEW R, NEW o \in Outcomes(R), Ran(o) PROVE Runs
  BY <1>a, Zenon
<1>b. ASSUME at \in Components, NEW status, NEW finding, Tell(status, finding) PROVE Runs
  BY <1>b, Zenon DEF Tell, client, clock
<1> SUFFICES Probe => Runs
  OBVIOUS
<1> HIDE DEF Runs
<1>1. ASSUME ProbeDaemon \/ ProbeWindows \/ ProbeResources \/ Panic PROVE Runs
  BY <1>0, <1>1, <1>b, Zenon
     DEF ProbeDaemon, ProbeWindows, ProbeResources, Panic, Skip, Probing
<1>2. ASSUME ProbeVirtualization \/ QueryVmcompute \/ QueryWslService PROVE Runs
  BY <1>0, <1>2, <1>a, <1>b, Zenon
     DEF ProbeVirtualization, QueryVmcompute, QueryWslService, Skip, Probing
<1>3. ASSUME ProbeWsl \/ BootWsl \/ ListWsl \/ ProbeKernel PROVE Runs
  BY <1>0, <1>3, <1>a, <1>b, Zenon DEF ProbeWsl, BootWsl, ListWsl, ProbeKernel, Probing
<1>4. ASSUME ProbeContainers \/ AskClient \/ ListForServer PROVE Runs
  BY <1>0, <1>4, <1>a, <1>b, Zenon DEF ProbeContainers, AskClient, ListForServer, Probing
<1>5. ASSUME AskServer \/ ListForPs \/ ListContainers PROVE Runs
  BY <1>0, <1>5, <1>a, Zenon DEF AskServer, ListForPs, ListContainers, Probing
<1> QED
  BY <1>1, <1>2, <1>3, <1>4, <1>5, Zenon DEF Probe

\* So it does not touch the client, nor give the call its context back.
LEMMA ProbeKeepsClient == Probe => at \in Components /\ cli' = cli /\ (gone => gone')
BY ProbeRuns, Zenon DEF Ran, client, clock

LEMMA NextPaced == Paced /\ [Next]_vars => Paced'
<1> SUFFICES ASSUME Paced, [Next]_vars PROVE Paced'
  OBVIOUS
<1>1. Placed' /\ at' \in 0..8
  <2>1. CASE Advances
    <3>1. Placed'
      BY <2>1, AdvanceCounts DEF Paced
    <3> QED
      BY <2>1, <3>1 DEF Advances, Paced, Components
  <2>2. CASE at = 0 /\ at' = 1 /\ step' = "begin"
    BY <2>2 DEF Placed, From, Done, Daemon, Windows
  <2>3. CASE at' = at /\ step' = step
    BY <2>3 DEF Placed, Paced
  <2> QED
    BY <2>1, <2>2, <2>3, NextAdvances
<1>2. Attended'
  <2>1. CASE Reply
    BY <2>1, Zenon DEF Reply, Attended, Paced, clock
  <2>2. CASE Probe
    <3>1. at \in Components /\ cli' = cli /\ (gone => gone')
      BY <2>2, ProbeKeepsClient
    <3>2. Advances
      BY <2>2, HandlerAdvances DEF Handler
    <3>3. at' # 0
      BY <3>1, <3>2 DEF Advances, Components
    <3> QED
      BY <3>1, <3>3 DEF Attended
  <2>6. CASE Record \/ MakePlan
    <3>1. at' = 8 /\ cli' = cli
      BY <2>6, Zenon DEF Record, MakePlan, Complete, client
    <3> QED
      BY <3>1 DEF Attended
  <2>3. CASE GiveUp \/ Interrupt
    BY <2>3, Zenon DEF GiveUp, Interrupt, Attended
  <2>4. CASE UNCHANGED vars
    BY <2>4 DEF vars, Paced, Attended
  <2>5. CASE \E k \in Commands : Ask(k)
    <3>1. at' = 1
      BY <2>5, Zenon DEF Ask
    <3> QED
      BY <3>1 DEF Attended
  <2> QED
    BY <2>1, <2>2, <2>3, <2>4, <2>5, <2>6, Zenon DEF Next, Handler
<1> QED
  BY <1>1, <1>2 DEF Paced

LEMMA PacedAlways == Spec => []Paced
<1>1. Init => Paced
  <2> SUFFICES ASSUME Init PROVE Paced
    OBVIOUS
  <2>1. at = 0 /\ cli = "idle"
    BY Zenon DEF Init
  <2> QED
    BY <2>1 DEF Paced, Placed, Attended
<1> QED
  BY <1>1, NextPaced, PTL DEF Spec

\* A handler that goes on comes closer to its end, one that does not stays
\* where it is, and none begins before it has come there.
LEMMA Nearer ==
    ASSUME NEW n \in 1..18, NEW m, m = n - 1
    PROVE  Live => Nearing(n, m)
<1>1. Paced /\ Busy /\ Near(n) /\ [Next]_vars => ~Busy' \/ Near(n)'
  <2> SUFFICES ASSUME Paced, Busy, Near(n), [Next]_vars PROVE ~Busy' \/ Near(n)'
    OBVIOUS
  <2>1. CASE Advances
    <3>1. Left' \in Nat /\ Left \in 0..18 /\ Left' < Left
      BY <2>1, AdvanceCounts DEF Paced
    <3> QED
      BY <3>1 DEF Near
  <2>2. CASE at' = at /\ step' = step
    BY <2>2 DEF Near, Left
  <2> QED
    BY <2>1, <2>2, NextAdvances DEF Busy
<1>2. Paced /\ Busy /\ Near(n) /\ <<Handler>>_vars => Near(m)'
  <2> SUFFICES ASSUME Paced, Busy, Near(n), Handler PROVE Near(m)'
    OBVIOUS
  <2>1. Left' \in Nat /\ Left \in 0..18 /\ Left' < Left
    BY HandlerAdvances, AdvanceCounts DEF Paced
  <2> QED
    BY <2>1 DEF Near
<1>3. NobodyIsStuck /\ Busy => ENABLED <<Handler>>_vars
  BY Zenon DEF NobodyIsStuck, Busy
<1> QED
  BY <1>1, <1>2, <1>3, PacedAlways, PTL DEF Live, Nearing, FairSpec, Spec

\* Counting down from the most there are, every handler comes to its end.
LEMMA HandlersEnd == Live => (Busy ~> ~Busy)
<1>1. Live => Nearing(18, 17)
  BY Nearer
<1>2. Live => Nearing(17, 16)
  BY Nearer
<1>3. Live => Nearing(16, 15)
  BY Nearer
<1>4. Live => Nearing(15, 14)
  BY Nearer
<1>5. Live => Nearing(14, 13)
  BY Nearer
<1>6. Live => Nearing(13, 12)
  BY Nearer
<1>7. Live => Nearing(12, 11)
  BY Nearer
<1>8. Live => Nearing(11, 10)
  BY Nearer
<1>9. Live => Nearing(10, 9)
  BY Nearer
<1>10. Live => Nearing(9, 8)
  BY Nearer
<1>11. Live => Nearing(8, 7)
  BY Nearer
<1>12. Live => Nearing(7, 6)
  BY Nearer
<1>13. Live => Nearing(6, 5)
  BY Nearer
<1>14. Live => Nearing(5, 4)
  BY Nearer
<1>15. Live => Nearing(4, 3)
  BY Nearer
<1>16. Live => Nearing(3, 2)
  BY Nearer
<1>17. Live => Nearing(2, 1)
  BY Nearer
<1>18. Live => Nearing(1, 0)
  BY Nearer
<1>20. Paced /\ Busy => Near(18)
  <2> SUFFICES ASSUME Paced, Busy PROVE Near(18)
    OBVIOUS
  <2>1. From(at) \in 0..18 /\ Done(step) \in 0..5
    BY DEF From, Done
  <2> QED
    BY <2>1 DEF Busy, Near, Left
<1>21. Paced /\ Busy => ~Near(0)
  <2> SUFFICES ASSUME Paced, Busy PROVE ~Near(0)
    OBVIOUS
  <2>1. at \in 1..8 /\ Done(step) < From(at) - From(at + 1)
    BY DEF Paced, Placed, Busy
  <2>2. From(at) \in Nat /\ From(at + 1) \in Nat /\ Done(step) \in Nat
    BY DEF From, Done
  <2> QED
    BY <2>1, <2>2 DEF Near, Left
<1> QED
  BY <1>1, <1>2, <1>3, <1>4, <1>5, <1>6, <1>7, <1>8, <1>9, <1>10, <1>11, <1>12, <1>13, <1>14, <1>15, <1>16, <1>17, <1>18, <1>20, <1>21, PacedAlways, PTL DEF Live, Nearing, FairSpec

\* A client whose handler has ended without an answer gives up.
LEMMA ClientsEnd == Live => (Waiting ~> ~Waiting)
<1>1. Waiting /\ Paced /\ ~Busy => Late
  BY DEF Waiting, Paced, Attended, Busy, Late
<1>2. Late => Waiting
  BY DEF Waiting, Late
<1>3. Late /\ [Next]_vars => Late' \/ ~Waiting'
  <2> SUFFICES ASSUME Late, [Next]_vars PROVE Late' \/ ~Waiting'
    OBVIOUS
  <2>1. CASE Probe
    BY <2>1, ProbeKeepsClient, Zenon DEF Late
  <2>2. CASE Record \/ MakePlan
    BY <2>2, Zenon DEF Record, MakePlan, client, clock, Late
  <2>3. CASE Reply
    BY <2>3, Zenon DEF Reply, clock, Late
  <2>4. CASE GiveUp
    BY <2>4, Zenon DEF GiveUp, Waiting
  <2>5. CASE Interrupt \/ \E k \in Commands : Ask(k)
    BY <2>5, Zenon DEF Interrupt, Ask, Late
  <2>6. CASE UNCHANGED vars
    BY <2>6 DEF vars, Late
  <2> QED
    BY <2>1, <2>2, <2>3, <2>4, <2>5, <2>6, Zenon DEF Next, Handler
<1>4. Late /\ <<GiveUp>>_vars => ~Waiting'
  BY DEF Late, GiveUp, Waiting
<1>5. NobodyIsStuck /\ Late => ENABLED <<GiveUp>>_vars
  BY Zenon DEF NobodyIsStuck, Late
<1> QED
  BY <1>1, <1>2, <1>3, <1>4, <1>5, HandlersEnd, PacedAlways, PTL DEF Live, FairSpec, Spec

\* Every command ends and every handler returns, for any budgets, deadlines
\* and durations, if a handler that has not returned can go on and a client
\* whose deadline has passed can give up.  (Snapshot, exec.CommandContext)
THEOREM DiagnosesEnd == FairSpec /\ []NobodyIsStuck => DiagnosisEnds
<1>1. (at # 0 <=> Busy) /\ (at = 0 <=> ~Busy)
  BY DEF Busy
<1>2. (cli = "waiting" <=> Waiting) /\ (cli # "waiting" <=> ~Waiting)
  BY DEF Waiting
<1> QED
  BY <1>1, <1>2, HandlersEnd, ClientsEnd, PTL DEF Live, DiagnosisEnds

-----------------------------------------------------------------------------
(* The patience a command needs                                             *)

\* What the probes of a snapshot may take together.
WholeBudget == Budget[Daemon] + Budget[Windows] + Budget[Virtualization] + Budget[Wsl]
               + Budget[LinuxKernel] + Budget[Resources] + Budget[ContainerRuntime]

\* The seconds since the call began are those of the probes,
Thrifty == elapsed <= WholeBudget

\* and the context of a call that nobody has interrupted is done at its
\* deadline.
Timely == gone /\ cli \in {"waiting", "gave up"} => elapsed = Patience[cmd]

Resigned == cli = "gave up" => gone

\* Only the patience of the client can be too short, not the service too slow.
ImpatienceGivesUp == cli = "gave up" => Patience[cmd] <= WholeBudget

LEMMA BudgetsAdd == IInv /\ Busy => Thrifty
<1> SUFFICES ASSUME IInv, at # 0 PROVE elapsed <= WholeBudget
  BY DEF Busy, Thrifty
<1>1. \A c \in Components : Budget[c] \in Nat
  BY DiagnosisAssumption
<1>2. /\ Budget[1] \in Nat /\ Budget[2] \in Nat /\ Budget[3] \in Nat /\ Budget[4] \in Nat
      /\ Budget[5] \in Nat /\ Budget[6] \in Nat /\ Budget[7] \in Nat
  BY <1>1 DEF Components
<1>3. elapsed \in Nat /\ spent \in Nat /\ at \in 0..8 /\ elapsed <= spent + Shares
      /\ (spent # 0 => at \in 1..7 /\ spent <= Budget[at])
  BY Zenon DEF IInv, TypeOK, BudgetsHold, Components
<1>4. ASSUME NEW c \in Components PROVE Share(c) \in Nat /\ Share(c) <= Budget[c]
  BY <1>1 DEF Share
<1>5. /\ Share(1) \in Nat /\ Share(1) <= Budget[1] /\ Share(2) \in Nat /\ Share(2) <= Budget[2]
      /\ Share(3) \in Nat /\ Share(3) <= Budget[3] /\ Share(4) \in Nat /\ Share(4) <= Budget[4]
      /\ Share(5) \in Nat /\ Share(5) <= Budget[5] /\ Share(6) \in Nat /\ Share(6) <= Budget[6]
      /\ Share(7) \in Nat /\ Share(7) <= Budget[7]
  BY <1>4 DEF Components
<1>6. /\ Shares = Share(1) + Share(2) + Share(3) + Share(4) + Share(5) + Share(6) + Share(7)
      /\ WholeBudget = Budget[1] + Budget[2] + Budget[3] + Budget[4] + Budget[5]
                       + Budget[6] + Budget[7]
  BY DEF Shares, WholeBudget, Daemon, Windows, Virtualization, Wsl, LinuxKernel, Resources,
         ContainerRuntime
<1>11. CASE at = 1
  <2>1. spent + Share(1) <= Budget[1]
    BY <1>2, <1>3, <1>11 DEF Share
  <2> QED
    BY <1>2, <1>3, <1>5, <1>6, <2>1
<1>12. CASE at = 2
  <2>1. spent + Share(2) <= Budget[2]
    BY <1>2, <1>3, <1>12 DEF Share
  <2> QED
    BY <1>2, <1>3, <1>5, <1>6, <2>1
<1>13. CASE at = 3
  <2>1. spent + Share(3) <= Budget[3]
    BY <1>2, <1>3, <1>13 DEF Share
  <2> QED
    BY <1>2, <1>3, <1>5, <1>6, <2>1
<1>14. CASE at = 4
  <2>1. spent + Share(4) <= Budget[4]
    BY <1>2, <1>3, <1>14 DEF Share
  <2> QED
    BY <1>2, <1>3, <1>5, <1>6, <2>1
<1>15. CASE at = 5
  <2>1. spent + Share(5) <= Budget[5]
    BY <1>2, <1>3, <1>15 DEF Share
  <2> QED
    BY <1>2, <1>3, <1>5, <1>6, <2>1
<1>16. CASE at = 6
  <2>1. spent + Share(6) <= Budget[6]
    BY <1>2, <1>3, <1>16 DEF Share
  <2> QED
    BY <1>2, <1>3, <1>5, <1>6, <2>1
<1>17. CASE at = 7
  <2>1. spent + Share(7) <= Budget[7]
    BY <1>2, <1>3, <1>17 DEF Share
  <2> QED
    BY <1>2, <1>3, <1>5, <1>6, <2>1
<1>18. CASE spent = 0
  BY <1>2, <1>3, <1>5, <1>6, <1>18
<1> QED
  BY <1>3, <1>11, <1>12, <1>13, <1>14, <1>15, <1>16, <1>17, <1>18

LEMMA NextThrifty == Thrifty /\ [Next]_vars => Busy' \/ Thrifty'
<1> SUFFICES ASSUME Thrifty, [Next]_vars PROVE Busy' \/ elapsed' = elapsed
  BY DEF Thrifty, WholeBudget
<1>1. CASE Probe
  <2>1. at \in Components
    BY <1>1, ProbeRuns
  <2>2. Advances
    BY <1>1, HandlerAdvances DEF Handler
  <2> QED
    BY <2>1, <2>2 DEF Advances, Components, Busy
<1>2. CASE Record \/ MakePlan \/ Reply
  BY <1>2, Zenon DEF Record, MakePlan, Reply, clock
<1>3. CASE GiveUp \/ Interrupt
  BY <1>3, Zenon DEF GiveUp, Interrupt, clock
<1>4. CASE \E k \in Commands : Ask(k)
  <2>1. at' = 1
    BY <1>4, Zenon DEF Ask
  <2> QED
    BY <2>1 DEF Busy
<1>5. CASE UNCHANGED vars
  BY <1>5 DEF vars
<1> QED
  BY <1>1, <1>2, <1>3, <1>4, <1>5, Zenon DEF Next, Handler

LEMMA AtTheDeadline ==
    ASSUME NEW e \in Nat, NEW t \in Nat, NEW p \in Nat, e + t <= p,
           e = p \/ e + t >= p
    PROVE  e + t = p
OBVIOUS

LEMMA NextTimely == IInv /\ Timely /\ [Next]_vars => Timely'
<1> SUFFICES ASSUME IInv, Timely, [Next]_vars, gone', cli' \in {"waiting", "gave up"}
             PROVE  elapsed' = Patience[cmd']
  BY DEF Timely
<1>0. elapsed \in Nat /\ elapsed <= Patience[cmd] /\ Patience[cmd] \in Nat
  <2>1. cmd \in Commands /\ elapsed \in Nat /\ elapsed <= Patience[cmd]
    BY Zenon DEF IInv, TypeOK
  <2> QED
    BY <2>1, DiagnosisAssumption
<1>1. ASSUME UNCHANGED <<cmd, elapsed, gone>>, cli' = cli \/ cli = "waiting"
      PROVE  elapsed' = Patience[cmd']
  BY <1>1, Zenon DEF Timely
<1>2. CASE Probe
  <2>1. CASE UNCHANGED <<client, clock>>
    BY <1>1, <2>1 DEF client, clock
  <2>2. ASSUME NEW R, NEW o \in Outcomes(R), Ran(o) PROVE elapsed' = Patience[cmd']
    <3>1. elapsed' = elapsed + o.time /\ cmd' = cmd /\ cli' = cli
      BY <2>2, Zenon DEF Ran, client
    <3>2. at \in Components
      BY <1>2, ProbeRuns
    <3>3. o.time \in Nat /\ elapsed + o.time <= Patience[cmd]
      BY <3>2, OutcomeFacts DEF IInv
    <3>4. gone => elapsed = Patience[cmd]
      BY <3>1, Zenon DEF Timely
    <3>5. gone \/ elapsed + o.time >= Patience[cmd]
      BY <2>2, Zenon DEF Ran
    <3>6. elapsed + o.time = Patience[cmd]
      BY <1>0, <3>3, <3>4, <3>5, AtTheDeadline, Zenon
    <3> QED
      BY <3>1, <3>6, Zenon
  <2> QED
    BY <1>2, <2>1, <2>2, ProbeRuns
<1>3. CASE Record \/ MakePlan
  BY <1>1, <1>3, Zenon DEF Record, MakePlan, client, clock
<1>4. CASE Reply
  <2>1. gone /\ cli' = cli /\ cmd' = cmd /\ elapsed' = elapsed
    BY <1>4, Zenon DEF Reply, clock
  <2> QED
    BY <1>1, <2>1, Zenon DEF Timely
<1>5. CASE GiveUp
  BY <1>1, <1>5, Zenon DEF GiveUp, clock
<1>6. CASE Interrupt
  <2>1. cli' = "interrupted"
    BY <1>6, Zenon DEF Interrupt
  <2> QED
    BY <2>1
<1>7. CASE \E k \in Commands : Ask(k)
  BY <1>7, Zenon DEF Ask
<1>8. CASE UNCHANGED vars
  BY <1>1, <1>8 DEF vars
<1> QED
  BY <1>2, <1>3, <1>4, <1>5, <1>6, <1>7, <1>8, Zenon DEF Next, Handler

LEMMA NextResigned == Resigned /\ [Next]_vars => Resigned'
<1> SUFFICES ASSUME Resigned, [Next]_vars, cli' = "gave up" PROVE gone'
  BY DEF Resigned
<1>1. CASE Probe
  BY <1>1, ProbeKeepsClient, Zenon DEF Resigned
<1>2. CASE Record \/ MakePlan
  BY <1>2, Zenon DEF Record, MakePlan, client, clock, Resigned
<1>3. CASE Reply
  <2>1. gone' = gone /\ (gone \/ cli' = "told")
    BY <1>3, Zenon DEF Reply, clock
  <2> QED
    BY <2>1
<1>4. CASE GiveUp
  BY <1>4, Zenon DEF GiveUp, clock
<1>5. CASE Interrupt \/ \E k \in Commands : Ask(k)
  <2>1. cli' = "interrupted" \/ cli' = "waiting"
    BY <1>5, Zenon DEF Interrupt, Ask
  <2> QED
    BY <2>1
<1>6. CASE UNCHANGED vars
  BY <1>6 DEF vars, Resigned
<1> QED
  BY <1>1, <1>2, <1>3, <1>4, <1>5, <1>6, Zenon DEF Next, Handler

\* A client gives up only if its patience is no longer than the budgets of the
\* probes together: a longer one is always enough, whatever hangs.  (the
\* timeouts of status, doctor and repair against Registry)
THEOREM PatienceSuffices == Spec => []ImpatienceGivesUp
<1>1. Init => Timely /\ Thrifty /\ Resigned
  <2>1. \A c \in Components : Budget[c] \in Nat
    BY DiagnosisAssumption
  <2>2. WholeBudget \in Nat
    BY <2>1 DEF WholeBudget, Components, Daemon, Windows, Virtualization, Wsl, LinuxKernel,
       Resources, ContainerRuntime
  <2> SUFFICES ASSUME Init PROVE Timely /\ Thrifty /\ Resigned
    OBVIOUS
  <2>3. gone = FALSE /\ elapsed = 0 /\ cli = "idle"
    BY Zenon DEF Init
  <2> QED
    BY <2>2, <2>3 DEF Timely, Thrifty, Resigned
<1>2. Timely /\ Thrifty /\ Resigned => ImpatienceGivesUp
  <2> SUFFICES ASSUME Timely, Thrifty, Resigned, cli = "gave up"
               PROVE  Patience[cmd] <= WholeBudget
    BY DEF ImpatienceGivesUp
  <2> QED
    BY Zenon DEF Timely, Thrifty, Resigned
<1> QED
  BY <1>1, <1>2, BudgetsAdd, NextThrifty, NextTimely, NextResigned, Invariance, PTL DEF Spec

\* What doctor offers is never out of repair's reach if repair waits for longer
\* than the budgets of all probes together, which is what the deadline of
\* GetRepairPlan falls short of.  (cli/cmd/envorca/repair.go against Registry)
THEOREM PatienceKeepsOffers ==
    ASSUME Patience["repair"] > WholeBudget
    PROVE  Spec => []OfferIsReachable
<1>1. WholeBudget \in Nat /\ Patience["repair"] \in Nat
  <2>1. "repair" \in Commands /\ \A c \in Components : Budget[c] \in Nat
    BY DiagnosisAssumption DEF Commands
  <2> QED
    BY <2>1, DiagnosisAssumption DEF WholeBudget, Components, Daemon, Windows, Virtualization,
       Wsl, LinuxKernel, Resources, ContainerRuntime
<1>2. ~(Patience["repair"] <= WholeBudget)
  BY <1>1
<1>3. ImpatienceGivesUp => OfferIsReachable
  BY <1>2, Zenon DEF ImpatienceGivesUp, OfferIsReachable
<1> QED
  BY <1>3, PatienceSuffices, PTL

-----------------------------------------------------------------------------
(* What a command may do                                                    *)

Answer(r, t) == [ok |-> r = "ok", killed |-> FALSE, time |-> t]

\* Every command of every probe ends in some way: it answers within the room
\* it has, or that is used up.  (exec.CommandContext)
THEOREM CommandsEnd ==
    ASSUME TypeOK, at \in Components, Delays # {}, NEW R, R # {}
    PROVE  Outcomes(R) # {}
<1>1. Budget[at] \in Nat /\ Delays \subseteq Nat
  BY DiagnosisAssumption
<1>2. cmd \in Commands /\ elapsed \in Nat /\ elapsed <= Patience[cmd] /\ spent \in Nat
      /\ (spent # 0 => spent <= Budget[at])
  BY Zenon DEF TypeOK
<1>3. Patience[cmd] \in Nat
  BY <1>2, DiagnosisAssumption
<1>4. Room \in Nat
  BY <1>1, <1>2, <1>3 DEF Room
<1>5. PICK d \in Delays : TRUE
  OBVIOUS
<1>6. d \in Nat
  BY <1>1
<1> HIDE DEF Room
<1>7. CASE "never" \in R \/ Room = 0 \/ d >= Room
  <2>1. "never" \in R \/ Room = 0 \/ \E e \in Delays : e >= Room
    BY <1>7, Zenon
  <2>2. [ok |-> FALSE, killed |-> TRUE, time |-> Room] \in Outcomes(R)
    BY <2>1 DEF Outcomes
  <2> QED
    BY <2>2
<1>8. CASE ~("never" \in R \/ Room = 0 \/ d >= Room)
  <2>1. d <= Room /\ Room > 0
    BY <1>4, <1>6, <1>8
  <2>2. PICK r \in R : r # "never"
    BY <1>8
  <2>3. Answer(r, d) \in Outcomes(R)
    <3>1. r \in R \ {"never"} /\ d \in {e \in Delays : e <= Room /\ Room > 0}
      BY <2>1, <2>2
    <3> DEFINE A == R \ {"never"}
               B == {e \in Delays : e <= Room /\ Room > 0}
    <3> HIDE DEF A, B
    <3>2. Answer(r, d) \in {Answer(x, t) : x \in A, t \in B}
      BY <3>1 DEF A, B
    <3>3. {Answer(x, t) : x \in A, t \in B}
              = {[ok |-> x = "ok", killed |-> FALSE, time |-> t] : x \in A, t \in B}
      BY DEF Answer
    <3>4. {[ok |-> x = "ok", killed |-> FALSE, time |-> t] : x \in A, t \in B}
              \subseteq Outcomes(R)
      <4> DEFINE S == {[ok |-> x = "ok", killed |-> FALSE, time |-> t] : x \in A, t \in B}
                 K == IF "never" \in R \/ Room = 0 \/ \E e \in Delays : e >= Room
                        THEN {[ok |-> FALSE, killed |-> TRUE, time |-> Room]} ELSE {}
      <4>1. Outcomes(R) = S \cup K
        BY DEF A, B, Outcomes
      <4> HIDE DEF S, K
      <4>2. S \subseteq Outcomes(R)
        BY <4>1
      <4> QED
        BY <4>2 DEF S
    <3> QED
      BY <3>2, <3>3, <3>4
  <2> QED
    BY <2>3
<1> QED
  BY <1>7, <1>8
=============================================================================

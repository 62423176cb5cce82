----------------------------- MODULE Diagnosis -----------------------------
(***************************************************************************)
(* A diagnosis and the time it takes.  envorca status and envorca doctor   *)
(* (cli/cmd/envorca) call GetStatus, envorca repair calls GetRepairPlan    *)
(* (daemon/internal/api/daemon.go); either takes a snapshot: the probes of *)
(* diagnosis/probes.go and probes_windows.go, one after the other, each    *)
(* with a budget of its own (health/health.go), run wsl.exe and sc.exe     *)
(* (wsl/wsl.go, runtime/docker.go).  The context of the call, which ends   *)
(* when the client's patience does, bounds them all.                       *)
(*                                                                         *)
(* Seconds pass while a command runs and at no other time.  There is one   *)
(* client, and it starts nothing while a handler runs; the world it is in  *)
(* stays as it is.                                                         *)
(***************************************************************************)
EXTENDS Integers, Sequences

\* The components, in the order of the registry.
Daemon == 1  Windows == 2  Virtualization == 3  Wsl == 4
LinuxKernel == 5  Resources == 6  ContainerRuntime == 7
Components == 1..7

Commands == {"status", "doctor", "repair"}

CONSTANTS
    Budget,     \* Budget[c]: the seconds the probe of component c is given
    Patience,   \* Patience[k]: the seconds command k waits for its answer
    Delays,     \* the seconds a command that answers may take to do so
    Faulty      \* bound: TRUE if one probe of a snapshot may panic, or find
                \* a call of Windows failing

ASSUME DiagnosisAssumption ==
    /\ Budget \in [Components -> Nat]
    /\ Patience \in [Commands -> Nat \ {0}]
    /\ Delays \subseteq Nat
    /\ Faulty \in BOOLEAN

Services  == {"missing", "stopped", "running"}
Platforms == [cpu : BOOLEAN, slat : BOOLEAN, vmcompute : Services, service : Services]
Sound     == [cpu |-> TRUE, slat |-> TRUE, vmcompute |-> "running", service |-> "running"]

\* What wsl.exe does with a command of its own, the distribution with one
\* that is run inside it, and what else there is to find out.
World == [os : {"windows", "other"}, platform : Platforms,
          host : {"missing", "fails", "hangs", "answers"},
          distro : {"none", "fails", "hangs", "boots"},
          docker : {"none", "stopped", "hangs", "running"},
          kernel : {<<>>, <<6>>, <<4, 19>>, <<5, 10>>, <<6, 1>>}]

\* The worlds to be diagnosed.  Where wsl.exe answers the platform is sound;
\* what cannot be seen is fixed, and so (bounds of the model) are the services
\* where the firmware is at fault and the kernel where anything else is.
Worlds == {w \in World :
    /\ w.os = "other" => w.host = "missing"
    /\ w.os = "other" \/ w.host = "answers" => w.platform = Sound
    /\ w.platform.cpu = w.platform.slat => w.platform.cpu
    /\ ~w.platform.cpu \/ ~w.platform.slat =>
           w.platform.vmcompute = "running" /\ w.platform.service = "running"
    /\ w.host # "answers" => w.distro = "none"
    /\ w.distro # "boots" => w.docker = "none"
    /\ w.docker # "running" => w.kernel = <<5, 10>>}

VARIABLES
    world,
    \* The client
    cmd,        \* the command it runs, or has run
    cli,        \* how far that is
    offered,    \* history: the last report offered to fix something
    \* The handler of its call
    at,         \* the component it probes; 0: there is no handler; 8: all done
    step,       \* how far the probe is
    report,     \* the statuses found so far, in order
    gone,       \* the context of the call is done
    \* Time
    elapsed,    \* seconds since the call began
    spent,      \* seconds of the budget of the probe that are used up
    \* History
    killed,     \* the components a command of whose probe did not answer
    cut,        \* one of those because the context of the call was done
    recorded    \* the snapshot recorded for this call: "none", "whole", "cut"

client == <<cmd, cli, offered>>
probe  == <<at, step, report, spent>>
clock  == <<elapsed, gone, killed, cut>>
vars   == <<world, cmd, cli, offered, at, step, report, gone, elapsed, spent,
            killed, cut, recorded>>

Statuses == {"HEALTHY", "WARNING", "CRITICAL", "UNKNOWN"}

Init ==
    /\ world \in Worlds
    /\ cmd = "status"
    /\ cli = "idle"
    /\ offered = FALSE
    /\ at = 0
    /\ step = "begin"
    /\ report = <<>>
    /\ gone = FALSE
    /\ elapsed = 0
    /\ spent = 0
    /\ killed = {}
    /\ cut = FALSE
    /\ recorded = "none"

-----------------------------------------------------------------------------
(* External commands                                                        *)

\* Fault: every command gets the whole budget.
RoomPerCommand ==
    IF gone THEN 0
    ELSE IF Budget[at] < Patience[cmd] - elapsed THEN Budget[at]
    ELSE Patience[cmd] - elapsed

\* The seconds until the context of the probe is done.
Room ==
    IF gone THEN 0
    ELSE IF Budget[at] - spent < Patience[cmd] - elapsed THEN Budget[at] - spent
    ELSE Patience[cmd] - elapsed

\* Fault: a command that does not answer is waited for.
OutcomesAwaited(replies) ==
    {[ok |-> r = "ok", killed |-> FALSE, time |-> t] :
        r \in replies \ {"never"}, t \in {d \in Delays : d <= Room /\ Room > 0}}

\* How a command that replies in one of these ways ("ok", "error", "never")
\* may end.  It is killed when the context is done, and not even started
\* when that is done already.
Outcomes(replies) ==
    {[ok |-> r = "ok", killed |-> FALSE, time |-> t] :
        r \in replies \ {"never"}, t \in {d \in Delays : d <= Room /\ Room > 0}}
    \cup (IF "never" \in replies \/ Room = 0 \/ \E d \in Delays : d >= Room
            THEN {[ok |-> FALSE, killed |-> TRUE, time |-> Room]} ELSE {})

\* A command has ended: time has passed.
Ran(o) ==
    LET over == gone \/ elapsed + o.time >= Patience[cmd]
    IN  /\ elapsed' = elapsed + o.time
        /\ gone' = over
        /\ killed' = IF o.killed THEN killed \cup {at} ELSE killed
        /\ cut' = (cut \/ (o.killed /\ over))
        /\ UNCHANGED <<world, client, recorded>>

\* wsl.exe asked for its status, its version or the distributions.
Host ==
    CASE world.host = "answers" -> {"ok"}
      [] world.host = "hangs"   -> {"never"}
      [] OTHER                  -> {"error"}

\* A command run in the default distribution.
Distro ==
    CASE world.distro = "boots" -> {"ok"}
      [] world.distro = "hangs" -> {"never"}
      [] OTHER                  -> {"error"}

\* docker in the distribution, asked for its own version or for the daemon's.
\* A daemon that hangs may hold up even the former.
Docker(server) ==
    IF world.distro # "boots" THEN Distro
    ELSE CASE world.docker = "none"    -> {"error"}
           [] world.docker = "stopped" -> {IF server THEN "error" ELSE "ok"}
           [] world.docker = "hangs"   -> IF server THEN {"never"} ELSE {"ok", "never"}
           [] world.docker = "running" -> {"ok"}

-----------------------------------------------------------------------------
(* The probes                                                               *)

Probing(c, s) == at = c /\ step = s

Continue(s, o) ==
    /\ step' = s
    /\ spent' = spent + o.time
    /\ UNCHANGED <<at, report>>

\* The probe returns; the next one begins with a budget of its own.
Conclude(status, finding) ==
    /\ report' = Append(report, [status |-> status, finding |-> finding])
    /\ at' = at + 1
    /\ step' = "begin"
    /\ spent' = 0

\* The probe returns without having run a command.
Tell(status, finding) ==
    /\ Conclude(status, finding)
    /\ UNCHANGED <<world, client, clock, recorded>>

MayFault == Faulty /\ \A i \in 1..Len(report) : report[i].finding # "fault"

\* Of Windows nothing is asked where there is none.  (probes_stub.go)
Skip == world.os = "other" /\ Tell("UNKNOWN", "skipped")

ProbeDaemon == Probing(Daemon, "begin") /\ Tell("HEALTHY", "running")

\* RtlGetVersion
ProbeWindows ==
    /\ Probing(Windows, "begin")
    /\ \/ Skip
       \/ world.os = "windows" /\ Tell("HEALTHY", "version")
       \/ world.os = "windows" /\ MayFault /\ Tell("CRITICAL", "fault")

\* wsl --status decides; where it fails the firmware is looked at first.
ProbeVirtualization ==
    /\ Probing(Virtualization, "begin")
    /\ \/ Skip
       \/ /\ world.os = "windows"
          /\ \E o \in Outcomes(Host) : Ran(o) /\
               IF o.ok THEN Conclude("HEALTHY", "available")
               ELSE IF ~world.platform.cpu
                 THEN Conclude("CRITICAL", "virtualization disabled")
               ELSE IF ~world.platform.slat
                 THEN Conclude("CRITICAL", "no address translation")
               ELSE Continue("vmcompute", o)

\* Fault: whatever the query fails for, the service counts as missing.
QueryVmcomputeOrMissing ==
    /\ Probing(Virtualization, "vmcompute")
    /\ \E o \in Outcomes({"ok", "error"}) : Ran(o) /\
         IF ~o.ok \/ world.platform.vmcompute = "missing"
           THEN Conclude("CRITICAL", "platform not installed")
         ELSE IF world.platform.vmcompute = "stopped"
           THEN Conclude("CRITICAL", "host service stopped")
         ELSE Continue("WslService", o)

\* sc query vmcompute.  The query itself may fail: then the next is tried.
QueryVmcompute ==
    /\ Probing(Virtualization, "vmcompute")
    /\ \E o \in Outcomes({"ok", "error"}) : Ran(o) /\
         IF ~o.ok \/ world.platform.vmcompute = "running"
           THEN Continue("WslService", o)
         ELSE IF world.platform.vmcompute = "missing"
           THEN Conclude("CRITICAL", "platform not installed")
         ELSE Conclude("CRITICAL", "host service stopped")

QueryWslService ==
    /\ Probing(Virtualization, "WslService")
    /\ \E o \in Outcomes({"ok", "error"}) : Ran(o) /\
         IF o.ok /\ world.platform.service = "stopped"
           THEN Conclude("CRITICAL", "WSL service stopped")
           ELSE Conclude("CRITICAL", "unavailable")

ProbeWsl ==
    /\ Probing(Wsl, "begin")
    /\ \/ world.host = "missing" /\ Tell("CRITICAL", "not installed")
       \/ /\ world.host # "missing"
          /\ \E o \in Outcomes(Host) : Ran(o) /\
               IF ~o.ok THEN Conclude("CRITICAL", "could not query")
               ELSE IF world.distro = "none" THEN Conclude("WARNING", "no distribution")
               ELSE Continue("boot", o)

\* Fault: a boot that was killed is tried again.
BootWslAgain ==
    /\ Probing(Wsl, "boot")
    /\ \E o \in Outcomes(Distro) : Ran(o) /\
         IF o.ok THEN Continue("list", o)
         ELSE IF o.killed THEN Continue("boot", o)
         ELSE Conclude("CRITICAL", "failed to start")

BootWsl ==
    /\ Probing(Wsl, "boot")
    /\ \E o \in Outcomes(Distro) : Ran(o) /\
         IF o.ok THEN Continue("list", o) ELSE Conclude("CRITICAL", "failed to start")

\* The second list only says whether the distribution is running.
ListWsl ==
    /\ Probing(Wsl, "list")
    /\ \E o \in Outcomes(Host) : Ran(o) /\ Conclude("HEALTHY", "ready")

\* Both numbers of the version can be read and it is before 5.10.
Outdated(k) == Len(k) = 2 /\ (k[1] < 5 \/ (k[1] = 5 /\ k[2] < 10))

ProbeKernel ==
    /\ Probing(LinuxKernel, "begin")
    /\ \/ world.host = "missing" /\ Tell("UNKNOWN", "skipped")
       \/ /\ world.host # "missing"
          /\ \E o \in Outcomes(Host) : Ran(o) /\
               IF ~o.ok \/ world.kernel = <<>> THEN Conclude("UNKNOWN", "unavailable")
               ELSE IF Outdated(world.kernel) THEN Conclude("WARNING", "outdated")
               ELSE Conclude("HEALTHY", "version")

\* GlobalMemoryStatusEx
ProbeResources ==
    /\ Probing(Resources, "begin")
    /\ \/ Tell("HEALTHY", "memory")
       \/ MayFault /\ Tell("UNKNOWN", "fault")

\* Ping and ListContainers: every docker command is preceded by a list, for
\* the default distribution.
ProbeContainers ==
    /\ Probing(ContainerRuntime, "begin")
    /\ \/ world.host = "missing" /\ Tell("UNKNOWN", "skipped")
       \/ /\ world.host # "missing"
          /\ \E o \in Outcomes(Host) : Ran(o) /\
               IF o.ok /\ world.distro # "none" THEN Continue("client", o)
               ELSE Conclude("UNKNOWN", "unreachable")

AskClient ==
    /\ Probing(ContainerRuntime, "client")
    /\ \E o \in Outcomes(Docker(FALSE)) : Ran(o) /\
         IF o.ok THEN Continue("list for server", o) ELSE Conclude("WARNING", "no docker")

ListForServer ==
    /\ Probing(ContainerRuntime, "list for server")
    /\ \E o \in Outcomes(Host) : Ran(o) /\
         IF o.ok THEN Continue("server", o) ELSE Conclude("CRITICAL", "daemon silent")

\* Fault: only whether the command could be run is looked at.
AskServerAnyway ==
    /\ Probing(ContainerRuntime, "server")
    /\ \E o \in Outcomes(Docker(TRUE)) : Ran(o) /\
         IF ~o.killed THEN Continue("list for ps", o) ELSE Conclude("CRITICAL", "daemon silent")

AskServer ==
    /\ Probing(ContainerRuntime, "server")
    /\ \E o \in Outcomes(Docker(TRUE)) : Ran(o) /\
         IF o.ok THEN Continue("list for ps", o) ELSE Conclude("CRITICAL", "daemon silent")

\* The list of containers only adds numbers to the summary.
ListForPs ==
    /\ Probing(ContainerRuntime, "list for ps")
    /\ \E o \in Outcomes(Host) : Ran(o) /\
         IF o.ok THEN Continue("ps", o) ELSE Conclude("HEALTHY", "ready")

ListContainers ==
    /\ Probing(ContainerRuntime, "ps")
    /\ \E o \in Outcomes(Docker(TRUE)) : Ran(o) /\ Conclude("HEALTHY", "ready")

\* Fault: the component is left out of the snapshot.
PanicSkips ==
    /\ at \in Components
    /\ MayFault
    /\ at' = at + 1 /\ step' = "begin" /\ spent' = 0
    /\ UNCHANGED <<world, client, clock, report, recorded>>

\* A probe panics; the snapshot goes on with the next one.
Panic == at \in Components /\ MayFault /\ Tell("CRITICAL", "fault")

-----------------------------------------------------------------------------
(* The call                                                                 *)

Found(r) == {r[i].status : i \in 1..Len(r)}

\* Fault: an unknown component hides the warnings.
OverallUnknownFirst(r) ==
    CASE "CRITICAL" \in Found(r) -> "CRITICAL"
      [] "CRITICAL" \notin Found(r) /\ "UNKNOWN" \in Found(r) -> "UNKNOWN"
      [] OTHER -> IF "WARNING" \in Found(r) THEN "WARNING" ELSE "HEALTHY"

\* OverallStatus, one component after the other.
Overall(r) ==
    LET worse[i \in 0..7] ==
          IF i = 0 THEN "HEALTHY"
          ELSE CASE worse[i - 1] = "CRITICAL" \/ r[i].status = "CRITICAL" -> "CRITICAL"
                 [] worse[i - 1] # "CRITICAL" /\ r[i].status = "WARNING" -> "WARNING"
                 [] worse[i - 1] \in {"HEALTHY", "UNKNOWN"} /\ r[i].status = "UNKNOWN" -> "UNKNOWN"
                 [] OTHER -> worse[i - 1]
    IN  worse[Len(r)]

SafeToFix(s) == s.finding \in {"could not query", "failed to start"}

\* The command is given.  (Bound of the model: after the handler of the last
\* call has returned.)
Ask(k) ==
    /\ cli # "waiting"
    /\ at = 0
    /\ cmd' = k
    /\ cli' = "waiting"
    /\ at' = 1 /\ step' = "begin" /\ spent' = 0 /\ report' = <<>>
    /\ elapsed' = 0 /\ gone' = FALSE /\ killed' = {} /\ cut' = FALSE
    /\ recorded' = "none"
    /\ UNCHANGED <<world, offered>>

Complete == at = 8 /\ step = "begin"

\* Fault: the row is written under a context of its own.
RecordAnyway ==
    /\ Complete
    /\ cmd # "repair"
    /\ recorded' = IF cut THEN "cut" ELSE "whole"
    /\ step' = "reply"
    /\ UNCHANGED <<world, client, at, report, spent, clock>>

\* GetStatus adds the snapshot to the history, under the context of the call;
\* that it cannot is only logged.
Record ==
    /\ Complete
    /\ cmd # "repair"
    /\ \/ ~gone /\ recorded' = IF cut THEN "cut" ELSE "whole"
       \/ UNCHANGED recorded
    /\ step' = "reply"
    /\ UNCHANGED <<world, client, at, report, spent, clock>>

\* GetRepairPlan records nothing.
MakePlan ==
    /\ Complete
    /\ cmd = "repair"
    /\ step' = "reply"
    /\ UNCHANGED <<world, client, at, report, spent, clock, recorded>>

\* The handler returns, to a client that still waits or to nobody.  doctor
\* points to envorca repair where something is safe to fix.
Reply ==
    /\ at = 8
    /\ step = "reply"
    /\ at' = 0
    /\ IF gone THEN UNCHANGED <<cli, offered>>
       ELSE /\ cli' = "told"
            /\ offered' = IF cmd = "doctor"
                            THEN \E i \in 1..Len(report) : SafeToFix(report[i])
                            ELSE offered
    /\ UNCHANGED <<world, cmd, step, report, spent, clock, recorded>>

\* The client's deadline has passed.
GiveUp ==
    /\ cli = "waiting"
    /\ gone
    /\ cli' = "gave up"
    /\ UNCHANGED <<world, cmd, offered, probe, clock, recorded>>

\* The user stops the command, which ends the connection and the context.
Interrupt ==
    /\ cli = "waiting"
    /\ ~gone
    /\ cli' = "interrupted"
    /\ gone' = TRUE
    /\ UNCHANGED <<world, cmd, offered, probe, elapsed, killed, cut, recorded>>

Probe ==
    \/ ProbeDaemon
    \/ ProbeWindows
    \/ ProbeVirtualization
    \/ QueryVmcompute
    \/ QueryWslService
    \/ ProbeWsl
    \/ BootWsl
    \/ ListWsl
    \/ ProbeKernel
    \/ ProbeResources
    \/ ProbeContainers
    \/ AskClient
    \/ ListForServer
    \/ AskServer
    \/ ListForPs
    \/ ListContainers
    \/ Panic

Handler == Probe \/ Record \/ MakePlan \/ Reply

Next == Handler \/ GiveUp \/ Interrupt \/ \E k \in Commands : Ask(k)

Spec == Init /\ [][Next]_vars

\* A handler goes on: what it waits for is killed with its context.  So does
\* a client whose deadline has passed.
FairSpec == Spec /\ WF_vars(Handler) /\ WF_vars(GiveUp)

-----------------------------------------------------------------------------
(* Properties                                                               *)

Steps == {"begin", "vmcompute", "WslService", "boot", "list", "client",
          "list for server", "server", "list for ps", "ps", "reply"}

Findings == {"running", "skipped", "version", "fault", "available",
             "virtualization disabled", "no address translation",
             "platform not installed", "host service stopped",
             "WSL service stopped", "unavailable", "not installed",
             "could not query", "no distribution", "failed to start", "ready",
             "outdated", "memory", "unreachable", "no docker", "daemon silent"}

\* Every variable holds a value of its type, the statuses found are those of
\* the components already probed, in order, and no probe and no call outlives
\* what it was given.  (Snapshot, WithTimeout)
TypeOK ==
    /\ world \in Worlds
    /\ cmd \in Commands
    /\ cli \in {"idle", "waiting", "told", "gave up", "interrupted"}
    /\ offered \in BOOLEAN
    /\ at \in 0..8
    /\ step \in Steps
    /\ report \in Seq([status : Statuses, finding : Findings])
    /\ at # 0 => Len(report) = at - 1
    /\ gone \in BOOLEAN
    /\ elapsed \in Nat /\ elapsed <= Patience[cmd]
    /\ spent \in Nat /\ (spent # 0 => at \in Components /\ spent <= Budget[at])
    /\ killed \subseteq Components
    /\ cut \in BOOLEAN
    /\ recorded \in {"none", "whole", "cut"}

Share(c) == IF at > c THEN Budget[c] ELSE 0

Shares == Share(Daemon) + Share(Windows) + Share(Virtualization) + Share(Wsl)
          + Share(LinuxKernel) + Share(Resources) + Share(ContainerRuntime)

\* A snapshot never takes longer than the budgets of the probes it has come
\* to, however the time is spread over their commands: nothing else in it
\* waits.  (WithTimeout in Registry: one budget per probe, not per command)
BudgetsHold == at # 0 => elapsed <= spent + Shares

\* The overall status is what the lines of the report say: problem-free
\* exactly if none counts any ("0 problems detected" in doctor), and otherwise
\* the worst of them, an unknown one being better than a warning.
\* (OverallStatus against renderDoctor)
OverallIsWorst ==
    at = 8 => LET o == Overall(report) IN
        /\ o \in Found(report)
        /\ o # "CRITICAL" => "CRITICAL" \notin Found(report)
        /\ o \notin {"CRITICAL", "WARNING"} => "WARNING" \notin Found(report)
        /\ o = "HEALTHY" => Found(report) = {"HEALTHY"}

\* A cause that is named for virtualization is one, also when checks have
\* failed or run out of time.  (diagnoseVirtualization falls through)
CauseIsReal ==
    Len(report) >= Virtualization =>
        LET f == report[Virtualization].finding
            p == world.platform
        IN  /\ f = "virtualization disabled" => ~p.cpu
            /\ f = "no address translation"  => p.cpu /\ ~p.slat
            /\ f = "platform not installed"  => p.vmcompute = "missing"
            /\ f = "host service stopped"    => p.vmcompute = "stopped"
            /\ f = "WSL service stopped"     => p.service = "stopped"

\* What is reported healthy works, whatever was killed, failed or panicked on
\* the way.  (the error paths of the probes; those of Ping in docker.go)
HealthIsEarned ==
    \A c \in 1..Len(report) : report[c].status = "HEALTHY" =>
        /\ c = Virtualization   => world.host = "answers"
        /\ c = Wsl              => world.distro = "boots"
        /\ c = LinuxKernel      => world.kernel # <<>>
        /\ c = ContainerRuntime => world.docker = "running"

Before(k, major, minor) ==
    \E i \in 0..major, j \in 0..99 : k = <<i, j>> /\ (i = major => j < minor)

\* What is reported broken is broken, in the way that is reported: the causes
\* of a missing virtualization always are, any other unless a command of its
\* probe was killed.  (containerProbe and wslProbe tell causes apart by the
\* command that failed; that a distribution does not start and that it has no
\* docker look alike to the latter)
BlameIsEarned ==
    /\ CauseIsReal
    /\ \A c \in (1..Len(report)) \ killed :
        LET f == report[c].finding IN
        /\ f = "not installed"   => world.host = "missing"
        /\ f = "could not query" => world.host = "fails"
        /\ f = "no distribution" => world.host = "answers" /\ world.distro = "none"
        /\ f = "failed to start" => world.distro = "fails"
        /\ f = "outdated"        => Before(world.kernel, 5, 10)
        /\ f = "unreachable"     => world.host = "fails" \/ world.distro = "none"
        /\ f = "no docker"       => world.distro = "fails" \/ world.docker = "none"
        /\ f = "daemon silent"   => world.docker = "stopped"

\* What a user is told, and what is kept to be told later, is a whole
\* diagnosis: no check in it was denied because its own call had ended.  (The
\* handler of an abandoned call goes on, failing every probe, and records
\* under the context that is gone)
ToldIsWhole ==
    /\ cli = "told" => ~cut
    /\ recorded # "cut"

\* Every command ends and every handler returns, whatever hangs.  (Snapshot
\* under WithTimeout, exec.CommandContext)
DiagnosisEnds ==
    /\ cli = "waiting" ~> cli # "waiting"
    /\ at # 0 ~> at = 0

\* Whatever hangs, fails or panics, there is a step the handler of a call can
\* take, and one its client can once the deadline has passed.  (the error
\* paths of the probes, exec.CommandContext)
NobodyIsStuck ==
    /\ at # 0 => ENABLED <<Handler>>_vars
    /\ cli = "waiting" /\ gone => ENABLED <<GiveUp>>_vars

\* What doctor says can be fixed, repair has the patience to find: where the
\* last report has offered a repair and nobody interrupts it, the command that
\* makes one does not give up.  (GetRepairPlan: 8 seconds for what may take
\* as long as the snapshot doctor waits 20 for)
OfferIsReachable == offered /\ cmd = "repair" => cli # "gave up"
=============================================================================

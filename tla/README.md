# TLA+ models of Envorca

Envorca is a daemon (`envorcad`) that diagnoses and repairs a WSL2/Docker
environment, and a thin command-line client (`envorca`) that talks to it by
gRPC over a local endpoint. These modules model the parts of it whose
correctness depends on the order of things, or on two places that must agree:
the event bus, the life of daemon processes that share an endpoint, the repair
flow, the database that processes share, a diagnosis and the time it takes, and
the two resolutions of the endpoint. TLC checks them on small instances; TLAPS
proves the main safety properties of all six for every value of the constants, three
refinements, and the liveness as far as section 4 says.

Paths below are relative to `src/`.

## 1. Inventory

| Component | State | Operations | Hard behaviour | What makes it correct |
|---|---|---|---|---|
| Event bus, `daemon/internal/events/events.go` | sequence number, replay buffer of 256, set of subscriber channels of 64, one mutex | Publish, Subscribe, unsubscribe, Snapshot | fan-out to slow readers, trimming, the gap between two critical sections of one reader | numbers without gaps in the buffer, live order, nothing lost but to a full channel, no publisher waits |
| Event streams, `StreamEvents` in `daemon/internal/api/daemon.go` | a handler's position: replaying, live, leaving | subscribe, replay, send, receive, leave | clients that stall or go at any step, random `select` | replay and live stream join without a gap; every exit unsubscribes |
| Daemon lifecycle, `daemon/cmd/envorcad/main.go` | position of `run`, listener, database, lifecycle state, pid file | boot, serve, stop by Shutdown, signal or error, exit | stop waits for calls while other processes come up; crashes leave files | no call outlives the database; stopped daemons end and leave nothing |
| IPC transport, `api/ipc` | a socket file or a named pipe | listen, dial, clean up | on Unix, three steps on a name anyone may remove | one daemon at an endpoint, reachable while it serves |
| start, stop, `cli/cmd/envorca/lifecycle.go` | position of the command | probe, spawn, poll, Shutdown | the daemon changes between two steps | start ends with a daemon, stop without |
| Recovery, `daemon/internal/recovery/actions.go` | none of its own | Plan, Execute (apply, execute, verify) | acts on a snapshot taken before; steps that fail half-way | success is verified, nothing destructive unconfirmed or on a healthy system |
| Repair handlers, `GetRepairPlan`, `ExecuteRepair` in `daemon.go` | a handler's position, its context | snapshot, act, publish, record | concurrent handlers, a context that ends at any point | an outcome that is reported is recorded |
| Repair command, `cli/cmd/envorca/repair.go` | plan, flag, answer, results | ask, send, print | deadlines of 8 and 30 seconds | the user's answer counts; it always ends |
| WSL bridge, `daemon/internal/wsl/wsl.go` | none | list, boot, shutdown, parsing of output | `wsl.exe` hangs, fails, is killed | every command ends with its context |
| Diagnosis, `daemon/internal/diagnosis`, `health` | the registry | sequential snapshot with a budget per probe; a probe is up to six commands | budgets against the clients' deadlines; commands that fail, hang or are killed half-way; summaries that recovery matches by words | healthy means working, a named cause is the cause, `safe_to_fix` exactly where an action applies, it ends in time |
| History, `daemon/internal/state/history.go` | two tables | insert and prune, read | two statements without a transaction | at most 200 and 1000 rows, newest first |
| Migrations, `daemon/internal/state/state.go` | schema, applied versions | migrate, read and write settings | two daemons on one file; a crash between migrations | every version applied once, in order |
| Configuration, `daemon/internal/config`, `cli/cmd/envorca/config.go`, `api/ipc` | none | resolve state directory and endpoint | two implementations of one rule; a file edited between them | daemon and CLI meet at one endpoint, and at the state the user means |
| Container driver, `daemon/internal/runtime` | none | ping, list | a list before every command; classification of failures | a running engine, a stopped one and none are told apart |
| doctor, status, `cli/cmd/envorca` | none | one call and what it says of it | deadlines of 20 and 15 seconds | no half diagnosis is told; what is offered can be had |
| events, history, ping, `cli/cmd/envorca` | none | one call and its rendering | clients of the above | – |
| Resources, logging, version, generated API, build | none | – | – | – |

How they interact: the CLI commands call the daemon over the endpoint; each
call runs in a goroutine of its own; the handlers share the bus, the registry,
the recovery object (stateless) and one database connection; `Shutdown` cancels
the context that `run` waits on; `run` then stops the gRPC server, which waits
for all handlers, removes the endpoint and closes the database. Across
processes, daemons share the endpoint, the pid file and the database file.

`PROJECT.json` lists the hazards at their lines, with the properties that cover
each.

## 2. Modules

| Module | Models |
|---|---|
| `EventBus` | `events.go` and `StreamEvents` |
| `EventFeed` | what the bus promises: the abstract specification `EventBus` implements |
| `EventBusProofs` | theorems about `EventBus` |
| `EventFeedProofs` | the proof that `EventBus` implements `EventFeed` |
| `Lifecycle` | `main.go`, `api/ipc`, `Shutdown`, `envorca start` and `envorca stop` |
| `Authority` | what a named pipe promises its clients: the abstract specification `Lifecycle` implements on Windows |
| `LifecycleProofs` | theorems about `Lifecycle`, among them that it implements `Authority` on a named pipe |
| `Repair` | `actions.go`, the WSL probe, `wsl.go`, the repair handlers and `envorca repair` |
| `RepairProofs` | theorems about `Repair` |
| `State` | `state.go`, `history.go`, the handlers that record and read history |
| `Database` | what the database promises whoever uses it: the abstract specification `State` implements |
| `StateProofs` | theorems about `State`, among them that it implements `Database` |
| `Diagnosis` | `health.go`, `probes.go`, `probes_windows.go`, `docker.go`, `GetStatus`, the call of `envorca doctor`, `status` and `repair` |
| `DiagnosisProofs` | theorems about `Diagnosis` |
| `Endpoint` | both `config.go`, the endpoints of `api/ipc`, who reads the file when |
| `EndpointProofs` | theorems about `Endpoint` |
| `MCEventBus`, `MCLifecycle`, `MCRepair`, `MCState`, `MCDiagnosis`, `MCEndpoint` | symmetries and values; with the `.cfg` files, the instances TLC checks |

The operators marked "Fault" in the modules are plausible bugs, each right
before the definition it would replace. No action uses them; `PROJECT.json`
says which property TLC finds violated when one does.

### EventBus

An event is its number. `seq`, `buffer`, `subs` and `chan` are the fields of
`Bus`; `pc`, `replay`, `todo` and `gone` are a handler's position, its request,
the events it has taken and not yet sent, and its context. Each method of the
bus holds the mutex throughout and is one action: `Publish`, `Subscribe`,
`Replay` (Snapshot), `Unsubscribe`. Between them the handler takes a step per
event: `Send`, `Receive`, `SendFails`, `SeeDone`. `Disconnect` is the client
leaving, at any time. The remaining variables are history: what a client got,
what met its full channel, and the numbers at which it subscribed and copied.

`EventFeed` has neither channels nor handlers: a reader is owed every event
published while its stream is open and gets the oldest first; only a reader
that is owed as many events as a channel holds may be passed over. The
refinement maps `owed` to the contents of the channel and of the handler.
Replayed events are not part of the feed; `HandoffComplete` and
`DuplicatesOnlyAtHandoff` say how the two join. They also say what the code does
*not* promise: subscribing before copying means that an event published between
the two is sent twice, once in the copy and once live. The proto file's "the
retained replay buffer first (when replay = true), then live events" does not
mention it.

### Lifecycle

Any number of daemon processes, each in a slot that is used again after the
process is down. `pc` is how far `run` has come; `listener`, `db`, `dstate` and
`signalled` are what it holds; `path` and `pidFile` are the two files daemons
share. On Unix `listen` is the three actions `DialEndpoint`, `RemoveEndpoint`,
`Bind`; on Windows it is `CreatePipe`, and the pipe exists while a listener or a
connection of any daemon is open. `handlers` and `conns` separate the call that
runs from the client that waits for it: a client that gives up (`HangUp`)
leaves its handler behind. `Stop`, `Drained`, `Cleanup`, `CloseState`, `Exit`
are the stop sequence, in the order of `main.go`. `Crash` may come at any time,
and every error return of `run` is an action (`BootFails`, `PidFails`,
`ServeFails`). The commands are `cli`: every probe is a step of its own, so the
daemon that answers the second may be another than answered the first. `Refused` is
the step of `listen` that finds the endpoint taken, `Told`
the `select` of `run` with something to receive, `Held` a stream whose client is
still there.

`Authority` has no processes, only who has claimed, opened or closed the pipe and
who is connected: a claim needs that nobody has anything to do with it any more. Its
`stage` of a daemon is `Stage` here: `claimed` between `listen` and Serve, `open` while it
serves, `closing` while it drains with clients connected, and nothing before and after.
A daemon that drains handlers whose clients have left is nothing to the pipe, which the
next may claim meanwhile. On a socket file there is no such promise (section 3,
`life_cleanup`).

Of gRPC and go-winio the model uses what the code relies on: `GracefulStop`
closes the listeners, refuses new calls and waits for running ones; closing a Unix
listener removes the file it was bound to by name; a pipe name cannot be created
a second time while an instance of it is open.

### Repair

`env` is the state WSL is in, `call` the handlers in the daemon, one per client
and kind of call, and the rest the clients. A handler is a sequence of `wsl.exe`
commands (`todo`) in a phase: the probe of the snapshot, the execution, the
verification. Handlers interleave between any two commands. `Wsl` says what a
command may do; a shutdown may or may not cure what keeps WSL from working. A
context is open, cut short during a command, or done: the command that was
running when its client left may still have its effect, later ones are not
started. `Drift` lets the environment change by itself. Only the WSL component
is modelled, since `CanExecute` of both actions looks at no other; the other
probes add time, which the model has anyway (`Slow`).

`Summary` texts are abstracted to the five cases `wslProbe` distinguishes;
`CanExecute` keeps the two conditions of the code, critical status and words in
the summary. `Conclude` records what a handler has done, if the context is still
open and the database takes the row; `State` says when it may refuse one. The
code logs the refusal and replies all the same (`daemon.go:177-179`); `unrecorded`, a
history variable, holds the rows that were lost that way. The second `List` of the
probe (`probes.go:122`) only adds detail to a summary that is healthy by then, and
is left out.

### State

The database file is `schema` and `tables` (the rows of `schema_migrations` and
the tables the migrations make, one version each) and `rows`, `last` (the rows of
a history table by their number, and the number `AUTOINCREMENT` gave last). A
process opens and migrates it before it listens (`main.go:77-92`), so two may
migrate at once: `ReadApplied` is the one query outside the transactions, `Apply`
a migration with its row, `Conflict` the primary key that stops whoever comes
second. A call is `Begin` to `Fails` or `Prune`: the insertion and the prune are
two steps, an error may take the place of each, and `Crash` may come between any
two. `Read` is a query of the newest rows under `clampLimit`.

Of SQLite the model uses what the code relies on: statements and transactions
are atomic and durable, and a row's number is not given again. One history table is
modelled, with `Keep` for 200 or 1000; a row is its number.

`Database` says what of all this the daemon may rely on: a version that goes up one
migration at a time, then one log that is added to at its end and cut at its
beginning, and readers that are given its newest entries.

### Diagnosis

`world` is what there is to find out: the firmware and the two services of
Windows, how `wsl.exe`, the distribution and docker behave, the kernel. It does
not change; `Repair` has a world that does. `at` and `step` are how far the
snapshot of a call has come, one action per external command, and `report` what
it has found. A command answers after one of `Delays`, or fails, or is killed
when its context is done: `Room` is what is left of the probe's budget and of
the client's patience, whichever is less, and a command with no room is not
started. `Ran` lets time pass, which nothing else does. A probe may panic
(`Panic`), and the calls of Windows itself may fail. `Record` and `Reply` are
the end of `GetStatus`, `MakePlan` that of `GetRepairPlan`'s snapshot; `GiveUp`
and `Interrupt` are a client that leaves while the handler goes on. A finding is
the branch of the probe that returned; its wording is left out. The model takes the
firmware flag that Windows reports at its word. (The code asks for feature 23,
`probes_windows.go:110`, which `winnt.h` names `PF_FASTFAIL_AVAILABLE`; the flag for
virtualization in the firmware is 21 there. What Windows answers is outside `src/`.)

`Repair` looks at the WSL component only, but with handlers and an environment
that interleave; `Diagnosis` looks at all seven, one call at a time.

Outside `src/` are Windows, `wsl.exe` and docker. The model assumes of them that
killing `wsl.exe` ends the command, that `docker version` with a server field
fails when the engine is stopped while the client's own version does not need
it, and that a query of a service tells missing, stopped and running apart.

### Endpoint

Every terminal has `settings` (the environment and `--config`), there is one
config `file`, and whoever resolves does so with what holds at that moment:
`CommandEndpoint` is the CLI's rule, `StateDir` and `DaemonEndpoint` the
daemon's, `Loads` what keeps a daemon from starting. A `platform` gives the
endpoint of a directory: on Unix each directory has its own, on Windows all
have one pipe. `Start` resolves once and then polls; the daemon it spawns reads
the file later, in `Load`, and `Edit` may come between.

How a daemon takes and leaves its endpoint is `Lifecycle`'s subject. Here are the
steps of it at which daemons of one endpoint can meet: on a socket file `Dial`, `Remove` and
`Bind`, the removal in `Drain` and the one in `Leave`; on a pipe `CreatePipe`. `owner`
says whose socket the file at an endpoint is, so that `Answers`, who a client reaches, and
`Serves`, who has a listener there, may differ. `raced` is history: the socket files at
which a daemon began to listen while another was about to, or was draining. These races are
real, and `OwnsItsState` names them as its exception.

## 3. Runs

| Run | Instance | Checks |
|---|---|---|
| `bus` | 2 streams, buffer 3, channels 2, 4 events | `TypeOK`, `HandoffComplete`, `DuplicatesOnlyAtHandoff`, `ImplementsFeed` |
| `bus_live` | 2 streams, buffer 2, channels 1, 2 events | `LeaversUnsubscribe`, `QueuedIsSent`, `EveryEventIsPublished` |
| `life_windows` | pipe, 2 daemons, 2 terminals, 1 call, 1 stream | `TypeOK`, `NoCallOnClosedState`, `ImplementsAuthority` |
| `life_unix` | socket, 2 daemons, 1 terminal, 1 call, 1 stream | `LeavesNoTrace`, `ReachableWhenApart`, `RefusedOnlyByTheLiving`, `StopCompletes` |
| `repair` | 1 client, slow commands, drift at any time | `TypeOK`, `SafeToFixIsFixable`, `PrintedIsRecorded`, `ShutdownIsConfirmed`, `SuccessIsVerified`, `NobodyIsStuck`, `RepairEnds` |
| `repair_calm` | 1 client, drift between calls | `HealthyIsNotRestarted` |
| `state` | 2 daemons, 2 handlers each, 2 migrations, 2 rows kept, 5 added | `TypeOK`, `MigratedInOrder`, `SomeoneMigrates`, `NewestKept`, `OverflowIsOwed`, `ReadsAreNewest`, `ImplementsDatabase` |
| `diagnosis` | the budgets of `Registry` and the deadlines of the CLI; commands take 0 or 3 seconds or hang; one panic or failing call | `TypeOK`, `OverallIsWorst`, `HealthIsEarned`, `BlameIsEarned`, `ToldIsWhole`, `NobodyIsStuck`, `DiagnosisEnds` |
| `endpoint` | 2 terminals, 2 directories, 1 socket to name, Unix and Windows, 1 edit | `TypeOK`, `OwnsItsState`, `ReachesItsState` |

Why the bounds are enough. With a buffer of 3 and 4 events the buffer is trimmed;
with channels of 2 the publisher overruns them, and a handler still has room to be
between any two of its steps; 2 streams show that they do not disturb each other,
and the theorems lift the bounds. Two daemons are the smallest number that overlaps,
two terminals the smallest number that starts two daemons at once (one terminal that
has given up waiting for the first starts another, too); a slot is used again, so
that any number of daemons follow one another. In `repair` the handlers of one
client overlap after a deadline, which is the concurrency its properties face. In
`state` two migrations are the number the daemon has; two rows kept of five added
let the table overflow, be pruned and overflow again with handlers of both daemons
in between, and the limits 0, 1 and 4 fall below, inside and above the allowed range
of 1 to 3. In `diagnosis` budgets and deadlines are the code's own; a delay of 0
lets everything be in time and one of 3 fills some budgets exactly, exhausts others
in the second or third command, and adds up to more than each deadline. What is not
visible in a world is fixed (nothing behind a `wsl.exe` that fails is looked at, so
it does not vary), and two things more: the services run where the firmware is at
fault, and the kernel varies only where all else works; no probe looks at either
pair together. In `endpoint` the rules compare a directory with the default one and
a socket with none, so that one directory and one socket to name reach all their
cases, and two daemons meet at one endpoint in every way; one edit between any two
of the steps start, load, listen, command is what a file can do to one daemon.

The event bus runs do not check deadlock: the model stops
when `MaxSeq` events are published and every stream, one per identity, is
closed. All other runs check it.

Fairness, and why the code justifies it. *EventBus*: a runnable goroutine runs
(weak fairness of each step of a handler that does not depend on its client); Go's
`select` draws among the ready cases, so a done context is not passed over for
ever (strong fairness of `SeeDone`). `QueuedIsSent` assumes in addition that the
client reads, `EveryEventIsPublished` that whoever publishes runs, and of clients nothing.
*Lifecycle*: a process that can run runs; a handler of an ordinary call returns,
which `RepairEnds` and `DiagnosisEnds` justify for the longest of them. Nobody is
made to call, hang up or type. `StopCompletes` assumes in addition that clients
of event streams disconnect (`StreamsEnd`): a stream's handler ends only with its
client, and `GracefulStop` waits for it.
*Repair*: both programs make progress, deadlines pass, and a command whose
context is over is killed. `wsl.exe` itself is owed nothing: it may hang in
every command, and the user need not answer. *Diagnosis*: the handler goes on
(each of its commands answers or is killed) and a client whose deadline has passed
gives up. *State* and *Endpoint* state no liveness and assume no fairness.

Fairness promises a step only to who can take it. In `Repair` and `Diagnosis` a
handler may be in the middle of a command, under a context that is open, cut short or
done, or with no time left: `NobodyIsStuck` says that there it still can take a
step that depends on no client, user or `wsl.exe`. The runs check it as an invariant,
and the proofs of liveness (section 4) start from it.

### Runs that end in a violation

| Run | The code | What a reader of the repository expects |
|---|---|---|
| `life_cleanup` | `run` removes the endpoint by name after waiting for its calls (`main.go:129`), when the name may be the next daemon's, which then serves unreachably | `Cleanup` "removes residual endpoint state" (`ipc.go:51`) |
| `endpoint_relocated` | the daemon derives its endpoint from the state directory of its config file (`daemon/internal/config/config.go:42`), a command always from the default one (`cli/cmd/envorca/config.go:41`): with `state_dir` in the file and no socket named, `start` gives up on a daemon that serves and `stop` finds none | `commandEndpoint` "resolves the IPC endpoint the same way the daemon does" (`cli/cmd/envorca/config.go:26`); "one endpoint resolution rule across daemon, CLI, and tests" (`docs/configuration.md:27-28`) |
| `diagnosis_offer` | `repair` gives the snapshot 8 seconds (`repair.go:38`), `doctor` 20; a distribution that hangs at boot costs the WSL probe 8 and the container probe another 8 | doctor: "Envorca can fix this. Run 'envorca repair' to apply the repair." (`doctor.go:91`) |

More differences are in the models and follow from them, without a run: two daemons
started at the same moment on a socket file both listen (`socket_unix.go:19-23`,
against `ipc.go:45-46`); `start` right after `stop` finds the daemon that is about
to go and says that one is running (`lifecycle.go:26`); a daemon stopped by a signal
reports `running` to the calls it drains (`main.go:145`); the outcome of a repair
whose client is gone is published and not recorded, and one whose row the database
refuses is replied and printed but not recorded, which only a line in the log tells
(`daemon.go:177-179`, against its comment at 160-161 and `docs/configuration.md:53`,
"outcomes of every repair action"); with two clients, `HealthyIsNotRestarted` fails,
since both handlers may take their snapshot before either acts, and the second then
shuts down a distribution just repaired (`daemon.go:169`, against "action on a
healthy component must not succeed", `actions_test.go:191`); a prune that is cut off
leaves more rows than "capped at 200 most recent" (`docs/configuration.md:49-56`),
until the next one; of two daemons that start on a new database, one may end with an
error of its migration and not of the endpoint (`state.go:104`); a stop waits as
long as any client watches events (`main.go:128`, against "Gracefully shut the
daemon down", `README.md:98`); after "y" at the prompt `wsl.restart` is refused,
because the call carries the flag `--yes` and not the answer (`repair.go:76`,
against "only run when the user authorizes them (or --yes is passed)",
`repair.go:23-25`); after `wsl.start` has worked, `wsl.restart` of the same plan no
longer applies and counts as failed (`repair.go:82`, against the transcript in
`README.md:54-62`).

From `Diagnosis`: a hanging `wsl.exe` costs 22 seconds in four probes, more than
`doctor` waits, so that the one command that could name the cause times out;
a docker client that is killed by the budget counts as "not installed"
(`docker.go:34-38`), which is why `BlameIsEarned` leaves out probes with a
killed command; a `GetStatus` whose client has left adds nothing to the history
(`daemon.go:96`, against `docs/configuration.md:51`), for which `ToldIsWhole` is
the better for it.

From `Endpoint`: the case of `endpoint_relocated` is the only one in which the two
rules part (theorem `Found`, section 4). On a socket file two daemons that start at
once, or one that starts while another drains, may both serve, from one state directory
with its database (`socket_unix.go:19-23`); otherwise only a socket setting can bring that
about, which `OwnsItsState` says. `socket` in the file goes
before `ENVORCA_SOCKET` (`daemon/internal/config/config.go:39`, against its
comment at 20-21), on both sides alike. On Windows all directories share one pipe
(`endpoint_windows.go:20-22`), so that there `ReachesItsState` is not claimed.

## 4. Theorems

Checked by TLAPS, for all values of the constants under the named assumptions
(`BusAssumption`, `LifecycleAssumption`, `RepairAssumption`, `StateAssumption`,
`DiagnosisAssumption`, `EndpointAssumption`).

`EventBusProofs`. `TypeCorrect`, `BufferIsWindow`: `TypeOK` and `ReplayWindow`
are inductive together. The other three properties speak of what a client has
got, which says nothing of what it will get; the induction is about its *line*,
what it has got followed by what its handler holds followed by its channel.
`LineInvariant` says that the line consists of the copy, a gapless window that
ends at `copiedAt`, followed by strictly increasing events from after `joined`,
and that every event since the window's start is in the line or in `lost`. A
`Send` or `Receive` moves the split and leaves the line alone; `Publish` appends
to it. `LiveEventsInOrder`, `HandoffIsComplete` and `DuplicatesComeFromHandoff`
follow from it. The rest is liveness, from `FairSpec` and `GuardsSuffice`, a
hypothesis that says what no prover here can: that an action is ENABLED where its guard
holds. `LeaversLeave` (a handler whose client has gone is copying, skipping the copy, idle,
sending or leaving, and each leads to the next; the strong fairness of `SeeDone` is
needed where events keep coming), `PublisherGoesOn` (every event is published,
whatever clients do), and `StreamGoesOn` (a stream with an event queued sends its
client one more, if that reads and stays). `QueuedGoesOut` is about every event: it
waits in the channel or in the handler until it is sent or the client goes (`WaitsOn`),
meanwhile the client gets one more and one more (`Reaches`, from n events to n + 1), and
it cannot get more than twice `MaxSeq` (`StreamIsBounded`: the copy is a window of what
has been published, what follows rises). From n to n + 1 for every n is an induction,
which the temporal prover does not do: `QueuedGoesOut` has it as a hypothesis
(`Counting`), `TwoEventsGoOut` does its five steps for the two events of the run
and needs none.

`EventFeedProofs`. `BusImplementsFeed`: under the mapping of `EventBus` to
`EventFeed`, `Subscribe` opens a stream, `Publish` emits, the `Send` of a live event
delivers, `Unsubscribe` closes, and the rest are stutters. A reader is owed the part
of its line that lies behind the copy and has not been sent. Passing a reader over is
allowed only when it is owed `ChanCap` events, and a full channel alone makes that many.
The induction adds `TakenInv` to the line: a handler holds what is left of its copy
or, once live, one event at most.

`LifecycleProofs`. `TypeCorrect` includes that the listener and the database are
functions of `pc`. `CallsOnlyWhileServing` (handlers run only in a daemon that
serves or drains, which holds because `Drained` waits for them) gives
`CallsHaveState`. `PipeGivesOneAuthority` holds on Windows, inductively: a pipe is
created only if nobody holds an instance, and connections are made only to the
daemon that listens. `GoodOrderLeavesNoTrace` rests on `path` and `pidFile` naming
only daemons that are still on their way to the step that removes them, unless some
daemon crashed or failed. Daemons that overlap at will break two more properties
(section 3), and the theorems say which overlaps it takes. `ClaimsApart`: no two are
between the first and the last step of a Unix `listen` at once. `StopsApart`: on
Unix, none comes up or serves while another is on its way out. `ApartIsNotRefused`
(`RefusedOnlyByTheLiving`) needs the first, `ApartIsReachable`
(`ReachableWhenApart`) both: a file that has been removed before binding stays away
(`ClaimInv`), and one that has been bound stays one's own (`ReachInv`).
`PipeIsFair`: on a named pipe neither is needed. `AloneIsServed`: daemons that do
not overlap at all meet both conditions. `PipeImplementsAuthority` is the
refinement: whoever is connected is connected to a daemon that serves or drains
(`Connected`), and where one daemon has to do with the pipe no other has
(`OnlyHolder`, from `OneAuthority`), so that a boot, a call, a stop or a crash of
any process is one step of `Authority` or none. The rest is liveness, from
`EndingSpec` and `GuardsSuffice` (as in `EventBusProofs`). A daemon that is told to
stop goes through its stages, each ended by its own step or a crash, but for the
wait in `GracefulStop`: `OnlyCallsHoldItUp`, it ends or waits for calls for ever.
`CallsComeBack`: in that wait each call comes back and none takes its place. That
they are all back at once takes an induction over their number: `StopsComplete` has
it as a hypothesis (`TogetherOn`, for which `NoneTogether` and `OneMoreTogether` are
the base and the step), and `TwoCallsStop` does its two steps for the calls of the
run, with any number of daemons and terminals.

`RepairProofs`. `Typed` is the inductive invariant: types, and `Handled`, which says
for each phase of a handler which `wsl.exe` commands it may have left (`Scripts`),
that what executes a restart is confirmed, and that what concludes has an outcome.
That a confirmed call is one of a client run with `--yes` is an invariant of its own
(`Flagged`): the flag is chosen when the command begins, and no handler of an
earlier run is left by then. `TypeCorrect`, `DestructiveIsConfirmed` (only a restart
that executes has a shutdown to run), `SuccessWasSeen` (a result becomes "ok" only
at the end of a script, which is a boot) and `SafeIsFixable` (over all findings of
the probe) follow. `PrintedIsInHistory` needs two more facts: the handler a client
waits for has its context open (`WaitedFor`), and a handler about to reply with its
context open has recorded its outcome, or the database has refused it
(`ToldIsRecorded`). `SerialLeavesHealthyAlone` is proved under `Calm` (commands that
keep to their budgets, an environment that changes between calls only), for any
number of clients, as long as the daemon has one call at a time (`Serial`): what a
handler has found stays true until it has acted on it (`CalmInv`).
`CalmLeavesHealthyAlone`: one client alone is serial by itself. `NoHandlerIsLost`
justifies a bound of the model, one place for each kind of call of a client, and
that a repair sends no action twice: by `Tracked` a client has no call out for what
it has still to do, and a call in an open context is the one its client waits for.
`RepairsEnd` is the liveness: the plan leaves a client five stages at most, each
ended by a step of its own; the handler of a call is first left by its client and
then goes through its phases, none of which depends on a command that may hang,
since each may be killed by then.

`StateProofs`. The migrations rest on `Believed`: a version a process has not
found missing is in the file, whoever has applied it; so the version that
`Apply` adds has all its predecessors there. The history rests on the rows being
one run of numbers `low .. last` that starts at 1 or holds the newest `Keep`
(`RowsFrom`); `NewestRun` computes what `ORDER BY id DESC LIMIT n` leaves of
such a run. `NewestStay` (a prune takes only the oldest, never the newest
`Keep`), `OverflowStaysOwed`, `ReadsStayNewest` and `HistoryNeverGoesBack` follow
from it, for any number of daemons and handlers. `StateImplementsDatabase` is the
refinement: every step of `State`, a crash between any two included, is a step of
`Database` or changes nothing there. `SomeoneGetsThrough` rests on
`LeaderInv`: whoever applied the newest version leads, and what it still has to do
is exactly what the file lacks, so that nobody's row stands in its way. `TypeCorrect`
gathers the types from all of these.

`DiagnosisProofs`, for any budgets, deadlines and delays. `IInv` is `TypeOK` with
five parts: `BudgetsHold` (the time a snapshot has taken is within the budgets of
the probes it has come to), `Known` (what the world shows at a step is implied by
the answers that led there: who has come to `boot` has had a list), `Truth` (each
line of the report is what its probe may say of this world), `Order` (a command is
denied by the call's context only when that is done, and who has been told has no
handler left) and `ToldIsWhole`.
`Budgets`, `Cause`, `Health`, `Blame` and `Whole` follow. `OverallCounts` solves the
loop of `OverallStatus`, a recursive function over the report, for lists of any length:
what it returns says which components there are. `DiagnosesEnd` is the liveness: a
handler's steps lead to the next or out of its probe, of which there are finitely many,
and whoever has been left gives up. `PatienceSuffices` (a client gives up only if its
patience is within the sum of all budgets) and `CommandsEnd` (every command has an
outcome in whatever time is left) say why its hypotheses can be met.
`PatienceKeepsOffers` is the other side of the run `diagnosis_offer`: were `repair` to wait
longer than the budgets of all probes together, what `doctor` offers could always be had.

`EndpointProofs`, for any number of terminals, directories, sockets, platforms
and edits. `IInv` is `TypeOK`, `Configured` (a daemon that has loaded has the
directory and the endpoint that its settings and the file it has read give),
`Resolved` (so has a `start` that polls) and `Apart`: at a socket file where nobody has
met, one daemon at most is anywhere from `Dial` to `Leave`, and the file is its own while
it serves (`FilesApart`); on a pipe, one serves at most (`PipesApart`). `OwnState` needs
all of it: without a socket setting, daemons of one directory are at one endpoint, and there
`Apart` keeps the second from serving. `ReachState` needs the rules alone, whoever holds the name.
`Found` says of the rules that with the same settings and file they part in exactly one case,
that of the run `endpoint_relocated` (`FoundUnlessRelocated`).

Only model-checked: `NobodyIsStuck` of `Repair` and `Diagnosis`, since no prover here
reasons about ENABLED; their liveness theorems have it for a hypothesis, as those of
`EventBus` and `Lifecycle` have `GuardsSuffice`. Two more liveness properties,
`StopCompletes` and `QueuedIsSent`, are proved for every size only up to an induction that
the temporal prover does not do, and without that for the sizes of their runs.
`HealthyIsNotRestarted` is proved under the conditions stated above, which the instance of
`repair_calm` meets. Proved and in no passing run: `OneAuthority` of `Lifecycle` (of which
`ImplementsAuthority` says more), `ReplayWindow` and `LiveInOrder` of `EventBus`,
`ServingIsMigrated` and `HistoryAdvances` of `State`, `BudgetsHold` and `CauseIsReal` of
`Diagnosis`, `FoundUnlessRelocated` of `EndpointProofs`. `ServingIsReachable` without a
condition is the property of a run that ends in its violation.

## 5. Not modelled, and the plan

One thing is left to do: a composition of `Lifecycle` with the handlers of `Repair`
and `Diagnosis` in place of `Calls`, for the stop of a daemon in the middle of a
repair. Today the two sides meet in an assumption, that a handler returns, which each
of the other modules checks of its own.

Left out for good: parsing and decoding of `wsl.exe` and `docker` output,
rendering, logging, version strings, the pipe's access control list, generated
code, build and CI: data without control, or not part of the running program.

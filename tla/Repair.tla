------------------------------- MODULE Repair -------------------------------
(***************************************************************************)
(* The repair flow: diagnose, propose, confirm, execute, verify.  Clients  *)
(* run envorca repair (cli/cmd/envorca/repair.go); for each of their calls *)
(* the daemon runs a handler of its own (GetRepairPlan, ExecuteRepair in   *)
(* daemon/internal/api/daemon.go), which probes WSL (diagnosis/probes.go)  *)
(* and runs the repair actions (recovery/actions.go) as sequences of       *)
(* wsl.exe commands (wsl/wsl.go).  Handlers of different calls interleave  *)
(* between any two commands; nothing in the daemon keeps them apart.       *)
(*                                                                         *)
(* Of the components only "wsl" is modelled: no action looks at another.   *)
(***************************************************************************)
EXTENDS Sequences, FiniteSets

CONSTANTS
    Clients,    \* users of envorca repair
    Slow,       \* TRUE: wsl.exe may outlast a budget, a deadline or a user
    Drifts      \* when the environment also changes by itself

ASSUME RepairAssumption ==
    /\ Slow \in BOOLEAN
    /\ Drifts \in {"never", "between calls", "always"}

Actions == {"wsl.start", "wsl.restart"}
Calls   == Clients \X (Actions \cup {"plan"})

VARIABLES
    env,        \* the state WSL is in
    cli,        \* cli[c]: what the client's command does, or how it ended
    yes,        \* yes[c]: the --yes flag
    plan,       \* plan[c]: the actions still to be executed
    printed,    \* printed[c]: the result the command printed for each action
    call,       \* call[h]: the daemon's handler of a call
    history,    \* the repair history since each client's latest run began
    unrecorded  \* history: the outcomes that the database has refused since then

vars == <<env, cli, yes, plan, printed, call, history, unrecorded>>

\* WSL missing; unable to answer; without a default distribution; with one
\* that does not boot, that is stopped, that is running.
Environments == {"absent", "broken", "empty", "stuck", "stopped", "running"}

\* How envorca repair ends.
Ends == {"idle", "no plan", "nothing to repair", "aborted",
         "all applied", "some failed"}

\* The results of an action, "unrun" before there is one.
Outcomes == {"ok", "not applicable", "execute failed", "verify failed"}
Results  == Outcomes \cup {"unrun", "refused", "gave up"}

\* The summaries of the wsl component.
Findings == {"not installed", "could not query", "no distribution",
             "failed to start", "ready"}

NoCall == [phase |-> "none", todo |-> <<>>, named |-> FALSE, wsl |-> "ready",
           ctx |-> "done", confirmed |-> FALSE, result |-> "unrun"]

Init ==
    /\ env \in Environments
    /\ cli = [c \in Clients |-> "idle"]
    /\ yes = [c \in Clients |-> FALSE]
    /\ plan = [c \in Clients |-> <<>>]
    /\ printed = [c \in Clients |-> [a \in Actions |-> "unrun"]]
    /\ call = [h \in Calls |-> NoCall]
    /\ history = {}
    /\ unrecorded = {}

-----------------------------------------------------------------------------
(* Diagnosis and actions                                                    *)

Critical(w)  == w \in {"not installed", "could not query", "failed to start"}
SafeToFix(w) == w \in {"could not query", "failed to start"}

\* Fault: restart is for what does not start only.
CanExecuteOnStartFailure(a, w) == w = "failed to start"

\* CanExecute: which actions apply is read off the words of the summary.
CanExecute(a, w) ==
    /\ Critical(w)
    /\ \/ w = "failed to start"
       \/ w = "could not query" /\ a = "wsl.restart"

\* Plan: the applicable actions, in their fixed order.
Offer(a, w) == IF CanExecute(a, w) THEN <<a>> ELSE <<>>
Plan(w) == Offer("wsl.start", w) \o Offer("wsl.restart", w)

RequiresConfirmation(a) == a = "wsl.restart"

\* The wsl.exe commands of the probe and of each action.  (After a boot that
\* succeeds the probe lists once more, but only for the details of its summary.)
Probe == <<"list", "boot">>
Check == <<"list", "boot">>
Execution(a) == IF a = "wsl.restart" THEN <<"shutdown", "list", "boot">>
                                     ELSE <<"list", "boot">>

\* What wsl.exe may do with a command: its success and the state it leaves.
\* A shutdown may, or may not, clear what keeps WSL from working; booting
\* without a name fails, and so does booting in any state but the last two.
Wsl(cmd, named, e) ==
    CASE cmd = "list" -> {<<e \notin {"absent", "broken"}, e>>}
      [] cmd = "boot" -> IF named /\ e \in {"stopped", "running"}
                           THEN {<<TRUE, "running">>} ELSE {<<FALSE, e>>}
      [] cmd = "shutdown" ->
           CASE e \in {"stopped", "running"} -> {<<TRUE, "stopped">>}
             [] e = "empty"  -> {<<TRUE, e>>}
             [] e = "absent" -> {<<FALSE, e>>}
             [] e = "stuck"  -> {<<TRUE, e>>, <<TRUE, "stopped">>}
             [] e = "broken" -> {<<TRUE, e>>, <<TRUE, "stopped">>, <<FALSE, e>>}

\* The handler, once its next command has succeeded or failed in state e.
Probed(r, ok, e) ==
    LET cmd  == Head(r.todo)
        done(w) == [r EXCEPT !.phase = "decide", !.todo = <<>>, !.named = FALSE,
                             !.wsl = w]
    IN  CASE cmd = "list" /\ e = "absent"      -> done("not installed")
          [] cmd = "list" /\ e # "absent" /\ ~ok -> done("could not query")
          [] cmd = "list" /\ ok /\ e = "empty" -> done("no distribution")
          [] cmd = "list" /\ ok /\ e \notin {"absent", "empty"} ->
               [r EXCEPT !.todo = Tail(@), !.named = TRUE]
          [] cmd = "boot" -> done(IF ok THEN "ready" ELSE "failed to start")

Executed(r, ok, e) ==
    IF ~ok
      THEN [r EXCEPT !.phase = "conclude", !.todo = <<>>, !.named = FALSE, !.result = "execute failed"]
    ELSE IF Len(r.todo) = 1
      THEN [r EXCEPT !.phase = "verify", !.todo = Check, !.named = FALSE]
    ELSE [r EXCEPT !.todo = Tail(@),
                   !.named = IF Head(r.todo) = "list" THEN e # "empty" ELSE @]

\* Fault: the error of the verification is dropped.
VerifiedAnyway(r, ok, e) ==
    IF Len(r.todo) = 1
      THEN [r EXCEPT !.phase = "conclude", !.todo = <<>>, !.named = FALSE, !.result = "ok"]
      ELSE [r EXCEPT !.todo = Tail(@), !.named = e # "empty"]

Verified(r, ok, e) ==
    IF ~ok
      THEN [r EXCEPT !.phase = "conclude", !.todo = <<>>, !.named = FALSE, !.result = "verify failed"]
    ELSE IF Len(r.todo) = 1
      THEN [r EXCEPT !.phase = "conclude", !.todo = <<>>, !.named = FALSE, !.result = "ok"]
    ELSE [r EXCEPT !.todo = Tail(@), !.named = e # "empty"]

After(r, ok, e) ==
    CASE r.phase = "probe"   -> Probed(r, ok, e)
      [] r.phase = "execute" -> Executed(r, ok, e)
      [] r.phase = "verify"  -> Verified(r, ok, e)

-----------------------------------------------------------------------------
(* The handlers in the daemon                                               *)

Begin(h, confirmed) ==
    [call EXCEPT ![h] = [NoCall EXCEPT !.phase = "probe", !.todo = Probe,
                                       !.ctx = "open", !.confirmed = confirmed]]

RunsCommand(h) == call[h].phase \in {"probe", "execute", "verify"}

\* A context that was cut short during a command is done after it.
Ended(ctx) == IF ctx = "cut" THEN "done" ELSE ctx

\* The next wsl.exe command of the handler runs and ends.
Command(h) ==
    /\ RunsCommand(h)
    /\ call[h].ctx # "done"
    /\ \E out \in Wsl(Head(call[h].todo), call[h].named, env) :
        /\ env' = out[2]
        /\ call' = [call EXCEPT ![h] = [After(call[h], out[1], env)
                                       EXCEPT !.ctx = Ended(call[h].ctx)]]
    /\ UNCHANGED <<cli, yes, plan, printed, history, unrecorded>>

\* Fault: a command that was killed is tried again.
KilledAndRetried(h) ==
    /\ RunsCommand(h)
    /\ Slow /\ (call[h].phase = "probe" \/ call[h].ctx # "open")
    /\ call' = [call EXCEPT ![h].ctx = Ended(@)]
    /\ UNCHANGED <<env, cli, yes, plan, printed, history, unrecorded>>

\* The command is killed, with or without having had its effect: the budget
\* of the probe has run out, or the context of the call is done.  A command
\* that would begin under a context already done is not even started.
Killed(h) ==
    /\ RunsCommand(h)
    /\ Slow /\ (call[h].phase = "probe" \/ call[h].ctx # "open")
    /\ \/ env' = env
       \/ /\ call[h].ctx # "done"
          /\ \E out \in Wsl(Head(call[h].todo), call[h].named, env) : env' = out[2]
    /\ call' = [call EXCEPT ![h] = [After(call[h], FALSE, env) EXCEPT !.ctx = Ended(call[h].ctx)]]
    /\ UNCHANGED <<cli, yes, plan, printed, history, unrecorded>>

\* Fault: an action of the plan is executed without a new diagnosis.
DecideFromPlan(h) ==
    LET r == call[h]  a == h[2]
        go(phase, todo, result) == call' = [call EXCEPT
            ![h].phase = phase, ![h].todo = todo, ![h].result = result]
    IN  /\ r.phase = "decide"
        /\ IF a = "plan" THEN go("reply", <<>>, "unrun")
           ELSE IF RequiresConfirmation(a) /\ ~r.confirmed THEN go("reply", <<>>, "refused")
           ELSE go("execute", Execution(a), "unrun")
        /\ UNCHANGED <<env, cli, yes, plan, printed, history, unrecorded>>

\* Fault: confirmation is not asked for.
DecideUnconfirmed(h) ==
    LET r == call[h]  a == h[2]
        go(phase, todo, result) == call' = [call EXCEPT
            ![h].phase = phase, ![h].todo = todo, ![h].result = result]
    IN  /\ r.phase = "decide"
        /\ IF a = "plan" THEN go("reply", <<>>, "unrun")
           ELSE IF ~CanExecute(a, r.wsl) THEN go("conclude", <<>>, "not applicable")
           ELSE go("execute", Execution(a), "unrun")
        /\ UNCHANGED <<env, cli, yes, plan, printed, history, unrecorded>>

\* The snapshot is complete: the plan is ready, or Execute looks at its action.
Decide(h) ==
    LET r == call[h]  a == h[2]
        go(phase, todo, result) == call' = [call EXCEPT
            ![h].phase = phase, ![h].todo = todo, ![h].result = result]
    IN  /\ r.phase = "decide"
        /\ IF a = "plan" THEN go("reply", <<>>, "unrun")
           ELSE IF ~CanExecute(a, r.wsl) THEN go("conclude", <<>>, "not applicable")
           ELSE IF RequiresConfirmation(a) /\ ~r.confirmed THEN go("reply", <<>>, "refused")
           ELSE go("execute", Execution(a), "unrun")
        /\ UNCHANGED <<env, cli, yes, plan, printed, history, unrecorded>>

Row(h) == <<h[1], h[2], call[h].result>>

\* Fault: only what worked is recorded.
ConcludeSuccess(h) ==
    /\ call[h].phase = "conclude"
    /\ call' = [call EXCEPT ![h].phase = "reply"]
    /\ history' = IF call[h].ctx = "open" /\ call[h].result = "ok"
                    THEN history \cup {Row(h)} ELSE history
    /\ UNCHANGED <<env, cli, yes, plan, printed, unrecorded>>

\* The outcome is published and recorded, the latter under the context of the
\* call.  If that is done, or the database refuses (what it may do at any time:
\* Fails in module State), the error is logged and the outcome replied all the
\* same.
Conclude(h) ==
    /\ call[h].phase = "conclude"
    /\ call' = [call EXCEPT ![h].phase = "reply"]
    /\ \/ call[h].ctx = "open" /\ history' = history \cup {Row(h)} /\ UNCHANGED unrecorded
       \/ call[h].ctx = "open" /\ unrecorded' = unrecorded \cup {Row(h)} /\ UNCHANGED history
       \/ call[h].ctx # "open" /\ UNCHANGED <<history, unrecorded>>
    /\ UNCHANGED <<env, cli, yes, plan, printed>>

\* The reply finds nobody.
Discard(h) ==
    /\ call[h].phase = "reply"
    /\ call[h].ctx # "open"
    /\ call' = [call EXCEPT ![h] = NoCall]
    /\ UNCHANGED <<env, cli, yes, plan, printed, history, unrecorded>>

\* Users, updates and Windows itself change the environment.
Drift ==
    /\ \/ Drifts = "always"
       \/ Drifts = "between calls" /\ \A h \in Calls : call[h] = NoCall
    /\ env # "absent"
    /\ env' \in Environments \ {"absent"}
    /\ UNCHANGED <<cli, yes, plan, printed, call, history, unrecorded>>

-----------------------------------------------------------------------------
(* envorca repair                                                           *)

Set(f, c, v) == [f EXCEPT ![c] = v]

\* Fault: a command that is running is not told.
CancelBetweenCommands(h) ==
    [call EXCEPT ![h].ctx = IF RunsCommand(h) THEN @ ELSE "done"]

\* The client of call h is gone: its context is cut short, if a command is
\* running during that command.
Cancel(h) == [call EXCEPT ![h].ctx = IF RunsCommand(h) THEN "cut" ELSE "done"]

\* The command begins: it asks for the plan.  (Bound of the model: a client
\* has one handler per kind of call, so the last run's must have returned.)
Run(c) ==
    /\ cli[c] \in Ends
    /\ \A h \in Calls : h[1] = c => call[h] = NoCall
    /\ cli' = Set(cli, c, "planning")
    /\ \E y \in BOOLEAN : yes' = Set(yes, c, y)
    /\ printed' = Set(printed, c, [a \in Actions |-> "unrun"])
    /\ call' = Begin(<<c, "plan">>, FALSE)
    /\ history' = {row \in history : row[1] # c}
    /\ unrecorded' = {row \in unrecorded : row[1] # c}
    /\ UNCHANGED <<env, plan>>

\* The plan arrives.
Planned(c) ==
    LET h == <<c, "plan">>
        p == Plan(call[h].wsl)
    IN  /\ cli[c] = "planning"
        /\ call[h].phase = "reply"
        /\ plan' = Set(plan, c, p)
        /\ cli' = Set(cli, c, IF p = <<>> THEN "nothing to repair"
                              ELSE IF yes[c] THEN "executing" ELSE "asking")
        /\ call' = Set(call, h, NoCall)
        /\ UNCHANGED <<env, yes, printed, history, unrecorded>>

\* 8 seconds are over, or the user has lost patience.
GiveUpPlan(c) ==
    /\ Slow
    /\ cli[c] = "planning"
    /\ cli' = Set(cli, c, "no plan")
    /\ call' = Cancel(<<c, "plan">>)
    /\ UNCHANGED <<env, yes, plan, printed, history, unrecorded>>

\* "Apply these repairs now? [y/N]"
Answer(c) ==
    /\ cli[c] = "asking"
    /\ \/ cli' = Set(cli, c, "executing") /\ UNCHANGED plan
       \/ cli' = Set(cli, c, "aborted") /\ plan' = Set(plan, c, <<>>)
    /\ UNCHANGED <<env, yes, printed, call, history, unrecorded>>

\* Fault: whatever the user has agreed to counts as confirmed.
SendConfirmed(c) ==
    /\ cli[c] = "executing"
    /\ plan[c] # <<>>
    /\ call' = Begin(<<c, Head(plan[c])>>, TRUE)
    /\ cli' = Set(cli, c, "waiting")
    /\ UNCHANGED <<env, yes, plan, printed, history, unrecorded>>

\* The next action is sent; what confirms it is the flag.
Send(c) ==
    /\ cli[c] = "executing"
    /\ plan[c] # <<>>
    /\ call' = Begin(<<c, Head(plan[c])>>, yes[c])
    /\ cli' = Set(cli, c, "waiting")
    /\ UNCHANGED <<env, yes, plan, printed, history, unrecorded>>

\* Fault: the command keeps waiting for the action it has reported.
ReportAndWait(c, result) ==
    /\ printed' = [printed EXCEPT ![c][Head(plan[c])] = result]
    /\ plan' = Set(plan, c, Tail(plan[c]))
    /\ UNCHANGED cli

\* A result is printed, and the loop turns to the next action.
Report(c, result) ==
    /\ printed' = [printed EXCEPT ![c][Head(plan[c])] = result]
    /\ plan' = Set(plan, c, Tail(plan[c]))
    /\ cli' = Set(cli, c, "executing")

\* Its outcome, or the refusal, arrives.
Replied(c) ==
    /\ cli[c] = "waiting"
    /\ LET h == <<c, Head(plan[c])>>
       IN  /\ call[h].phase = "reply"
           /\ Report(c, call[h].result)
           /\ call' = Set(call, h, NoCall)
    /\ UNCHANGED <<env, yes, history, unrecorded>>

\* 30 seconds are over.
GiveUp(c) ==
    /\ Slow
    /\ cli[c] = "waiting"
    /\ Report(c, "gave up")
    /\ call' = Cancel(<<c, Head(plan[c])>>)
    /\ UNCHANGED <<env, yes, history, unrecorded>>

\* Every action has been tried.
Finish(c) ==
    /\ cli[c] = "executing"
    /\ plan[c] = <<>>
    /\ cli' = Set(cli, c, IF \A a \in Actions : printed[c][a] \in {"unrun", "ok"}
                            THEN "all applied" ELSE "some failed")
    /\ UNCHANGED <<env, yes, plan, printed, call, history, unrecorded>>

-----------------------------------------------------------------------------
Handler(h) == Command(h) \/ Killed(h) \/ Decide(h) \/ Conclude(h) \/ Discard(h)

Client(c) ==
    \/ Planned(c)
    \/ GiveUpPlan(c)
    \/ Send(c)
    \/ Replied(c)
    \/ GiveUp(c)
    \/ Finish(c)

Next ==
    \/ \E h \in Calls : Handler(h)
    \/ \E c \in Clients : Run(c) \/ Answer(c) \/ Client(c)
    \/ Drift

Spec == Init /\ [][Next]_vars

\* What a handler does that does not depend on wsl.exe.
Proceed(h) == Killed(h) \/ Decide(h) \/ Conclude(h) \/ Discard(h)

\* Both programs make progress, the deadlines pass, and a command whose time
\* is over is killed.  wsl.exe itself may hang: Command is owed nothing.
HandlerRuns(h) == WF_vars(Proceed(h))
ClientRuns(c)  == WF_vars(Client(c))

Fairness ==
    /\ \A h \in Calls : HandlerRuns(h)
    /\ \A c \in Clients : ClientRuns(c)

FairSpec == Spec /\ Fairness

-----------------------------------------------------------------------------
(* Properties                                                               *)

Phases == {"none", "probe", "decide", "execute", "verify", "conclude", "reply"}

\* Every variable holds a value of its type, and a handler has commands left
\* exactly while it runs commands.  (repair.go, ExecuteRepair, Execute)
TypeOK ==
    /\ env \in Environments
    /\ cli \in [Clients -> Ends \cup {"planning", "asking", "executing", "waiting"}]
    /\ yes \in [Clients -> BOOLEAN]
    /\ plan \in [Clients -> Seq(Actions)]
    /\ printed \in [Clients -> [Actions -> Results]]
    /\ call \in [Calls -> [phase : Phases, todo : Seq({"list", "boot", "shutdown"}),
                           named : BOOLEAN, wsl : Findings,
                           ctx : {"open", "cut", "done"}, confirmed : BOOLEAN, result : Results]]
    /\ history \subseteq Clients \X Actions \X Outcomes
    /\ unrecorded \subseteq Clients \X Actions \X Outcomes
    /\ \A h \in Calls : RunsCommand(h) <=> call[h].todo # <<>>
    /\ \A c \in Clients : cli[c] = "waiting" => plan[c] # <<>>

ShutsDown(h) ==
    (Command(h) \/ Killed(h)) /\ RunsCommand(h) /\ Head(call[h].todo) = "shutdown"

\* "Destructive actions always require explicit user confirmation": WSL is
\* shut down only by a call that carries confirmed = true, and for a client run
\* with --yes: a "y" at the prompt is not enough, and the flag of an earlier or
\* another run confirms nothing.  (Execute in actions.go, repair.go)
ShutdownIsConfirmed ==
    [][\A h \in Calls : ShutsDown(h) => call[h].confirmed /\ yes[h[1]]]_vars

\* A repair never shuts down a distribution that is running: ExecuteRepair
\* diagnoses again before it acts, so that what an earlier action of the
\* plan, or anyone since the plan was made, has repaired is left alone.  For
\* one client, commands that keep to their budgets and an environment that
\* holds still during a call.  (ExecuteRepair, Execute; actions_test.go)
HealthyIsNotRestarted ==
    [][\A h \in Calls : ShutsDown(h) => env # "running"]_vars

\* A result is "ok" only if the distribution was seen to run at the very
\* end of the verification, whatever else happened to it.  (Execute, Verify)
SuccessIsVerified ==
    [][\A h \in Calls :
        (call'[h].result = "ok" /\ call[h].result # "ok") => env' = "running"]_vars

\* What doctor promises repair keeps: a diagnosis that is marked safe to fix
\* has an applicable action, and no other has.  (SafeToFix in wslProbe,
\* CanExecute, which matches words of wslProbe's summaries)
SafeToFixIsFixable ==
    \A h \in Calls : call[h].phase = "decide" =>
        (SafeToFix(call[h].wsl) <=> Plan(call[h].wsl) # <<>>)

\* Every outcome the command prints is in the repair history, unless the
\* database has refused it: what is lost because the context of its call had
\* ended is never printed, and failures are kept.  (ExecuteRepair records under the
\* context of the call and replies after that)
PrintedIsRecorded ==
    \A c \in Clients, a \in Actions :
        printed[c][a] \in Outcomes => <<c, a, printed[c][a]>> \in history \cup unrecorded

\* The handler is the one that its client waits for.
Awaited(h) ==
    \/ cli[h[1]] = "planning" /\ h[2] = "plan"
    \/ cli[h[1]] = "waiting" /\ h[2] = Head(plan[h[1]])

\* Nobody depends on a wsl.exe that hangs: a command that waits for nothing but
\* its handler can go on or give up, and a handler whose client does not wait
\* any more can go on, or its command be killed.  (the deadlines in repair.go,
\* exec.CommandContext in wsl.go)
NobodyIsStuck ==
    /\ \A c \in Clients :
        cli[c] \in {"planning", "executing", "waiting"} => ENABLED <<Client(c)>>_vars
    /\ \A h \in Calls :
        call[h] # NoCall => Awaited(h) \/ ENABLED <<Proceed(h)>>_vars

\* envorca repair ends, or waits for the user's answer, and every handler
\* returns, even if wsl.exe hangs: what Shutdown's graceful stop relies on.
\* (the deadlines in repair.go, exec.CommandContext in wsl.go, WithTimeout in
\* health.go)
RepairEnds ==
    /\ \A c \in Clients :
        cli[c] \in {"planning", "executing", "waiting"} ~> cli[c] \in Ends \cup {"asking"}
    /\ \A h \in Calls : call[h] # NoCall ~> call[h] = NoCall
=============================================================================

---------------------------- MODULE RepairProofs ----------------------------
(***************************************************************************)
(* Proofs about Repair, for any number of clients, however slow wsl.exe is *)
(* and whenever the environment changes.  What a handler has still to run, *)
(* and what it knows by then, is a function of how far it has come         *)
(* (Handled); the safety of the repairs follows from that.  That what is   *)
(* printed is recorded rests on what a waiting client knows of its         *)
(* handler: the context of the call is still open.  That a running         *)
(* distribution is left alone, by clients that take turns, rests on a      *)
(* finding staying true until the handler has acted on it (CalmInv).       *)
(* That no call is lost, and none sent over another, rests on what a plan  *)
(* may hold and on which calls a client has out by then (Tracked).  That   *)
(* everything ends is shown stage by stage: first of the handlers, then of *)
(* the clients that wait for them.                                         *)
(***************************************************************************)
EXTENDS Repair, Integers, SequenceTheorems, TLAPS

\* What a handler may still have to run, by how far it has come.
Scripts(phase, a) ==
    CASE phase \in {"probe", "verify"} -> {<<"list", "boot">>, <<"boot">>}
      [] phase = "execute" /\ a = "wsl.restart" ->
           {<<"shutdown", "list", "boot">>, <<"list", "boot">>, <<"boot">>}
      [] phase = "execute" /\ a # "wsl.restart" -> {<<"list", "boot">>, <<"boot">>}
      [] OTHER -> {<<>>}

\* The handler r of call h runs the commands of its phase; what has begun to
\* act is an action, confirmed if it must be; what concludes has an outcome.
HandlerOK(h, r) ==
    /\ r.todo \in Scripts(r.phase, h[2])
    /\ r.phase \in {"execute", "verify", "conclude"} => h[2] \in Actions
    /\ (r.phase = "execute" /\ RequiresConfirmation(h[2])) => r.confirmed
    /\ r.phase = "conclude" => r.result \in Outcomes

Handled == \A h \in Calls : HandlerOK(h, call[h])

\* A client that waits has a handler that knows it.
WaitedFor ==
    \A c \in Clients : cli[c] = "waiting" => call[<<c, Head(plan[c])>>].ctx = "open"

\* An outcome about to be replied is in the history.
ToldIsRecorded ==
    \A h \in Calls :
        (call[h].phase = "reply" /\ call[h].ctx = "open" /\ call[h].result \in Outcomes)
            => <<h[1], h[2], call[h].result>> \in history \cup unrecorded

-----------------------------------------------------------------------------
(* The handlers and the commands                                            *)

Commands == {"list", "boot", "shutdown"}
Contexts == {"open", "cut", "done"}
Records  == [phase : Phases, todo : Seq(Commands), named : BOOLEAN, wsl : Findings,
             ctx : Contexts, confirmed : BOOLEAN, result : Results]

\* A command leaves WSL in one of its states, and a boot that succeeds leaves
\* it running.
LEMMA WslTyped ==
    ASSUME NEW cmd \in Commands, NEW named \in BOOLEAN,
           NEW e \in Environments, NEW out \in Wsl(cmd, named, e)
    PROVE  /\ out[1] \in BOOLEAN
           /\ out[2] \in Environments
           /\ (cmd = "boot" /\ out[1]) => out[2] = "running"
<1>1. \A ok \in BOOLEAN, f \in Environments :
        out = <<ok, f>> => (out[1] = ok /\ out[2] = f)
  OBVIOUS
<1>2. CASE cmd = "list"
  <2>1. out = <<e \notin {"absent", "broken"}, e>>
    BY <1>2 DEF Wsl
  <2> QED
    BY <1>2, <2>1
<1>3. CASE cmd = "boot"
  <2>1. out = <<TRUE, "running">> \/ out = <<FALSE, e>>
    BY <1>3 DEF Wsl
  <2>2. CASE out = <<TRUE, "running">>
    BY <2>2 DEF Environments
  <2>3. CASE out = <<FALSE, e>>
    BY <2>3
  <2> QED
    BY <2>1, <2>2, <2>3
<1>4. CASE cmd = "shutdown"
  <2>1. out = <<TRUE, "stopped">> \/ out = <<FALSE, e>> \/ out = <<TRUE, e>>
    BY <1>4 DEF Wsl, Environments
  <2>2. CASE out = <<TRUE, "stopped">>
    BY <1>4, <2>2 DEF Environments
  <2>3. CASE out = <<FALSE, e>>
    BY <1>4, <2>3
  <2>4. CASE out = <<TRUE, e>>
    BY <1>4, <2>4
  <2> QED
    BY <2>1, <2>2, <2>3, <2>4
<1> QED
  BY <1>2, <1>3, <1>4 DEF Commands

\* The scripts, as sequences of commands.
LEMMA ScriptParts ==
    /\ <<>> \in Seq(Commands)
    /\ <<"boot">> \in Seq(Commands)
    /\ <<"list", "boot">> \in Seq(Commands)
    /\ <<"shutdown", "list", "boot">> \in Seq(Commands)
    /\ Tail(<<"list", "boot">>) = <<"boot">>
    /\ Tail(<<"shutdown", "list", "boot">>) = <<"list", "boot">>
    /\ Head(<<"boot">>) = "boot"
    /\ Head(<<"list", "boot">>) = "list"
    /\ Head(<<"shutdown", "list", "boot">>) = "shutdown"
    /\ Len(<<"boot">>) = 1
    /\ Len(<<"list", "boot">>) = 2
    /\ Len(<<"shutdown", "list", "boot">>) = 3
BY DEF Commands

\* A handler has commands left exactly while it runs them, and only a restart
\* that executes has a shutdown to run.
LEMMA ScriptsTyped ==
    ASSUME NEW h \in Calls, NEW r \in Records, HandlerOK(h, r)
    PROVE  /\ r.phase \in {"probe", "execute", "verify"} <=> r.todo # <<>>
           /\ r.todo # <<>> => Head(r.todo) \in Commands
           /\ (r.todo # <<>> /\ Head(r.todo) = "shutdown") => r.confirmed
<1>1. CASE r.phase \in {"probe", "verify"}
  BY <1>1, ScriptParts DEF HandlerOK, Scripts, Commands
<1>2. CASE r.phase = "execute" /\ h[2] = "wsl.restart"
  BY <1>2, ScriptParts DEF HandlerOK, Scripts, Commands, RequiresConfirmation
<1>3. CASE r.phase = "execute" /\ h[2] # "wsl.restart"
  BY <1>3, ScriptParts DEF HandlerOK, Scripts, Commands
<1>4. CASE r.phase \notin {"probe", "execute", "verify"}
  BY <1>4 DEF HandlerOK, Scripts
<1> QED
  BY <1>1, <1>2, <1>3, <1>4

\* The ways in which a handler goes on.
Decided(r, w)   == [r EXCEPT !.phase = "decide", !.todo = <<>>, !.named = FALSE, !.wsl = w]
Concluded(r, o) == [r EXCEPT !.phase = "conclude", !.todo = <<>>, !.named = FALSE, !.result = o]
GoneOn(r, todo, named) == [r EXCEPT !.todo = todo, !.named = named]
InContext(r, x) == [r EXCEPT !.ctx = x]

\* A handler whose probe has a finding w is in order.
LEMMA HandlerDecides ==
    ASSUME NEW h \in Calls, NEW r \in Records, HandlerOK(h, r), NEW w \in Findings
    PROVE  LET q == Decided(r, w) IN
           /\ q \in Records /\ HandlerOK(h, q)
           /\ q.phase = "decide" /\ q.result = r.result /\ q.ctx = r.ctx /\ q.confirmed = r.confirmed
<1> DEFINE q == Decided(r, w)
<1>1. q \in Records
  BY ScriptParts DEF Decided, Records, Phases
<1>2. q.phase = "decide" /\ q.todo = <<>> /\ q.result = r.result /\ q.ctx = r.ctx /\ q.confirmed = r.confirmed
  BY DEF Decided, Records
<1> HIDE DEF q
<1>3. HandlerOK(h, q)
  BY <1>2 DEF HandlerOK, Scripts
<1> QED
  BY <1>1, <1>2, <1>3 DEF q

\* An action that has its outcome o is in order.
LEMMA HandlerConcludes ==
    ASSUME NEW h \in Calls, NEW r \in Records, HandlerOK(h, r), h[2] \in Actions,
           NEW o \in Outcomes
    PROVE  LET q == Concluded(r, o) IN
           /\ q \in Records /\ HandlerOK(h, q)
           /\ q.phase = "conclude" /\ q.result = o /\ q.ctx = r.ctx /\ q.confirmed = r.confirmed
<1> DEFINE q == Concluded(r, o)
<1>1. q \in Records
  BY ScriptParts DEF Concluded, Records, Phases, Results
<1>2. q.phase = "conclude" /\ q.todo = <<>> /\ q.result = o /\ q.ctx = r.ctx /\ q.confirmed = r.confirmed
  BY DEF Concluded, Records
<1> HIDE DEF q
<1>3. HandlerOK(h, q)
  BY <1>2 DEF HandlerOK, Scripts
<1> QED
  BY <1>1, <1>2, <1>3 DEF q

\* A handler that goes on with a script of its phase is in order.
LEMMA HandlerGoesOn ==
    ASSUME NEW h \in Calls, NEW r \in Records, HandlerOK(h, r),
           NEW todo \in Scripts(r.phase, h[2]), todo \in Seq(Commands), NEW named \in BOOLEAN
    PROVE  LET q == GoneOn(r, todo, named) IN
           /\ q \in Records /\ HandlerOK(h, q)
           /\ q.phase = r.phase /\ q.result = r.result /\ q.ctx = r.ctx /\ q.confirmed = r.confirmed
<1> DEFINE q == GoneOn(r, todo, named)
<1>1. q \in Records
  BY DEF GoneOn, Records
<1>2. q.phase = r.phase /\ q.todo = todo /\ q.confirmed = r.confirmed
      /\ q.result = r.result /\ q.ctx = r.ctx /\ q.confirmed = r.confirmed
  BY DEF GoneOn, Records
<1> HIDE DEF q
<1>3. HandlerOK(h, q)
  BY <1>2 DEF HandlerOK
<1> QED
  BY <1>1, <1>2, <1>3 DEF q

\* A handler whose context is cut short stays in order.
LEMMA HandlerIsCut ==
    ASSUME NEW h \in Calls, NEW r \in Records, HandlerOK(h, r), NEW x \in Contexts
    PROVE  LET q == InContext(r, x) IN
           /\ q \in Records /\ HandlerOK(h, q)
           /\ q.phase = r.phase /\ q.result = r.result /\ q.ctx = x /\ q.confirmed = r.confirmed
<1> DEFINE q == InContext(r, x)
<1>1. q \in Records
  BY DEF InContext, Records
<1>2. q.phase = r.phase /\ q.todo = r.todo /\ q.confirmed = r.confirmed
      /\ q.result = r.result /\ q.ctx = x /\ q.confirmed = r.confirmed
  BY DEF InContext, Records
<1> HIDE DEF q
<1>3. HandlerOK(h, q)
  BY <1>2 DEF HandlerOK
<1> QED
  BY <1>1, <1>2, <1>3 DEF q

\* A handler whose command has ended, well or badly, is in order; it has not
\* got to its reply, and its result is a success only after a boot.
LEMMA AfterOK ==
    ASSUME NEW h \in Calls, NEW r \in Records, HandlerOK(h, r),
           r.phase \in {"probe", "execute", "verify"},
           NEW ok \in BOOLEAN, NEW e \in Environments
    PROVE  LET q == After(r, ok, e)
           IN  /\ q \in Records /\ HandlerOK(h, q)
               /\ q.ctx = r.ctx /\ q.confirmed = r.confirmed
               /\ q.phase # "reply"
               /\ (q.result = "ok" /\ r.result # "ok") => (ok /\ Head(r.todo) = "boot")
<1> DEFINE q == After(r, ok, e)
<1> DEFINE Goal == /\ q \in Records /\ HandlerOK(h, q)
                   /\ q.ctx = r.ctx /\ q.confirmed = r.confirmed
                   /\ q.phase # "reply"
                   /\ (q.result = "ok" /\ r.result # "ok") => (ok /\ Head(r.todo) = "boot")
<1> SUFFICES Goal
  OBVIOUS
<1> HIDE DEF q
<1>a. ASSUME NEW w \in Findings,
             q = Decided(r, w)
      PROVE  Goal
  <2>1. /\ q \in Records /\ HandlerOK(h, q)
        /\ q.phase = "decide" /\ q.result = r.result /\ q.ctx = r.ctx /\ q.confirmed = r.confirmed
    BY <1>a, HandlerDecides, Zenon
  <2> QED
    BY <2>1, Zenon
<1>b. ASSUME NEW o \in Outcomes, h[2] \in Actions, o = "ok" => (ok /\ Head(r.todo) = "boot"),
             q = Concluded(r, o)
      PROVE  Goal
  <2>1. /\ q \in Records /\ HandlerOK(h, q)
        /\ q.phase = "conclude" /\ q.result = o /\ q.ctx = r.ctx /\ q.confirmed = r.confirmed
    BY <1>b, HandlerConcludes, Zenon
  <2> QED
    BY <1>b, <2>1, Zenon
<1>c. ASSUME NEW todo \in Scripts(r.phase, h[2]), todo \in Seq(Commands), NEW named \in BOOLEAN,
             q = GoneOn(r, todo, named)
      PROVE  Goal
  <2>1. /\ q \in Records /\ HandlerOK(h, q)
        /\ q.phase = r.phase /\ q.result = r.result /\ q.ctx = r.ctx /\ q.confirmed = r.confirmed
    BY <1>c, HandlerGoesOn, Zenon
  <2>2. r.phase # "reply"
    OBVIOUS
  <2> QED
    BY <2>1, <2>2, Zenon
<1>d. /\ "not installed" \in Findings /\ "could not query" \in Findings
      /\ "no distribution" \in Findings
      /\ "ok" \in Outcomes /\ "execute failed" \in Outcomes /\ "verify failed" \in Outcomes
      /\ TRUE \in BOOLEAN /\ (e # "empty") \in BOOLEAN
      /\ "execute failed" # "ok" /\ "verify failed" # "ok"
  BY DEF Findings, Outcomes
<1>1. CASE r.phase = "probe"
  <2>1. r.todo \in {<<"list", "boot">>, <<"boot">>}
    BY <1>1 DEF HandlerOK, Scripts
  <2>2. q = Probed(r, ok, e)
    BY <1>1 DEF q, After
  <2>3. CASE r.todo = <<"list", "boot">>
    <3>1. CASE e = "absent"
      <4>1. q = Decided(r, "not installed")
        BY <2>2, <2>3, <3>1, ScriptParts DEF Probed, Decided
      <4> QED
        BY <4>1, <1>a, <1>d, Zenon
    <3>2. CASE e # "absent" /\ ~ok
      <4>1. q = Decided(r, "could not query")
        BY <2>2, <2>3, <3>2, ScriptParts DEF Probed, Decided
      <4> QED
        BY <4>1, <1>a, <1>d, Zenon
    <3>3. CASE e = "empty" /\ ok
      <4>1. q = Decided(r, "no distribution")
        BY <2>2, <2>3, <3>3, ScriptParts DEF Probed, Decided
      <4> QED
        BY <4>1, <1>a, <1>d, Zenon
    <3>4. CASE e \notin {"absent", "empty"} /\ ok
      <4>1. q = GoneOn(r, <<"boot">>, TRUE)
        BY <2>2, <2>3, <3>4, ScriptParts DEF Probed, Records, GoneOn
      <4>2. <<"boot">> \in Scripts(r.phase, h[2])
        BY <1>1 DEF Scripts
      <4> QED
        BY <4>1, <4>2, <1>c, <1>d, ScriptParts, Zenon
    <3> QED
      BY <3>1, <3>2, <3>3, <3>4
  <2>4. CASE r.todo = <<"boot">>
    <3>1. q = Decided(r, IF ok THEN "ready" ELSE "failed to start")
      BY <2>2, <2>4, ScriptParts DEF Probed, Decided
    <3>2. (IF ok THEN "ready" ELSE "failed to start") \in Findings
      BY DEF Findings
    <3> QED
      BY <3>1, <3>2, <1>a, Zenon
  <2> QED
    BY <2>1, <2>3, <2>4
<1>2. CASE r.phase = "execute"
  <2>0. h[2] \in Actions
    BY <1>2 DEF HandlerOK
  <2>1. r.todo \in {<<"shutdown", "list", "boot">>, <<"list", "boot">>, <<"boot">>}
    BY <1>2 DEF HandlerOK, Scripts
  <2>2. q = Executed(r, ok, e)
    BY <1>2 DEF q, After
  <2>3. CASE ~ok
    <3>1. q = Concluded(r, "execute failed")
      BY <2>2, <2>3 DEF Executed, Concluded
    <3> QED
      BY <2>0, <2>3, <3>1, <1>b, <1>d, Zenon
  <2>4. CASE ok /\ r.todo = <<"shutdown", "list", "boot">>
    <3>1. q = GoneOn(r, <<"list", "boot">>, r.named)
      BY <2>2, <2>4, ScriptParts DEF Executed, Records, GoneOn
    <3>2. <<"list", "boot">> \in Scripts(r.phase, h[2]) /\ r.named \in BOOLEAN
      BY <1>2 DEF Scripts, Records
    <3> QED
      BY <3>1, <3>2, <1>c, <1>d, ScriptParts, Zenon
  <2>5. CASE ok /\ r.todo = <<"list", "boot">>
    <3>1. q = GoneOn(r, <<"boot">>, (e # "empty"))
      BY <2>2, <2>5, ScriptParts DEF Executed, Records, GoneOn
    <3>2. <<"boot">> \in Scripts(r.phase, h[2])
      BY <1>2 DEF Scripts
    <3> QED
      BY <3>1, <3>2, <1>c, <1>d, ScriptParts, Zenon
  <2>6. CASE ok /\ r.todo = <<"boot">>
    <3>1. q = [r EXCEPT !.phase = "verify", !.todo = <<"list", "boot">>, !.named = FALSE]
      BY <2>2, <2>6, ScriptParts DEF Executed, Check
    <3>2. q \in Records
      BY <3>1, ScriptParts DEF Records, Phases
    <3>3. HandlerOK(h, q) /\ q.phase = "verify" /\ q.ctx = r.ctx /\ q.confirmed = r.confirmed /\ q.result = r.result
      BY <2>0, <3>1 DEF HandlerOK, Scripts, Records
    <3> QED
      BY <3>2, <3>3
  <2> QED
    BY <2>1, <2>3, <2>4, <2>5, <2>6
<1>3. CASE r.phase = "verify"
  <2>0. h[2] \in Actions
    BY <1>3 DEF HandlerOK
  <2>1. r.todo \in {<<"list", "boot">>, <<"boot">>}
    BY <1>3 DEF HandlerOK, Scripts
  <2>2. q = Verified(r, ok, e)
    BY <1>3 DEF q, After
  <2>3. CASE ~ok
    <3>1. q = Concluded(r, "verify failed")
      BY <2>2, <2>3 DEF Verified, Concluded
    <3> QED
      BY <2>0, <2>3, <3>1, <1>b, <1>d, Zenon
  <2>4. CASE ok /\ r.todo = <<"list", "boot">>
    <3>1. q = GoneOn(r, <<"boot">>, (e # "empty"))
      BY <2>2, <2>4, ScriptParts DEF Verified, GoneOn
    <3>2. <<"boot">> \in Scripts(r.phase, h[2])
      BY <1>3 DEF Scripts
    <3> QED
      BY <3>1, <3>2, <1>c, <1>d, ScriptParts, Zenon
  <2>5. CASE ok /\ r.todo = <<"boot">>
    <3>1. q = Concluded(r, "ok")
      BY <2>2, <2>5, ScriptParts DEF Verified, Concluded
    <3> QED
      BY <2>0, <2>5, <3>1, <1>b, <1>d, ScriptParts, Zenon
  <2> QED
    BY <2>1, <2>3, <2>4, <2>5
<1> QED
  BY <1>1, <1>2, <1>3

-----------------------------------------------------------------------------
(* Types                                                                    *)

HandlersOK == call \in [Calls -> Records] /\ Handled

ClientsOK ==
    /\ env \in Environments
    /\ cli \in [Clients -> Ends \cup {"planning", "asking", "executing", "waiting"}]
    /\ yes \in [Clients -> BOOLEAN]
    /\ plan \in [Clients -> Seq(Actions)]
    /\ printed \in [Clients -> [Actions -> Results]]
    /\ history \subseteq Clients \X Actions \X Outcomes
    /\ unrecorded \subseteq Clients \X Actions \X Outcomes
    /\ \A c \in Clients : cli[c] = "waiting" => plan[c] # <<>>

Typed == HandlersOK /\ ClientsOK

LEMMA TypedIsTypeOK == Typed => TypeOK
<1> SUFFICES ASSUME Typed PROVE TypeOK
  OBVIOUS
<1>1. ASSUME NEW h \in Calls PROVE RunsCommand(h) <=> call[h].todo # <<>>
  <2>1. call[h] \in Records /\ HandlerOK(h, call[h])
    BY DEF Typed, HandlersOK, Handled
  <2>2. call[h].phase \in {"probe", "execute", "verify"} <=> call[h].todo # <<>>
    BY <2>1, ScriptsTyped, Zenon
  <2> QED
    BY <2>2 DEF RunsCommand
<1>2. call \in [Calls -> [phase : Phases, todo : Seq({"list", "boot", "shutdown"}),
                           named : BOOLEAN, wsl : Findings,
                           ctx : {"open", "cut", "done"}, confirmed : BOOLEAN, result : Results]]
  BY DEF Typed, HandlersOK, Records, Commands, Contexts
<1> QED
  BY <1>1, <1>2 DEF Typed, ClientsOK, TypeOK

\* A step of call h that leaves it in order leaves all calls in order.
LEMMA OneHandler ==
    ASSUME HandlersOK, NEW h \in Calls, NEW q \in Records, HandlerOK(h, q),
           call' = [call EXCEPT ![h] = q]
    PROVE  HandlersOK'
BY DEF HandlersOK, Handled

\* A call that has ended, and one that begins, are in order.
LEMMA NoCallOK ==
    ASSUME NEW h \in Calls
    PROVE  NoCall \in Records /\ HandlerOK(h, NoCall)
<1>1. NoCall \in Records
  BY ScriptParts DEF NoCall, Records, Phases, Findings, Contexts, Results
<1>2. HandlerOK(h, NoCall)
  BY DEF NoCall, HandlerOK, Scripts
<1> QED
  BY <1>1, <1>2

Begun(confirmed) == [NoCall EXCEPT !.phase = "probe", !.todo = Probe,
                                   !.ctx = "open", !.confirmed = confirmed]

LEMMA BeginOK ==
    ASSUME NEW h \in Calls, NEW confirmed \in BOOLEAN
    PROVE  LET q == Begun(confirmed) IN
           /\ q \in Records /\ HandlerOK(h, q)
           /\ q.phase = "probe" /\ q.ctx = "open" /\ q.result = "unrun"
           /\ q.confirmed = confirmed
<1> DEFINE q == Begun(confirmed)
<1>0. NoCall \in Records /\ NoCall.result = "unrun"
  BY NoCallOK DEF NoCall
<1>1. q \in Records
  BY <1>0, ScriptParts DEF Begun, Probe, Records, Phases, Contexts
<1>2. /\ q.phase = "probe" /\ q.todo = <<"list", "boot">> /\ q.ctx = "open" /\ q.result = "unrun"
      /\ q.confirmed = confirmed
  BY <1>0 DEF Begun, Probe, Records
<1> HIDE DEF q
<1>3. HandlerOK(h, q)
  BY <1>2 DEF HandlerOK, Scripts
<1> QED
  BY <1>1, <1>2, <1>3 DEF q

\* A command ends: what is known of the call, and of WSL, after it.
LEMMA CommandEnds ==
    ASSUME Typed, NEW h \in Calls, Command(h) \/ Killed(h)
    PROVE  /\ HandlersOK' /\ env' \in Environments
           /\ call'[h].phase # "reply" /\ call'[h].confirmed = call[h].confirmed
           /\ call[h].ctx = "open" => call'[h].ctx = "open"
           /\ \A g \in Calls \ {h} : call'[g] = call[g]
           /\ (call'[h].result = "ok" /\ call[h].result # "ok") => env' = "running"
<1> DEFINE r == call[h]
<1>1. r \in Records /\ HandlerOK(h, r) /\ r.phase \in {"probe", "execute", "verify"}
      /\ env \in Environments /\ r.named \in BOOLEAN
  BY DEF Typed, HandlersOK, Handled, ClientsOK, Command, Killed, RunsCommand, Records
<1>2. r.todo # <<>> /\ Head(r.todo) \in Commands
  BY <1>1, ScriptsTyped
<1>3. r.ctx \in Contexts /\ Ended(r.ctx) \in Contexts /\ (r.ctx = "open" => Ended(r.ctx) = "open")
  BY <1>1 DEF Ended, Records, Contexts
<1>4. ASSUME NEW ok \in BOOLEAN,
             call' = [call EXCEPT ![h] = [After(r, ok, env) EXCEPT !.ctx = Ended(r.ctx)]],
             (ok /\ Head(r.todo) = "boot") => env' = "running"
      PROVE  /\ HandlersOK'
             /\ call'[h].phase # "reply" /\ call'[h].confirmed = call[h].confirmed
             /\ call[h].ctx = "open" => call'[h].ctx = "open"
             /\ \A g \in Calls \ {h} : call'[g] = call[g]
             /\ (call'[h].result = "ok" /\ call[h].result # "ok") => env' = "running"
  <2> DEFINE a == After(r, ok, env)
             q == InContext(a, Ended(r.ctx))
  <2>1. /\ a \in Records /\ HandlerOK(h, a) /\ a.ctx = r.ctx /\ a.phase # "reply"
        /\ a.confirmed = r.confirmed
        /\ (a.result = "ok" /\ r.result # "ok") => (ok /\ Head(r.todo) = "boot")
    BY <1>1, AfterOK
  <2>2. /\ q \in Records /\ HandlerOK(h, q)
        /\ q.phase = a.phase /\ q.result = a.result /\ q.ctx = Ended(r.ctx)
        /\ q.confirmed = a.confirmed
    BY <1>3, <2>1, HandlerIsCut
  <2>3. call' = [call EXCEPT ![h] = q]
    BY <1>4 DEF InContext
  <2> HIDE DEF a, q, r
  <2>4. HandlersOK'
    BY <2>2, <2>3, OneHandler DEF Typed
  <2>5. call'[h] = q /\ \A g \in Calls \ {h} : call'[g] = call[g]
    BY <2>3 DEF Typed, HandlersOK
  <2> QED
    BY <1>3, <1>4, <2>1, <2>2, <2>4, <2>5 DEF r
<1>5. CASE Command(h)
  <2>1. PICK out \in Wsl(Head(call[h].todo), call[h].named, env) :
          /\ env' = out[2]
          /\ call' = [call EXCEPT ![h] = [After(r, out[1], env) EXCEPT !.ctx = Ended(r.ctx)]]
    BY <1>5 DEF Command
  <2>2. /\ out[1] \in BOOLEAN /\ out[2] \in Environments
        /\ (Head(r.todo) = "boot" /\ out[1]) => out[2] = "running"
    BY <1>1, <1>2, WslTyped
  <2> QED
    BY <1>4, <2>1, <2>2
<1>6. CASE Killed(h)
  <2>1. call' = [call EXCEPT ![h] = [After(r, FALSE, env) EXCEPT !.ctx = Ended(r.ctx)]]
    BY <1>6 DEF Killed
  <2>2. env' \in Environments
    <3>1. CASE env' = env
      BY <1>1, <3>1
    <3>2. CASE \E out \in Wsl(Head(call[h].todo), call[h].named, env) : env' = out[2]
      BY <1>1, <1>2, <3>2, WslTyped
    <3> QED
      BY <1>6, <3>1, <3>2 DEF Killed
  <2> QED
    BY <1>4, <2>1, <2>2
<1> QED
  BY <1>5, <1>6

\* What a step of the handler of call h may do.
HandlerMoves(h) ==
    /\ call[h].ctx = "open" => call'[h].ctx = "open"
    /\ \A g \in Calls \ {h} : call'[g] = call[g]
    /\ call'[h].confirmed => call[h].confirmed
    /\ history \subseteq history' /\ unrecorded \subseteq unrecorded'
    /\ (call'[h].phase = "reply" /\ call'[h].ctx = "open" /\ call'[h].result \in Outcomes)
           => <<h[1], h[2], call'[h].result>> \in history' \cup unrecorded'
    /\ (call'[h].result = "ok" /\ call[h].result # "ok") => env' = "running"
    /\ UNCHANGED <<cli, yes, plan, printed>>

Turned(r, phase, todo, result) ==
    [r EXCEPT !.phase = phase, !.todo = todo, !.result = result]

\* A handler that has decided is in order, and has no outcome yet to tell.
LEMMA DecisionOK ==
    ASSUME Typed, NEW h \in Calls, NEW phase \in {"reply", "conclude", "execute"},
           NEW todo \in Seq(Commands), todo \in Scripts(phase, h[2]), NEW result \in Results,
           phase \in {"execute", "conclude"} => h[2] \in Actions,
           (phase = "execute" /\ RequiresConfirmation(h[2])) => call[h].confirmed,
           phase = "conclude" => result \in Outcomes,
           phase = "reply" => result \notin Outcomes,
           result # "ok",
           call' = [call EXCEPT ![h] = Turned(call[h], phase, todo, result)],
           UNCHANGED <<env, cli, yes, plan, printed, history, unrecorded>>
    PROVE  Typed' /\ HandlerMoves(h)
<1> DEFINE q == Turned(call[h], phase, todo, result)
<1>0. call[h] \in Records /\ call \in [Calls -> Records]
  BY DEF Typed, HandlersOK
<1>1. q \in Records
  BY <1>0 DEF Turned, Records, Phases
<1>2. /\ q.phase = phase /\ q.todo = todo /\ q.result = result
      /\ q.ctx = call[h].ctx /\ q.confirmed = call[h].confirmed
  BY <1>0 DEF Turned, Records
<1>3. call' = [call EXCEPT ![h] = q]
  OBVIOUS
<1> HIDE DEF q
<1>4. HandlerOK(h, q)
  BY <1>2 DEF HandlerOK
<1>5. HandlersOK'
  BY <1>1, <1>3, <1>4, OneHandler DEF Typed
<1>6. call'[h] = q /\ \A g \in Calls \ {h} : call'[g] = call[g]
  BY <1>0, <1>3
<1>7. ClientsOK'
  BY DEF Typed, ClientsOK
<1> QED
  BY <1>2, <1>5, <1>6, <1>7 DEF Typed, HandlerMoves

LEMMA HandlerStep ==
    ASSUME Typed, NEW h \in Calls, Handler(h)
    PROVE  Typed' /\ HandlerMoves(h)
<1>0. call[h] \in Records /\ HandlerOK(h, call[h]) /\ call \in [Calls -> Records]
  BY DEF Typed, HandlersOK, Handled
<1>1. CASE Command(h) \/ Killed(h)
  <2>1. /\ HandlersOK' /\ env' \in Environments
        /\ call'[h].phase # "reply" /\ call'[h].confirmed = call[h].confirmed
        /\ call[h].ctx = "open" => call'[h].ctx = "open"
        /\ \A g \in Calls \ {h} : call'[g] = call[g]
        /\ (call'[h].result = "ok" /\ call[h].result # "ok") => env' = "running"
    BY <1>1, CommandEnds
  <2>2. UNCHANGED <<cli, yes, plan, printed, history, unrecorded>>
    BY <1>1 DEF Command, Killed
  <2>3. ClientsOK'
    BY <2>1, <2>2 DEF Typed, ClientsOK
  <2> QED
    BY <2>1, <2>2, <2>3 DEF Typed, HandlerMoves
<1>2. CASE Decide(h)
  <2> DEFINE Goes(phase, todo, result) ==
               call' = [call EXCEPT ![h] = Turned(call[h], phase, todo, result)]
  <2>1. \/ Goes("reply", <<>>, "unrun")
        \/ Goes("reply", <<>>, "refused")
        \/ h[2] # "plan" /\ Goes("conclude", <<>>, "not applicable")
        \/ /\ h[2] # "plan" /\ ~(RequiresConfirmation(h[2]) /\ ~call[h].confirmed)
           /\ Goes("execute", Execution(h[2]), "unrun")
    BY <1>0, <1>2 DEF Decide, Turned
  <2>2. UNCHANGED <<env, cli, yes, plan, printed, history, unrecorded>>
    BY <1>2 DEF Decide
  <2>3. h[2] # "plan" => h[2] \in Actions
    BY DEF Calls
  <2>4. /\ <<>> \in Scripts("reply", h[2]) /\ <<>> \in Scripts("conclude", h[2])
        /\ {"unrun", "refused", "not applicable"} \subseteq Results
        /\ {"unrun", "refused"} \cap Outcomes = {} /\ "not applicable" \in Outcomes
    BY DEF Scripts, Results, Outcomes
  <2>5. CASE Goes("reply", <<>>, "unrun")
    BY <2>2, <2>4, <2>5, DecisionOK, ScriptParts
  <2>6. CASE Goes("reply", <<>>, "refused")
    BY <2>2, <2>4, <2>6, DecisionOK, ScriptParts
  <2>7. CASE h[2] # "plan" /\ Goes("conclude", <<>>, "not applicable")
    BY <2>2, <2>3, <2>4, <2>7, DecisionOK, ScriptParts
  <2>8. CASE /\ h[2] # "plan" /\ ~(RequiresConfirmation(h[2]) /\ ~call[h].confirmed)
             /\ Goes("execute", Execution(h[2]), "unrun")
    <3>1. Execution(h[2]) \in Scripts("execute", h[2]) /\ Execution(h[2]) \in Seq(Commands)
      BY <2>3, <2>8, ScriptParts DEF Scripts, Execution, Actions
    <3> QED
      BY <2>2, <2>3, <2>4, <2>8, <3>1, DecisionOK
  <2> QED
    BY <2>1, <2>5, <2>6, <2>7, <2>8
<1>3. CASE Conclude(h)
  <2> DEFINE q == [call[h] EXCEPT !.phase = "reply"]
  <2>1. call' = [call EXCEPT ![h] = q] /\ call[h].phase = "conclude"
    BY <1>0, <1>3 DEF Conclude
  <2>2. q \in Records
    BY <1>0 DEF Records, Phases
  <2>3. /\ q.phase = "reply" /\ q.todo = call[h].todo
        /\ q.result = call[h].result /\ q.ctx = call[h].ctx /\ q.confirmed = call[h].confirmed
    BY <1>0 DEF Records
  <2> HIDE DEF q
  <2>4. HandlerOK(h, q)
    BY <1>0, <2>1, <2>3 DEF HandlerOK, Scripts
  <2>5. HandlersOK'
    BY <2>1, <2>2, <2>4, OneHandler DEF Typed
  <2>6. call'[h] = q /\ \A g \in Calls \ {h} : call'[g] = call[g]
    BY <1>0, <2>1
  <2>7. h[1] \in Clients /\ h[2] \in Actions /\ call[h].result \in Outcomes
    BY <1>0, <2>1 DEF HandlerOK, Calls
  <2>8. /\ history \subseteq history' /\ unrecorded \subseteq unrecorded'
        /\ history' \subseteq Clients \X Actions \X Outcomes
        /\ unrecorded' \subseteq Clients \X Actions \X Outcomes
        /\ call[h].ctx = "open" => <<h[1], h[2], call[h].result>> \in history' \cup unrecorded'
    BY <1>3, <2>7 DEF Conclude, Row, Typed, ClientsOK
  <2>9. ClientsOK'
    BY <1>3, <2>8 DEF Conclude, Typed, ClientsOK
  <2>10. UNCHANGED <<cli, yes, plan, printed>>
    BY <1>3 DEF Conclude
  <2> QED
    BY <2>3, <2>5, <2>6, <2>8, <2>9, <2>10 DEF Typed, HandlerMoves
<1>4. CASE Discard(h)
  <2>1. call' = [call EXCEPT ![h] = NoCall] /\ call[h].ctx # "open"
    BY <1>4 DEF Discard
  <2>2. HandlersOK'
    BY <2>1, NoCallOK, OneHandler DEF Typed
  <2>3. call'[h] = NoCall /\ \A g \in Calls \ {h} : call'[g] = call[g]
    BY <1>0, <2>1
  <2>4. NoCall.phase # "reply" /\ NoCall.result # "ok" /\ ~NoCall.confirmed
    BY DEF NoCall
  <2>5. UNCHANGED <<env, cli, yes, plan, printed, history, unrecorded>>
    BY <1>4 DEF Discard
  <2>6. ClientsOK'
    BY <2>5 DEF Typed, ClientsOK
  <2> QED
    BY <2>1, <2>2, <2>3, <2>4, <2>5, <2>6 DEF Typed, HandlerMoves
<1> QED
  BY <1>1, <1>2, <1>3, <1>4 DEF Handler

\* What a step of client c may do to the calls.
ClientMoves(c) ==
    /\ \A h \in Calls : h[1] # c => call'[h] = call[h]
    /\ \A h \in Calls : (call'[h].phase = "reply" /\ call'[h].ctx = "open")
                            => call'[h] = call[h]
    /\ \A h \in Calls : call'[h].result = "ok" => call[h].result = "ok"
    /\ \A h \in Calls : call'[h].confirmed => call[h].confirmed \/ (h[1] = c /\ yes[c])

\* A client makes of one of its calls what it likes, short of a reply.
LEMMA ClientCalls ==
    ASSUME Typed, NEW c \in Clients, NEW h \in Calls, h[1] = c,
           NEW q \in Records, HandlerOK(h, q), call' = [call EXCEPT ![h] = q],
           ~(q.phase = "reply" /\ q.ctx = "open"),
           q.confirmed => call[h].confirmed \/ yes[c],
           q.result = "ok" => call[h].result = "ok"
    PROVE  HandlersOK' /\ ClientMoves(c)
<1>1. HandlersOK'
  BY OneHandler DEF Typed
<1>2. call'[h] = q /\ \A g \in Calls \ {h} : call'[g] = call[g]
  BY DEF Typed, HandlersOK
<1> QED
  BY <1>1, <1>2 DEF ClientMoves

LEMMA NoCallKeeps ==
    ASSUME Typed, NEW c \in Clients, UNCHANGED call
    PROVE  HandlersOK' /\ ClientMoves(c)
BY DEF Typed, HandlersOK, Handled, ClientMoves

\* Its calls begin, are cut short and are forgotten.
LEMMA ClientBegins ==
    ASSUME Typed, NEW c \in Clients, NEW h \in Calls, h[1] = c, NEW confirmed \in BOOLEAN,
           call' = Begin(h, confirmed), confirmed => yes[c]
    PROVE  /\ HandlersOK' /\ ClientMoves(c)
           /\ call'[h].ctx = "open"
           /\ \A g \in Calls : call'[g].confirmed <=> IF g = h THEN confirmed ELSE call[g].confirmed
<1>1. call' = [call EXCEPT ![h] = Begun(confirmed)]
  BY DEF Begin, Begun
<1>2. /\ Begun(confirmed) \in Records /\ HandlerOK(h, Begun(confirmed))
      /\ Begun(confirmed).phase = "probe" /\ Begun(confirmed).ctx = "open"
      /\ Begun(confirmed).result = "unrun" /\ (Begun(confirmed).confirmed <=> confirmed)
  BY BeginOK
<1>3. HandlersOK' /\ ClientMoves(c)
  BY <1>1, <1>2, ClientCalls
<1> QED
  BY <1>1, <1>2, <1>3 DEF Typed, HandlersOK

LEMMA ClientForgets ==
    ASSUME Typed, NEW c \in Clients, NEW h \in Calls, h[1] = c, call' = Set(call, h, NoCall)
    PROVE  HandlersOK' /\ ClientMoves(c)
<1>1. call' = [call EXCEPT ![h] = NoCall]
  BY DEF Set
<1>2. NoCall.phase # "reply" /\ NoCall.result # "ok" /\ ~NoCall.confirmed
  BY DEF NoCall
<1> QED
  BY <1>1, <1>2, NoCallOK, ClientCalls

LEMMA ClientCancels ==
    ASSUME Typed, NEW c \in Clients, NEW h \in Calls, h[1] = c, call' = Cancel(h)
    PROVE  HandlersOK' /\ ClientMoves(c)
<1>1. call[h] \in Records /\ HandlerOK(h, call[h]) /\ call \in [Calls -> Records]
  BY DEF Typed, HandlersOK, Handled
<1>2. PICK x \in {"cut", "done"} : call' = [call EXCEPT ![h].ctx = x]
  BY DEF Cancel
<1> DEFINE q == InContext(call[h], x)
<1>3. call' = [call EXCEPT ![h] = q]
  BY <1>1, <1>2 DEF InContext
<1>4. /\ q \in Records /\ HandlerOK(h, q) /\ q.ctx = x /\ q.result = call[h].result
      /\ q.confirmed = call[h].confirmed
  BY <1>1, HandlerIsCut DEF Contexts
<1> HIDE DEF q
<1> QED
  BY <1>3, <1>4, ClientCalls

\* The plan is a sequence of actions.
LEMMA PlanTyped ==
    ASSUME NEW w
    PROVE  Plan(w) \in Seq(Actions)
<1>1. <<>> \in Seq(Actions) /\ <<"wsl.start">> \in Seq(Actions) /\ <<"wsl.restart">> \in Seq(Actions)
  BY DEF Actions
<1>2. Offer("wsl.start", w) \in Seq(Actions)
  BY <1>1 DEF Offer
<1>3. Offer("wsl.restart", w) \in Seq(Actions)
  BY <1>1 DEF Offer
<1> QED
  BY <1>2, <1>3 DEF Plan

LEMMA ClientStep ==
    ASSUME Typed, NEW c \in Clients, Run(c) \/ Answer(c) \/ Client(c)
    PROVE  Typed' /\ ClientMoves(c)
<1>0. /\ <<c, "plan">> \in Calls
      /\ \A a \in Actions : <<c, a>> \in Calls
      /\ plan[c] # <<>> => /\ Head(plan[c]) \in Actions
                           /\ Tail(plan[c]) \in Seq(Actions)
      /\ cli[c] = "waiting" => plan[c] # <<>>
      /\ yes[c] \in BOOLEAN
  BY DEF Calls, Typed, ClientsOK
<1>1. CASE Run(c)
  <2>1. HandlersOK' /\ ClientMoves(c)
    BY <1>0, <1>1, ClientBegins DEF Run
  <2>2. printed' \in [Clients -> [Actions -> Results]]
    BY <1>1 DEF Run, Set, Typed, ClientsOK, Results
  <2>3. /\ history' \subseteq Clients \X Actions \X Outcomes
        /\ unrecorded' \subseteq Clients \X Actions \X Outcomes
    BY <1>1 DEF Run, Typed, ClientsOK
  <2>4. ClientsOK'
    BY <1>1, <2>2, <2>3 DEF Run, Set, Typed, ClientsOK
  <2> QED
    BY <2>1, <2>4 DEF Typed
<1>2. CASE Planned(c)
  <2>1. HandlersOK' /\ ClientMoves(c)
    BY <1>0, <1>2, ClientForgets DEF Planned
  <2>2. plan' \in [Clients -> Seq(Actions)]
    BY <1>2, PlanTyped DEF Planned, Set, Typed, ClientsOK
  <2>3. /\ cli' \in [Clients -> Ends \cup {"planning", "asking", "executing", "waiting"}]
        /\ cli'[c] # "waiting" /\ \A d \in Clients \ {c} : cli'[d] = cli[d] /\ plan'[d] = plan[d]
    BY <1>2 DEF Planned, Set, Typed, ClientsOK, Ends
  <2>4. ClientsOK'
    BY <1>2, <2>2, <2>3 DEF Planned, Typed, ClientsOK
  <2> QED
    BY <2>1, <2>4 DEF Typed
<1>3. CASE GiveUpPlan(c)
  <2>1. HandlersOK' /\ ClientMoves(c)
    BY <1>0, <1>3, ClientCancels DEF GiveUpPlan
  <2>2. ClientsOK'
    BY <1>3 DEF GiveUpPlan, Set, Typed, ClientsOK, Ends
  <2> QED
    BY <2>1, <2>2 DEF Typed
<1>4. CASE Answer(c)
  <2>1. HandlersOK' /\ ClientMoves(c)
    BY <1>4, NoCallKeeps DEF Answer
  <2>2. plan' \in [Clients -> Seq(Actions)]
    <3>1. <<>> \in Seq(Actions)
      OBVIOUS
    <3>2. plan' = plan \/ plan' = [plan EXCEPT ![c] = <<>>]
      BY <1>4 DEF Answer, Set
    <3> QED
      BY <3>1, <3>2 DEF Typed, ClientsOK
  <2>3. /\ cli' \in [Clients -> Ends \cup {"planning", "asking", "executing", "waiting"}]
        /\ cli'[c] # "waiting" /\ \A d \in Clients \ {c} : cli'[d] = cli[d] /\ plan'[d] = plan[d]
    BY <1>4 DEF Answer, Set, Typed, ClientsOK, Ends
  <2>4. ClientsOK'
    BY <1>4, <2>2, <2>3 DEF Answer, Typed, ClientsOK
  <2> QED
    BY <2>1, <2>4 DEF Typed
<1>5. CASE Send(c)
  <2>1. HandlersOK' /\ ClientMoves(c)
    BY <1>0, <1>5, ClientBegins DEF Send
  <2>2. ClientsOK'
    BY <1>5 DEF Send, Set, Typed, ClientsOK
  <2> QED
    BY <2>1, <2>2 DEF Typed
<1>6. ASSUME NEW result \in Results, Report(c, result), cli[c] = "waiting",
             UNCHANGED <<env, yes, history, unrecorded>>
      PROVE  ClientsOK'
  <2>1. printed' \in [Clients -> [Actions -> Results]]
    BY <1>0, <1>6 DEF Report, Typed, ClientsOK
  <2>2. plan' \in [Clients -> Seq(Actions)]
    BY <1>0, <1>6 DEF Report, Set, Typed, ClientsOK
  <2>3. /\ cli' \in [Clients -> Ends \cup {"planning", "asking", "executing", "waiting"}]
        /\ cli'[c] # "waiting" /\ \A d \in Clients \ {c} : cli'[d] = cli[d] /\ plan'[d] = plan[d]
    BY <1>6 DEF Report, Set, Typed, ClientsOK
  <2> QED
    BY <1>6, <2>1, <2>2, <2>3 DEF Typed, ClientsOK
<1>7. CASE Replied(c)
  <2> DEFINE h == <<c, Head(plan[c])>>
  <2>1. h \in Calls /\ h[1] = c /\ call[h].result \in Results
    BY <1>0, <1>7 DEF Replied, Typed, HandlersOK, Records
  <2>2. HandlersOK' /\ ClientMoves(c)
    BY <1>7, <2>1, ClientForgets DEF Replied
  <2>3. ClientsOK'
    BY <1>6, <1>7, <2>1 DEF Replied
  <2> QED
    BY <2>2, <2>3 DEF Typed
<1>8. CASE GiveUp(c)
  <2> DEFINE h == <<c, Head(plan[c])>>
  <2>1. h \in Calls /\ h[1] = c
    BY <1>0, <1>8 DEF GiveUp
  <2>2. HandlersOK' /\ ClientMoves(c)
    BY <1>8, <2>1, ClientCancels DEF GiveUp
  <2>3. ClientsOK'
    BY <1>6, <1>8 DEF GiveUp, Results
  <2> QED
    BY <2>2, <2>3 DEF Typed
<1>9. CASE Finish(c)
  <2>1. HandlersOK' /\ ClientMoves(c)
    BY <1>9, NoCallKeeps DEF Finish
  <2>2. ClientsOK'
    BY <1>9 DEF Finish, Set, Typed, ClientsOK, Ends
  <2> QED
    BY <2>1, <2>2 DEF Typed
<1> QED
  BY <1>1, <1>2, <1>3, <1>4, <1>5, <1>7, <1>8, <1>9 DEF Client

LEMMA Invariance == Spec => []Typed
<1>1. Init => Typed
  <2> SUFFICES ASSUME Init PROVE Typed
    OBVIOUS
  <2>1. call \in [Calls -> Records] /\ Handled
    BY NoCallOK DEF Init, Handled
  <2>2. plan \in [Clients -> Seq(Actions)]
    BY DEF Init
  <2>3. printed \in [Clients -> [Actions -> Results]]
    BY DEF Init, Results
  <2> QED
    BY <2>1, <2>2, <2>3 DEF Init, Typed, HandlersOK, ClientsOK, Ends
<1>2. Typed /\ [Next]_vars => Typed'
  <2> SUFFICES ASSUME Typed, [Next]_vars PROVE Typed'
    OBVIOUS
  <2>1. CASE \E h \in Calls : Handler(h)
    BY <2>1, HandlerStep
  <2>2. CASE \E c \in Clients : Run(c) \/ Answer(c) \/ Client(c)
    BY <2>2, ClientStep
  <2>3. CASE Drift
    BY <2>3 DEF Drift, Typed, HandlersOK, Handled, ClientsOK
  <2>4. CASE UNCHANGED vars
    BY <2>4 DEF vars, Typed, HandlersOK, Handled, ClientsOK
  <2> QED
    BY <2>1, <2>2, <2>3, <2>4 DEF Next
<1> QED
  BY <1>1, <1>2, PTL DEF Spec

\* Every reachable state is type-correct, and a handler has commands left
\* exactly while it runs commands.
THEOREM TypeCorrect == Spec => []TypeOK
BY Invariance, TypedIsTypeOK, PTL

-----------------------------------------------------------------------------
(* What a repair may do                                                     *)

\* A call that is confirmed is that of a client run with --yes: the flag changes
\* only when a new run begins, and by then all calls of the last have returned.
Flagged == \A h \in Calls : call[h].confirmed => yes[h[1]]

LEMMA FlaggedInvariance == Spec => []Flagged
<1>1. Init => Flagged
  <2>1. ~NoCall.confirmed
    BY DEF NoCall
  <2> QED
    BY <2>1 DEF Init, Flagged
<1>2. Typed /\ Flagged /\ [Next]_vars => Flagged'
  <2> SUFFICES ASSUME Typed, Flagged, [Next]_vars PROVE Flagged'
    OBVIOUS
  <2>1. ASSUME NEW h \in Calls, Handler(h) PROVE Flagged'
    BY <2>1, HandlerStep DEF HandlerMoves, Flagged
  <2>2. ASSUME NEW c \in Clients, Run(c) PROVE Flagged'
    <3> SUFFICES ASSUME NEW h \in Calls, call'[h].confirmed PROVE yes'[h[1]]
      BY DEF Flagged
    <3>1. ~NoCall.confirmed
      BY DEF NoCall
    <3>2. call[h].confirmed /\ h # <<c, "plan">>
      <4>1. <<c, "plan">> \in Calls /\ <<c, "plan">>[1] = c
        BY DEF Calls
      <4>2. call' = Begin(<<c, "plan">>, FALSE)
        BY <2>2 DEF Run
      <4> QED
        BY <4>1, <4>2, ClientBegins
    <3>3. h[1] # c
      BY <2>2, <3>1, <3>2 DEF Run
    <3>4. h[1] \in Clients /\ yes'[h[1]] = yes[h[1]]
      BY <2>2, <3>3 DEF Run, Set, Calls, Typed, ClientsOK
    <3> QED
      BY <3>2, <3>4 DEF Flagged
  <2>3. ASSUME NEW c \in Clients, Answer(c) \/ Client(c) PROVE Flagged'
    <3>1. ClientMoves(c)
      BY <2>3, ClientStep
    <3>2. yes' = yes
      BY <2>3 DEF Answer, Client, Planned, GiveUpPlan, Send, Replied, GiveUp, Finish
    <3> QED
      BY <3>1, <3>2 DEF ClientMoves, Flagged
  <2>4. CASE Drift
    BY <2>4 DEF Drift, Flagged
  <2>5. CASE UNCHANGED vars
    BY <2>5 DEF vars, Flagged
  <2> QED
    BY <2>1, <2>2, <2>3, <2>4, <2>5 DEF Next
<1> QED
  BY <1>1, <1>2, Invariance, PTL DEF Spec

\* WSL is shut down only for a call that carries the confirmation of a client
\* run with --yes, however many repairs run and whatever becomes of their
\* clients.
THEOREM DestructiveIsConfirmed == Spec => ShutdownIsConfirmed
<1>1. Typed /\ Flagged => \A h \in Calls : ShutsDown(h) => call[h].confirmed /\ yes[h[1]]
  <2> SUFFICES ASSUME Typed, Flagged, NEW h \in Calls, ShutsDown(h)
               PROVE  call[h].confirmed /\ yes[h[1]]
    OBVIOUS
  <2>1. call[h] \in Records /\ HandlerOK(h, call[h])
    BY DEF Typed, HandlersOK, Handled
  <2>2. call[h].phase \in {"probe", "execute", "verify"} /\ Head(call[h].todo) = "shutdown"
    BY DEF ShutsDown, RunsCommand
  <2>3. call[h].confirmed
    BY <2>1, <2>2, ScriptsTyped
  <2> QED
    BY <2>3 DEF Flagged
<1> QED
  BY <1>1, Invariance, FlaggedInvariance, PTL DEF ShutdownIsConfirmed

\* A result becomes "ok" in a step that leaves the distribution running: the
\* boot of the verification.
THEOREM SuccessWasSeen == Spec => SuccessIsVerified
<1>1. Typed /\ [Next]_vars =>
        [\A h \in Calls :
            (call'[h].result = "ok" /\ call[h].result # "ok") => env' = "running"]_vars
  <2> SUFFICES ASSUME Typed, [Next]_vars, NEW h \in Calls, vars' # vars,
                      call'[h].result = "ok", call[h].result # "ok"
               PROVE  env' = "running"
    OBVIOUS
  <2>1. ASSUME NEW g \in Calls, Handler(g) PROVE env' = "running"
    <3>1. HandlerMoves(g)
      BY <2>1, HandlerStep
    <3>2. g = h
      BY <3>1 DEF HandlerMoves
    <3> QED
      BY <3>1, <3>2 DEF HandlerMoves
  <2>2. ASSUME NEW c \in Clients, Run(c) \/ Answer(c) \/ Client(c) PROVE env' = "running"
    BY <2>2, ClientStep DEF ClientMoves
  <2>3. CASE Drift
    BY <2>3 DEF Drift
  <2> QED
    BY <2>1, <2>2, <2>3 DEF Next
<1> QED
  BY <1>1, Invariance, PTL DEF Spec, SuccessIsVerified

\* Whatever a probe finds: doctor marks it safe to fix exactly if repair has an
\* action for it.
THEOREM SafeIsFixable == Spec => []SafeToFixIsFixable
<1>1. ASSUME NEW w \in Findings PROVE SafeToFix(w) <=> Plan(w) # <<>>
  <2> DEFINE o1 == Offer("wsl.start", w)
             o2 == Offer("wsl.restart", w)
  <2>1. o1 \in Seq(Actions)
    <3>1. <<>> \in Seq(Actions) /\ <<"wsl.start">> \in Seq(Actions)
      BY DEF Actions
    <3> QED
      BY <3>1 DEF Offer
  <2>2. CanExecute("wsl.start", w) => CanExecute("wsl.restart", w)
    BY DEF CanExecute
  <2>3. CanExecute("wsl.restart", w) <=> SafeToFix(w)
    BY DEF CanExecute, Critical, SafeToFix
  <2>4. CASE CanExecute("wsl.restart", w)
    <3>1. o2 = <<"wsl.restart">>
      BY <2>4 DEF Offer
    <3>2. Plan(w) = o1 \o <<"wsl.restart">>
      BY <3>1 DEF Plan
    <3> HIDE DEF o1, o2
    <3>3. Plan(w) # <<>>
      BY <2>1, <3>2
    <3> QED
      BY <2>3, <2>4, <3>3
  <2>5. CASE ~CanExecute("wsl.restart", w)
    <3>1. o1 = <<>> /\ o2 = <<>>
      BY <2>2, <2>5 DEF Offer
    <3>2. Plan(w) = <<>>
      BY <3>1 DEF Plan
    <3> QED
      BY <2>3, <2>5, <3>2
  <2> QED
    BY <2>4, <2>5
<1>2. Typed => SafeToFixIsFixable
  BY <1>1 DEF Typed, HandlersOK, Records, SafeToFixIsFixable
<1> QED
  BY <1>2, Invariance, PTL

-----------------------------------------------------------------------------
(* What is printed and what is recorded                                     *)

Recorded == WaitedFor /\ ToldIsRecorded /\ PrintedIsRecorded

\* A handler records before it replies, and does not lose its client by itself.
LEMMA HandlerRecords ==
    ASSUME Typed, Recorded, NEW h \in Calls, Handler(h)
    PROVE  Recorded'
<1>1. HandlerMoves(h) /\ Typed'
  BY HandlerStep
<1>2. WaitedFor'
  <2> SUFFICES ASSUME NEW c \in Clients, cli[c] = "waiting"
               PROVE  call'[<<c, Head(plan[c])>>].ctx = "open"
    BY <1>1 DEF WaitedFor, HandlerMoves
  <2>1. <<c, Head(plan[c])>> \in Calls
    BY DEF Typed, ClientsOK, Calls
  <2>2. call[<<c, Head(plan[c])>>].ctx = "open"
    BY DEF Recorded, WaitedFor
  <2> QED
    BY <1>1, <2>1, <2>2 DEF HandlerMoves
<1>3. ToldIsRecorded'
  BY <1>1 DEF Recorded, ToldIsRecorded, HandlerMoves
<1>4. PrintedIsRecorded'
  BY <1>1 DEF Recorded, PrintedIsRecorded, HandlerMoves
<1> QED
  BY <1>2, <1>3, <1>4 DEF Recorded

\* What a client prints is what its handler, whose client it still was, recorded.
LEMMA ClientRecords ==
    ASSUME Typed, Recorded, NEW c \in Clients, Run(c) \/ Answer(c) \/ Client(c)
    PROVE  Recorded'
<1>1. Typed' /\ ClientMoves(c)
  BY ClientStep
<1>2. /\ \A d \in Clients \ {c} : /\ cli'[d] = cli[d] /\ plan'[d] = plan[d]
                                  /\ printed'[d] = printed[d]
      /\ cli'[c] = "waiting" => Send(c)
  <2> USE DEF Typed, ClientsOK, Set, Ends
  <2>1. CASE Run(c)
    BY <2>1 DEF Run
  <2>2. CASE Planned(c)
    BY <2>2 DEF Planned
  <2>3. CASE GiveUpPlan(c) \/ Finish(c)
    BY <2>3 DEF GiveUpPlan, Finish
  <2>4. CASE Answer(c)
    BY <2>4 DEF Answer
  <2>5. CASE Send(c)
    BY <2>5 DEF Send
  <2>6. CASE Replied(c) \/ GiveUp(c)
    BY <2>6 DEF Replied, GiveUp, Report
  <2> QED
    BY <2>1, <2>2, <2>3, <2>4, <2>5, <2>6 DEF Client
<1>3. WaitedFor'
  <2> SUFFICES ASSUME NEW d \in Clients, cli'[d] = "waiting"
               PROVE  call'[<<d, Head(plan'[d])>>].ctx = "open"
    BY DEF WaitedFor
  <2>1. CASE d = c
    <3>1. Send(c) /\ plan' = plan
      BY <1>2, <2>1 DEF Send
    <3>2. <<c, Head(plan[c])>> \in Calls /\ yes[c] \in BOOLEAN
      BY <3>1 DEF Send, Typed, ClientsOK, Calls
    <3>3. call'[<<c, Head(plan[c])>>].ctx = "open"
      BY <3>1, <3>2, ClientBegins DEF Send
    <3> QED
      BY <2>1, <3>1, <3>3
  <2>2. CASE d # c
    <3>1. cli[d] = "waiting" /\ plan'[d] = plan[d]
      BY <1>2, <2>2
    <3>2. <<d, Head(plan[d])>> \in Calls /\ call[<<d, Head(plan[d])>>].ctx = "open"
      BY <3>1 DEF Typed, ClientsOK, Calls, Recorded, WaitedFor
    <3> QED
      BY <1>1, <2>2, <3>1, <3>2 DEF ClientMoves
  <2> QED
    BY <2>1, <2>2
<1>4. ToldIsRecorded'
  <2> SUFFICES ASSUME NEW h \in Calls, call'[h].phase = "reply", call'[h].ctx = "open",
                      call'[h].result \in Outcomes
               PROVE  <<h[1], h[2], call'[h].result>> \in history' \cup unrecorded'
    BY DEF ToldIsRecorded
  <2>1. call'[h] = call[h]
    BY <1>1 DEF ClientMoves
  <2>2. <<h[1], h[2], call[h].result>> \in history \cup unrecorded
    BY <2>1 DEF Recorded, ToldIsRecorded
  <2>3. CASE Run(c)
    <3>1. h[1] # c
      <4> SUFFICES ASSUME h[1] = c PROVE FALSE
        OBVIOUS
      <4>1. call[h] = NoCall
        BY <2>3 DEF Run
      <4> QED
        BY <2>1, <4>1 DEF NoCall
    <3> QED
      BY <2>1, <2>2, <2>3, <3>1 DEF Run
  <2>4. CASE ~Run(c)
    <3>1. history' = history /\ unrecorded' = unrecorded
      BY <2>4 DEF Answer, Client, Planned, GiveUpPlan, Send, Replied, GiveUp, Finish
    <3> QED
      BY <2>1, <2>2, <3>1
  <2> QED
    BY <2>3, <2>4
<1>5. PrintedIsRecorded'
  <2> SUFFICES ASSUME NEW d \in Clients, NEW a \in Actions, printed'[d][a] \in Outcomes
               PROVE  <<d, a, printed'[d][a]>> \in history' \cup unrecorded'
    BY DEF PrintedIsRecorded
  <2>1. printed[d][a] \in Outcomes => <<d, a, printed[d][a]>> \in history \cup unrecorded
    BY DEF Recorded, PrintedIsRecorded
  <2>2. CASE Run(c)
    <3>1. d # c
      BY <2>2 DEF Run, Set, Typed, ClientsOK, Outcomes
    <3>2. printed'[d] = printed[d]
      BY <1>2, <3>1
    <3> QED
      BY <2>1, <2>2, <3>1, <3>2 DEF Run
  <2>3. ASSUME NEW result \in Results, Report(c, result), UNCHANGED <<history, unrecorded>>,
               cli[c] = "waiting",
               result \in Outcomes => <<c, Head(plan[c]), result>> \in history \cup unrecorded
        PROVE  <<d, a, printed'[d][a]>> \in history' \cup unrecorded'
    <3>1. Head(plan[c]) \in Actions /\ printed \in [Clients -> [Actions -> Results]]
      BY <2>3 DEF Typed, ClientsOK
    <3>2. CASE d = c /\ a = Head(plan[c])
      BY <2>3, <3>1, <3>2 DEF Report
    <3>3. CASE ~(d = c /\ a = Head(plan[c]))
      <4>1. printed'[d][a] = printed[d][a]
        BY <2>3, <3>1, <3>3 DEF Report
      <4> QED
        BY <2>1, <2>3, <4>1
    <3> QED
      BY <3>2, <3>3
  <2>4. CASE Replied(c)
    <3> DEFINE h == <<c, Head(plan[c])>>
    <3>1. /\ cli[c] = "waiting" /\ call[h].phase = "reply" /\ Report(c, call[h].result)
          /\ history' = history /\ unrecorded' = unrecorded
      BY <2>4 DEF Replied
    <3>2. h \in Calls /\ call[h].result \in Results
      BY <3>1 DEF Typed, ClientsOK, HandlersOK, Records, Calls
    <3>3. call[h].ctx = "open"
      BY <3>1 DEF Recorded, WaitedFor
    <3>4. call[h].result \in Outcomes => <<h[1], h[2], call[h].result>> \in history \cup unrecorded
      BY <3>1, <3>2, <3>3 DEF Recorded, ToldIsRecorded
    <3> QED
      BY <2>3, <3>1, <3>2, <3>4
  <2>5. CASE GiveUp(c)
    <3>1. Report(c, "gave up") /\ UNCHANGED <<history, unrecorded>> /\ cli[c] = "waiting"
      BY <2>5 DEF GiveUp
    <3>2. "gave up" \in Results /\ "gave up" \notin Outcomes
      BY DEF Results, Outcomes
    <3> QED
      BY <2>3, <3>1, <3>2
  <2>6. CASE Answer(c) \/ Planned(c) \/ GiveUpPlan(c) \/ Send(c) \/ Finish(c)
    <3>1. UNCHANGED <<printed, history, unrecorded>>
      BY <2>6 DEF Answer, Planned, GiveUpPlan, Send, Finish
    <3> QED
      BY <2>1, <3>1
  <2> QED
    BY <2>2, <2>4, <2>5, <2>6 DEF Client
<1> QED
  BY <1>3, <1>4, <1>5 DEF Recorded

LEMMA RecordedInvariance == Spec => []Recorded
<1>1. Init => Recorded
  <2> SUFFICES ASSUME Init PROVE Recorded
    OBVIOUS
  <2>1. WaitedFor
    BY DEF Init, WaitedFor
  <2>2. ToldIsRecorded
    <3>1. NoCall.phase # "reply"
      BY DEF NoCall
    <3> QED
      BY <3>1 DEF Init, ToldIsRecorded
  <2>3. PrintedIsRecorded
    BY DEF Init, PrintedIsRecorded, Outcomes
  <2> QED
    BY <2>1, <2>2, <2>3 DEF Recorded
<1>2. Typed /\ Recorded /\ [Next]_vars => Recorded'
  <2> SUFFICES ASSUME Typed, Recorded, [Next]_vars PROVE Recorded'
    OBVIOUS
  <2>1. CASE \E h \in Calls : Handler(h)
    BY <2>1, HandlerRecords
  <2>2. CASE \E c \in Clients : Run(c) \/ Answer(c) \/ Client(c)
    BY <2>2, ClientRecords
  <2>3. CASE Drift
    BY <2>3 DEF Drift, Recorded, WaitedFor, ToldIsRecorded, PrintedIsRecorded
  <2>4. CASE UNCHANGED vars
    BY <2>4 DEF vars, Recorded, WaitedFor, ToldIsRecorded, PrintedIsRecorded
  <2> QED
    BY <2>1, <2>2, <2>3, <2>4 DEF Next
<1> QED
  BY <1>1, <1>2, Invariance, PTL DEF Spec

\* Every outcome a client has printed is in the history, but for those the
\* database has refused: a client that learns of an outcome had not left when
\* the handler recorded it.
THEOREM PrintedIsInHistory == Spec => []PrintedIsRecorded
<1>1. Recorded => PrintedIsRecorded
  BY DEF Recorded
<1> QED
  BY <1>1, RecordedInvariance, PTL

-----------------------------------------------------------------------------
(* One call at a time                                                       *)

\* Commands that keep to their budgets, and an environment that holds still
\* during a call.
Calm == ~Slow /\ Drifts # "always"

\* The clients take turns: the daemon has never two repairs to run at once.
Serial == \A g, h \in Calls : call[g] # NoCall /\ call[h] # NoCall => g = h

\* What a handler has found still holds in state e: a distribution that does
\* not start does not run, and its restart has not begun.
Knows(r, e) ==
    /\ r.phase = "probe" /\ r.todo = <<"boot">> => r.named
    /\ r.phase = "decide" /\ Critical(r.wsl) => e # "running"
    /\ r.phase = "execute" /\ r.todo = <<"shutdown", "list", "boot">> => e # "running"

CalmInv ==
    \A h \in Calls :
        /\ call[h] # NoCall => call[h].ctx = "open" /\ Awaited(h)
        /\ Knows(call[h], env)

\* A call that is none has found nothing.
LEMMA NobodyKnows ==
    ASSUME NEW e PROVE Knows(NoCall, e)
BY DEF Knows, NoCall

\* A command and what it shows go together.
LEMMA CommandShows ==
    ASSUME NEW h \in Calls, NEW r \in Records, HandlerOK(h, r),
           r.phase \in {"probe", "execute", "verify"},
           NEW e \in Environments, Knows(r, e),
           NEW out \in Wsl(Head(r.todo), r.named, e)
    PROVE  Knows(After(r, out[1], e), out[2])
<1> DEFINE q == After(r, out[1], e)
<1> SUFFICES Knows(q, out[2])
  OBVIOUS
<1> HIDE DEF q
<1>0. \A ok \in BOOLEAN, f \in Environments :
        out = <<ok, f>> => (out[1] = ok /\ out[2] = f)
  OBVIOUS
<1>1. CASE r.phase = "probe"
  <2>1. r.todo \in {<<"list", "boot">>, <<"boot">>}
    BY <1>1 DEF HandlerOK, Scripts
  <2>2. q = Probed(r, out[1], e)
    BY <1>1 DEF q, After
  <2>3. CASE r.todo = <<"list", "boot">>
    <3>1. out = <<e \notin {"absent", "broken"}, e>>
      BY <2>3, ScriptParts DEF Wsl
    <3>2. out[1] = (e \notin {"absent", "broken"}) /\ out[2] = e
      BY <3>1
    <3>3. CASE e = "absent"
      <4>1. q.phase = "decide" /\ q.todo = <<>>
        BY <2>2, <2>3, <3>3, ScriptParts DEF Probed, Records
      <4> QED
        BY <3>2, <3>3, <4>1 DEF Knows
    <3>4. CASE e = "broken"
      <4>1. q.phase = "decide" /\ q.todo = <<>>
        BY <2>2, <2>3, <3>2, <3>4, ScriptParts DEF Probed, Records
      <4> QED
        BY <3>2, <3>4, <4>1 DEF Knows
    <3>5. CASE e = "empty"
      <4>1. q.phase = "decide" /\ q.todo = <<>>
        BY <2>2, <2>3, <3>2, <3>5, ScriptParts DEF Probed, Records
      <4> QED
        BY <3>2, <3>5, <4>1 DEF Knows
    <3>6. CASE e \notin {"absent", "broken", "empty"}
      <4>1. q.phase = "probe" /\ q.named
        BY <1>1, <2>2, <2>3, <3>2, <3>6, ScriptParts DEF Probed, Records
      <4> QED
        BY <4>1 DEF Knows
    <3> QED
      BY <3>3, <3>4, <3>5, <3>6
  <2>4. CASE r.todo = <<"boot">>
    <3>1. r.named
      BY <1>1, <2>4 DEF Knows
    <3>2. \/ out = <<TRUE, "running">>
          \/ out = <<FALSE, e>> /\ e # "running"
      BY <2>4, <3>1, ScriptParts DEF Wsl
    <3>3. q.phase = "decide" /\ q.todo = <<>>
          /\ q.wsl = IF out[1] THEN "ready" ELSE "failed to start"
      BY <2>2, <2>4, ScriptParts DEF Probed, Records
    <3>4. CASE out = <<TRUE, "running">>
      <4>1. ~Critical(q.wsl)
        BY <3>3, <3>4 DEF Critical
      <4> QED
        BY <3>3, <4>1 DEF Knows
    <3>5. CASE out = <<FALSE, e>> /\ e # "running"
      <4>1. out[2] # "running"
        BY <3>5
      <4> QED
        BY <3>3, <4>1 DEF Knows
    <3> QED
      BY <3>2, <3>4, <3>5
  <2> QED
    BY <2>1, <2>3, <2>4
<1>2. CASE r.phase \in {"execute", "verify"}
  <2>1. /\ q.phase \notin {"probe", "decide"}
        /\ q.phase = "execute" => q.todo # <<"shutdown", "list", "boot">>
    <3>1. CASE r.phase = "execute"
      <4>1. r.todo \in {<<"shutdown", "list", "boot">>, <<"list", "boot">>, <<"boot">>}
        BY <3>1 DEF HandlerOK, Scripts
      <4>2. Tail(r.todo) # <<"shutdown", "list", "boot">>
        <5>1. Tail(<<"boot">>) = <<>> /\ Len(<<>>) = 0
          OBVIOUS
        <5>2. Tail(r.todo) \in {<<"list", "boot">>, <<"boot">>, <<>>}
          BY <4>1, <5>1, ScriptParts, Zenon
        <5>3. \A s \in {<<"list", "boot">>, <<"boot">>, <<>>} : Len(s) # 3
          BY <5>1, ScriptParts
        <5> QED
          BY <5>2, <5>3, ScriptParts
      <4>3. q = Executed(r, out[1], e)
        BY <3>1 DEF q, After
      <4>4. CASE ~out[1]
        BY <4>3, <4>4 DEF Executed, Records
      <4>5. CASE out[1] /\ Len(r.todo) = 1
        BY <4>3, <4>5 DEF Executed, Records
      <4>6. CASE out[1] /\ Len(r.todo) # 1
        <5>1. q.phase = "execute" /\ q.todo = Tail(r.todo)
          BY <3>1, <4>3, <4>6 DEF Executed, Records
        <5> QED
          BY <4>2, <5>1
      <4> QED
        BY <4>4, <4>5, <4>6
    <3>2. CASE r.phase = "verify"
      <4>1. q = Verified(r, out[1], e)
        BY <3>2 DEF q, After
      <4>2. q.phase \in {"conclude", "verify"}
        BY <3>2, <4>1 DEF Verified, Records
      <4> QED
        BY <4>2
    <3> QED
      BY <1>2, <3>1, <3>2
  <2> QED
    BY <2>1 DEF Knows
<1> QED
  BY <1>1, <1>2

\* The one handler there is moves.
LEMMA CalmMoves ==
    ASSUME Typed, CalmInv, Serial, NEW h \in Calls, call[h] # NoCall, NEW q,
           call' = [call EXCEPT ![h] = q], q.ctx = "open", Knows(q, env'),
           UNCHANGED <<cli, plan>>
    PROVE  CalmInv'
<1> SUFFICES ASSUME NEW g \in Calls
             PROVE  /\ call'[g] # NoCall => call'[g].ctx = "open" /\ Awaited(g)'
                    /\ Knows(call'[g], env')
  BY DEF CalmInv, Knows
<1>1. CASE g = h
  <2>1. call'[g] = q
    BY <1>1 DEF Typed, HandlersOK
  <2>2. Awaited(g)'
    BY <1>1 DEF CalmInv, Awaited
  <2> QED
    BY <2>1, <2>2
<1>2. CASE g # h
  <2>1. call'[g] = NoCall
    BY <1>2 DEF Typed, HandlersOK, Serial
  <2> QED
    BY <2>1, NobodyKnows
<1> QED
  BY <1>1, <1>2

\* A handler's own step keeps what it has found true.
LEMMA CalmHandler ==
    ASSUME Calm, Typed, CalmInv, Serial, NEW h \in Calls, Handler(h)
    PROVE  CalmInv'
<1>0. call[h] \in Records /\ HandlerOK(h, call[h]) /\ call \in [Calls -> Records]
      /\ env \in Environments
  BY DEF Typed, HandlersOK, Handled, ClientsOK
<1>1. call[h].phase # "none"
  BY DEF Handler, Command, Killed, Decide, Conclude, Discard, RunsCommand
<1>2. call[h] # NoCall
  BY <1>1 DEF NoCall
<1>3. call[h].ctx = "open" /\ Knows(call[h], env)
  BY <1>2 DEF CalmInv
<1>4. CASE Command(h)
  <2>1. PICK out \in Wsl(Head(call[h].todo), call[h].named, env) :
          /\ env' = out[2]
          /\ call' = [call EXCEPT ![h] = InContext(After(call[h], out[1], env), Ended(call[h].ctx))]
    BY <1>4 DEF Command, InContext
  <2>2. UNCHANGED <<cli, plan>> /\ call[h].phase \in {"probe", "execute", "verify"}
    BY <1>4 DEF Command, RunsCommand
  <2>3. out[1] \in BOOLEAN
    <3>1. Head(call[h].todo) \in Commands
      BY <1>0, <2>2, ScriptsTyped
    <3> QED
      BY <1>0, <3>1, WslTyped DEF Records
  <2> DEFINE r == After(call[h], out[1], env)
             q == InContext(r, Ended(call[h].ctx))
  <2>4. r \in Records
    BY <1>0, <2>2, <2>3, AfterOK
  <2>5. Knows(r, env')
    BY <1>0, <1>3, <2>1, <2>2, CommandShows
  <2>6. Ended(call[h].ctx) = "open"
    BY <1>3 DEF Ended
  <2>7. call' = [call EXCEPT ![h] = q]
    BY <2>1
  <2> HIDE DEF r
  <2>8. q.ctx = "open" /\ q.phase = r.phase /\ q.todo = r.todo /\ q.named = r.named /\ q.wsl = r.wsl
    BY <2>4, <2>6 DEF InContext, Records
  <2> HIDE DEF q
  <2>9. Knows(q, env')
    BY <2>5, <2>8 DEF Knows
  <2> QED
    BY <1>2, <2>2, <2>7, <2>8, <2>9, CalmMoves
<1>5. CASE Killed(h)
  BY <1>5, <1>3 DEF Killed, Calm
<1>6. CASE Decide(h)
  <2>1. call[h].phase = "decide" /\ UNCHANGED <<env, cli, plan>>
    BY <1>6 DEF Decide
  <2>2. ASSUME NEW phase \in {"reply", "conclude", "execute"}, NEW todo, NEW result,
               call' = [call EXCEPT ![h] = Turned(call[h], phase, todo, result)],
               phase = "execute" => Critical(call[h].wsl)
        PROVE  CalmInv'
    <3> DEFINE q == Turned(call[h], phase, todo, result)
    <3>1. q.ctx = "open" /\ q.phase = phase
      BY <1>0, <1>3 DEF Turned, Records
    <3>2. call' = [call EXCEPT ![h] = q]
      BY <2>2
    <3> HIDE DEF q
    <3>3. Knows(q, env')
      BY <1>3, <2>1, <2>2, <3>1 DEF Knows
    <3> QED
      BY <1>2, <2>1, <3>1, <3>2, <3>3, CalmMoves
  <2> DEFINE Goes(phase, todo, result) ==
               call' = [call EXCEPT ![h] = Turned(call[h], phase, todo, result)]
  <2>3. \/ Goes("reply", <<>>, "unrun")
        \/ Goes("reply", <<>>, "refused")
        \/ Goes("conclude", <<>>, "not applicable")
        \/ CanExecute(h[2], call[h].wsl) /\ Goes("execute", Execution(h[2]), "unrun")
    BY <1>0, <1>6 DEF Decide, Turned
  <2>4. CanExecute(h[2], call[h].wsl) => Critical(call[h].wsl)
    BY DEF CanExecute
  <2> QED
    BY <2>2, <2>3, <2>4
<1>7. CASE Conclude(h)
  <2> DEFINE q == [call[h] EXCEPT !.phase = "reply"]
  <2>1. call' = [call EXCEPT ![h] = q] /\ UNCHANGED <<env, cli, plan>>
    BY <1>7 DEF Conclude
  <2>2. q.ctx = "open" /\ q.phase = "reply"
    BY <1>0, <1>3 DEF Records
  <2> HIDE DEF q
  <2>3. Knows(q, env')
    BY <2>2 DEF Knows
  <2> QED
    BY <1>2, <2>1, <2>2, <2>3, CalmMoves
<1>8. CASE Discard(h)
  BY <1>3, <1>8 DEF Discard
<1> QED
  BY <1>4, <1>5, <1>6, <1>7, <1>8 DEF Handler

\* What a client does is nothing to the handlers of the others.
LEMMA CalmElsewhere ==
    ASSUME CalmInv, NEW c \in Clients, env' = env,
           \A d \in Clients \ {c} : cli'[d] = cli[d] /\ plan'[d] = plan[d],
           NEW g \in Calls, g[1] # c, call'[g] = call[g]
    PROVE  /\ call'[g] # NoCall => call'[g].ctx = "open" /\ Awaited(g)'
           /\ Knows(call'[g], env')
<1>1. g[1] \in Clients \ {c}
  BY DEF Calls
<1>2. Awaited(g) => Awaited(g)'
  BY <1>1 DEF Awaited
<1>3. Knows(call'[g], env')
  BY DEF CalmInv
<1> QED
  BY <1>2, <1>3 DEF CalmInv

\* A call that begins when its client has none.
LEMMA CalmBegins ==
    ASSUME Typed, CalmInv, NEW h \in Calls, NEW confirmed, env' = env,
           \A d \in Clients \ {h[1]} : cli'[d] = cli[d] /\ plan'[d] = plan[d],
           \A g \in Calls : g[1] = h[1] => call[g] = NoCall,
           call' = Begin(h, confirmed), Awaited(h)'
    PROVE  CalmInv'
<1> SUFFICES ASSUME NEW g \in Calls
             PROVE  /\ call'[g] # NoCall => call'[g].ctx = "open" /\ Awaited(g)'
                    /\ Knows(call'[g], env')
  BY DEF CalmInv, Knows
<1>1. call' = [call EXCEPT ![h] = Begun(confirmed)] /\ h[1] \in Clients
  BY DEF Begin, Begun, Calls
<1>2. CASE g = h
  <2>1. call'[g] = Begun(confirmed)
    BY <1>1, <1>2 DEF Typed, HandlersOK
  <2>2. Begun(confirmed).phase = "probe" /\ Begun(confirmed).todo = <<"list", "boot">>
        /\ Begun(confirmed).ctx = "open"
    BY DEF Begun, NoCall, Probe
  <2>3. Knows(Begun(confirmed), env')
    BY <2>2, ScriptParts DEF Knows
  <2> QED
    BY <1>2, <2>1, <2>2, <2>3
<1>3. CASE g # h
  <2>1. call'[g] = call[g]
    BY <1>1, <1>3 DEF Typed, HandlersOK
  <2>2. CASE g[1] = h[1]
    BY <2>1, <2>2, NobodyKnows
  <2>3. CASE g[1] # h[1]
    BY <1>1, <2>1, <2>3, CalmElsewhere
  <2> QED
    BY <2>2, <2>3
<1> QED
  BY <1>2, <1>3

\* A client that has no call any more.
LEMMA CalmRests ==
    ASSUME CalmInv, NEW c \in Clients, env' = env,
           \A d \in Clients \ {c} : cli'[d] = cli[d] /\ plan'[d] = plan[d],
           \A g \in Calls : call'[g] = IF g[1] = c THEN NoCall ELSE call[g]
    PROVE  CalmInv'
<1> SUFFICES ASSUME NEW g \in Calls
             PROVE  /\ call'[g] # NoCall => call'[g].ctx = "open" /\ Awaited(g)'
                    /\ Knows(call'[g], env')
  BY DEF CalmInv, Knows
<1>1. CASE g[1] = c
  BY <1>1, NobodyKnows
<1>2. CASE g[1] # c
  BY <1>2, CalmElsewhere
<1> QED
  BY <1>1, <1>2

\* A client calls only when its last call has been answered.
LEMMA CalmClient ==
    ASSUME Calm, Typed, CalmInv, NEW c \in Clients, Run(c) \/ Answer(c) \/ Client(c)
    PROVE  CalmInv'
<1>0. /\ call \in [Calls -> Records]
      /\ cli \in [Clients -> Ends \cup {"planning", "asking", "executing", "waiting"}]
      /\ plan \in [Clients -> Seq(Actions)]
      /\ <<c, "plan">> \in Calls
      /\ plan[c] # <<>> => <<c, Head(plan[c])>> \in Calls
  BY DEF Typed, HandlersOK, ClientsOK, Calls
<1>1. cli[c] \notin {"planning", "waiting"} => \A g \in Calls : g[1] = c => call[g] = NoCall
  BY DEF CalmInv, Awaited
<1>2. env' = env /\ \A d \in Clients \ {c} : cli'[d] = cli[d] /\ plan'[d] = plan[d]
  <2>1. CASE Run(c)
    BY <1>0, <2>1 DEF Run, Set
  <2>2. CASE Answer(c)
    BY <1>0, <2>2 DEF Answer, Set
  <2>3. CASE Planned(c)
    BY <1>0, <2>3 DEF Planned, Set
  <2>4. CASE Send(c) \/ Finish(c)
    BY <1>0, <2>4 DEF Send, Finish, Set
  <2>5. CASE Replied(c)
    BY <1>0, <2>5 DEF Replied, Report, Set
  <2>6. CASE GiveUpPlan(c) \/ GiveUp(c)
    BY <2>6 DEF GiveUpPlan, GiveUp, Calm
  <2> QED
    BY <2>1, <2>2, <2>3, <2>4, <2>5, <2>6 DEF Client
<1>3. CASE Run(c)
  <2>1. \A g \in Calls : g[1] = c => call[g] = NoCall
    BY <1>3 DEF Run
  <2>2. cli'[c] = "planning" /\ call' = Begin(<<c, "plan">>, FALSE)
    BY <1>0, <1>3 DEF Run, Set
  <2>3. Awaited(<<c, "plan">>)'
    BY <2>2 DEF Awaited
  <2> QED
    BY <1>0, <1>2, <2>1, <2>2, <2>3, CalmBegins
<1>4. CASE Send(c)
  <2>1. \A g \in Calls : g[1] = c => call[g] = NoCall
    BY <1>1, <1>4 DEF Send
  <2>2. /\ cli'[c] = "waiting" /\ plan' = plan /\ call' = Begin(<<c, Head(plan[c])>>, yes[c])
        /\ plan[c] # <<>>
    BY <1>0, <1>4 DEF Send, Set
  <2>3. Awaited(<<c, Head(plan[c])>>)'
    BY <2>2 DEF Awaited
  <2> QED
    BY <1>0, <1>2, <2>1, <2>2, <2>3, CalmBegins
<1>5. ASSUME NEW h \in Calls, h[1] = c, call[h].phase = "reply", call' = Set(call, h, NoCall)
      PROVE  CalmInv'
  <2>1. call[h] # NoCall
    BY <1>5 DEF NoCall
  <2>2. \A g \in Calls : g[1] = c /\ g # h => call[g] = NoCall
    <3> SUFFICES ASSUME NEW g \in Calls, g[1] = c, call[g] # NoCall PROVE g = h
      OBVIOUS
    <3>1. Awaited(g) /\ Awaited(h)
      BY <2>1 DEF CalmInv
    <3>2. g[2] = h[2]
      BY <1>5, <3>1 DEF Awaited
    <3> QED
      BY <1>5, <3>2 DEF Calls
  <2>3. \A g \in Calls : call'[g] = IF g[1] = c THEN NoCall ELSE call[g]
    BY <1>0, <1>5, <2>2 DEF Set
  <2> QED
    BY <1>2, <2>3, CalmRests
<1>6. CASE Planned(c)
  BY <1>0, <1>5, <1>6 DEF Planned
<1>7. CASE Replied(c)
  BY <1>0, <1>5, <1>7 DEF Replied, Typed, ClientsOK
<1>8. CASE Answer(c) \/ Finish(c)
  <2>1. \A g \in Calls : call'[g] = IF g[1] = c THEN NoCall ELSE call[g]
    BY <1>1, <1>8 DEF Answer, Finish
  <2> QED
    BY <1>2, <2>1, CalmRests
<1>9. CASE GiveUpPlan(c) \/ GiveUp(c)
  BY <1>9 DEF GiveUpPlan, GiveUp, Calm
<1> QED
  BY <1>3, <1>4, <1>6, <1>7, <1>8, <1>9 DEF Client

\* The environment changes only when nobody has looked at it.
LEMMA CalmDrift ==
    ASSUME Calm, Drift
    PROVE  CalmInv'
<1>1. \A h \in Calls : call'[h] = NoCall
  BY DEF Drift, Calm
<1>2. \A h \in Calls : Knows(call'[h], env')
  BY <1>1, NobodyKnows
<1> QED
  BY <1>1, <1>2 DEF CalmInv, Knows

LEMMA CalmStarts == Init => CalmInv
<1> SUFFICES ASSUME Init, NEW h \in Calls
             PROVE  call[h] = NoCall /\ Knows(call[h], env)
  BY DEF CalmInv
<1>1. call[h] = NoCall
  BY DEF Init
<1> QED
  BY <1>1, NobodyKnows

LEMMA CalmStep ==
    ASSUME Calm, Typed, CalmInv, Serial, [Next]_vars
    PROVE  CalmInv'
<1>1. CASE \E h \in Calls : Handler(h)
  BY <1>1, CalmHandler
<1>2. CASE \E c \in Clients : Run(c) \/ Answer(c) \/ Client(c)
  BY <1>2, CalmClient
<1>3. CASE Drift
  BY <1>3, CalmDrift
<1>4. CASE UNCHANGED vars
  BY <1>4 DEF vars, CalmInv, Awaited, Knows
<1> QED
  BY <1>1, <1>2, <1>3, <1>4 DEF Next

\* Who is about to shut WSL down knows that it does not run.
LEMMA CalmShutdown ==
    Typed /\ CalmInv => \A h \in Calls : ShutsDown(h) => env # "running"
<1> SUFFICES ASSUME Typed, CalmInv, NEW h \in Calls, ShutsDown(h) PROVE env # "running"
  OBVIOUS
<1>1. call[h] \in Records /\ HandlerOK(h, call[h])
  BY DEF Typed, HandlersOK, Handled
<1>2. call[h].phase \in {"probe", "execute", "verify"} /\ Head(call[h].todo) = "shutdown"
  BY DEF ShutsDown, RunsCommand
<1>3. call[h].phase = "execute" /\ call[h].todo = <<"shutdown", "list", "boot">>
  BY <1>1, <1>2, ScriptParts DEF HandlerOK, Scripts
<1> QED
  BY <1>3 DEF CalmInv, Knows

\* However many clients repair one after the other, however often, and whatever
\* changes between their calls: none has a running distribution shut down.  Two
\* at once may: Serial is what it takes.  (ExecuteRepair, Execute)
THEOREM SerialLeavesHealthyAlone ==
    ASSUME Calm
    PROVE  Spec /\ []Serial => HealthyIsNotRestarted
<1>1. Typed /\ CalmInv /\ Serial /\ [Next]_vars => CalmInv'
  BY CalmStep
<1> QED
  BY <1>1, CalmStarts, CalmShutdown, Invariance, PTL DEF Spec, HealthyIsNotRestarted

\* One client takes turns with itself: it has one call at a time, and never has
\* a running distribution shut down.  (ExecuteRepair, Execute; repair.go)
THEOREM CalmLeavesHealthyAlone ==
    ASSUME Calm, \A c, d \in Clients : c = d
    PROVE  Spec => HealthyIsNotRestarted
<1>1. CalmInv => Serial
  <2> SUFFICES ASSUME CalmInv, NEW g \in Calls, NEW h \in Calls,
                      call[g] # NoCall, call[h] # NoCall
               PROVE  g = h
    BY DEF Serial
  <2>1. Awaited(g) /\ Awaited(h)
    BY DEF CalmInv
  <2>2. g[1] \in Clients /\ h[1] \in Clients /\ g = <<g[1], g[2]>> /\ h = <<h[1], h[2]>>
    BY DEF Calls
  <2>3. g[1] = h[1]
    BY <2>2
  <2>4. g[2] = h[2]
    BY <2>1, <2>3 DEF Awaited
  <2> QED
    BY <2>2, <2>3, <2>4
<1>2. Typed /\ CalmInv /\ [Next]_vars => CalmInv'
  BY <1>1, CalmStep
<1> QED
  BY <1>2, CalmStarts, CalmShutdown, Invariance, PTL DEF Spec, HealthyIsNotRestarted

-----------------------------------------------------------------------------
(* No handler is lost                                                       *)

\* What is left of a plan, and the actions in it.
Plans  == {<<>>, <<"wsl.restart">>, <<"wsl.start", "wsl.restart">>}
Due(p) == {a \in Actions : \E i \in DOMAIN p : p[i] = a}

\* No call of c for an action in as is under way.
NothingOf(c, as) == \A a \in as : call[<<c, a>>] = NoCall

\* A client has no call out for what it has still to do; a call in an open
\* context is the one its client waits for, so one that was given up is not.
ClientTracks(c) ==
    /\ plan[c] \in Plans
    /\ cli[c] = "planning" => call[<<c, "plan">>].ctx = "open" /\ NothingOf(c, Actions)
    /\ cli[c] \in {"asking", "executing"} => NothingOf(c, Due(plan[c]))
    /\ cli[c] = "waiting" => NothingOf(c, Due(Tail(plan[c])))

CallTracked(h) ==
    /\ call[h].ctx = "open" => Awaited(h)
    /\ call[h].phase = "none" => call[h] = NoCall

Tracked ==
    /\ \A c \in Clients : ClientTracks(c)
    /\ \A h \in Calls : CallTracked(h)

LEMMA PlanParts ==
    ASSUME NEW p \in Plans
    PROVE  /\ Due(p) \subseteq Actions
           /\ p # <<>> => /\ Head(p) \in Due(p) /\ Head(p) \in Actions /\ Tail(p) \in Plans
                          /\ Due(Tail(p)) = Due(p) \ {Head(p)}
<1>1. CASE p = <<>>
  BY <1>1 DEF Due
<1>2. CASE p = <<"wsl.restart">>
  <2>1. Head(p) = "wsl.restart" /\ Tail(p) = <<>> /\ Due(p) = {"wsl.restart"} /\ Due(Tail(p)) = {}
    BY <1>2 DEF Due, Actions
  <2> QED
    BY <2>1 DEF Plans, Actions, Due
<1>3. CASE p = <<"wsl.start", "wsl.restart">>
  <2>1. Head(p) = "wsl.start" /\ Tail(p) = <<"wsl.restart">>
    BY <1>3
  <2>2. Due(p) = {"wsl.start", "wsl.restart"} /\ Due(Tail(p)) = {"wsl.restart"}
    BY <1>3, <2>1 DEF Due, Actions
  <2> QED
    BY <2>1, <2>2 DEF Plans, Actions
<1> QED
  BY <1>1, <1>2, <1>3 DEF Plans

\* Two offers make a plan.
LEMMA TwoOffers ==
    ASSUME NEW S, NEW a \in S, NEW b \in S
    PROVE  <<a>> \o <<b>> = <<a, b>>
<1> DEFINE s == <<a>> \o <<b>>  t == <<a, b>>
<1>1. <<a>> \in Seq(S) /\ <<b>> \in Seq(S) /\ t \in Seq(S)
  OBVIOUS
<1>2. s \in Seq(S) /\ Len(s) = 2
  BY <1>1
<1>3. s[1] = a /\ s[2] = b
  BY <1>1
<1>4. Len(t) = 2 /\ t[1] = a /\ t[2] = b
  OBVIOUS
<1> HIDE DEF s, t
<1>5. \A i \in 1..Len(s) : s[i] = t[i]
  <2> TAKE i \in 1..Len(s)
  <2>1. i = 1 \/ i = 2
    BY <1>2
  <2> QED
    BY <1>3, <1>4, <2>1
<1>6. s = t
  BY <1>1, <1>2, <1>4, <1>5, SeqEqual
<1> QED
  BY <1>6 DEF s, t

\* The plans the daemon makes.
LEMMA PlansMade ==
    ASSUME NEW w
    PROVE  Plan(w) \in Plans
<1>1. CASE w = "failed to start"
  <2>1. Plan(w) = <<"wsl.start">> \o <<"wsl.restart">>
    BY <1>1 DEF Plan, Offer, CanExecute, Critical
  <2>2. \A a, b \in Actions : <<a>> \o <<b>> = <<a, b>>
    BY TwoOffers
  <2>3. <<"wsl.start">> \o <<"wsl.restart">> = <<"wsl.start", "wsl.restart">>
    BY <2>2 DEF Actions
  <2> QED
    BY <2>1, <2>3 DEF Plans
<1>2. CASE w # "failed to start"
  <2>1. Plan(w) = <<>> \o (IF CanExecute("wsl.restart", w) THEN <<"wsl.restart">> ELSE <<>>)
    BY <1>2 DEF Plan, Offer, CanExecute
  <2>2. <<>> \o <<"wsl.restart">> = <<"wsl.restart">> /\ <<>> \o <<>> = <<>>
    OBVIOUS
  <2> QED
    BY <2>1, <2>2 DEF Plans
<1> QED
  BY <1>1, <1>2

\* The phases a handler may be in after each.
Onward ==
    [none |-> {"none", "probe"}, probe |-> {"probe", "decide"},
     decide |-> {"decide", "execute", "conclude", "reply"},
     execute |-> {"execute", "verify", "conclude"}, verify |-> {"verify", "conclude"},
     conclude |-> {"conclude", "reply"}, reply |-> {"reply", "none"}]

\* A handler goes through its phases until it is discarded, which takes a
\* client that has left; of what it does only a command may leave it where it is.
Going(h) == /\ call[h].phase # "none"
            /\ call'[h].phase \in Onward[call[h].phase]
            /\ call[h].ctx # "open" => call'[h].ctx # "open"
            /\ call'[h].phase = "none" => call'[h] = NoCall /\ call[h].ctx # "open"
            /\ call'[h].phase = call[h].phase => ~Proceed(h)

LEMMA HandlerGoes ==
    ASSUME Typed, NEW h \in Calls, Handler(h)
    PROVE  Going(h)
<1>0. /\ call[h] \in Records /\ HandlerOK(h, call[h]) /\ call \in [Calls -> Records]
      /\ env \in Environments
  BY DEF Typed, HandlersOK, Handled, ClientsOK
<1>1. NoCall.phase = "none" /\ NoCall.ctx = "done"
  BY DEF NoCall
<1>2. CASE Command(h) \/ Killed(h)
  <2>1. /\ call[h].phase \in {"probe", "execute", "verify"}
        /\ \E ok \in BOOLEAN :
             call' = [call EXCEPT ![h] = [After(call[h], ok, env) EXCEPT !.ctx = Ended(call[h].ctx)]]
    <3>1. CASE Command(h)
      <4>1. PICK out \in Wsl(Head(call[h].todo), call[h].named, env) :
              call' = [call EXCEPT ![h] = [After(call[h], out[1], env)
                                       EXCEPT !.ctx = Ended(call[h].ctx)]]
        BY <3>1 DEF Command
      <4>2. call[h].phase \in {"probe", "execute", "verify"}
        BY <3>1 DEF Command, RunsCommand
      <4>3. Head(call[h].todo) \in Commands /\ call[h].named \in BOOLEAN
        BY <1>0, <4>2, ScriptsTyped DEF Records
      <4>4. out[1] \in BOOLEAN
        BY <1>0, <4>3, WslTyped
      <4> QED
        BY <4>1, <4>2, <4>4
    <3>2. CASE Killed(h)
      BY <3>2 DEF Killed, RunsCommand
    <3> QED
      BY <1>2, <3>1, <3>2
  <2>2. PICK ok \in BOOLEAN :
          call' = [call EXCEPT ![h] = InContext(After(call[h], ok, env), Ended(call[h].ctx))]
    BY <2>1 DEF InContext
  <2> DEFINE a == After(call[h], ok, env)
             q == InContext(a, Ended(call[h].ctx))
  <2>3. a \in Records /\ HandlerOK(h, a) /\ a.phase # "reply"
    BY <1>0, <2>1, AfterOK
  <2>4. a.phase # "none" /\ a.phase \in Onward[call[h].phase]
    <3>1. CASE call[h].phase = "probe"
      <4>1. a = Probed(call[h], ok, env)
        BY <3>1 DEF After
      <4>2. call[h].todo \in {<<"list", "boot">>, <<"boot">>}
        BY <1>0, <3>1 DEF HandlerOK, Scripts
      <4>3. a.phase \in {"probe", "decide"}
        BY <1>0, <3>1, <4>1, <4>2, ScriptParts DEF Probed, Records
      <4> QED
        BY <3>1, <4>3 DEF Onward
    <3>2. CASE call[h].phase = "execute"
      <4>1. a = Executed(call[h], ok, env)
        BY <3>2 DEF After
      <4>2. a.phase \in {"conclude", "verify", "execute"}
        BY <1>0, <3>2, <4>1 DEF Executed, Records
      <4> QED
        BY <3>2, <4>2 DEF Onward
    <3>3. CASE call[h].phase = "verify"
      <4>1. a = Verified(call[h], ok, env)
        BY <3>3 DEF After
      <4>2. a.phase \in {"conclude", "verify"}
        BY <1>0, <3>3, <4>1 DEF Verified, Records
      <4> QED
        BY <3>3, <4>2 DEF Onward
    <3> QED
      BY <2>1, <3>1, <3>2, <3>3
  <2>5. Ended(call[h].ctx) \in Contexts /\ (call[h].ctx # "open" => Ended(call[h].ctx) # "open")
    BY <1>0 DEF Ended, Records, Contexts
  <2>6. q.phase = a.phase /\ q.ctx = Ended(call[h].ctx)
    BY <2>3, <2>5, HandlerIsCut
  <2>7. call'[h] = q
    BY <1>0, <2>2
  <2>8. call'[h].phase = call[h].phase => ~Proceed(h)
    <3> SUFFICES ASSUME Killed(h) PROVE call'[h].phase # call[h].phase
      BY <2>1 DEF Proceed, Decide, Conclude, Discard
    <3> DEFINE d == After(call[h], FALSE, env)
    <3>1. call' = [call EXCEPT ![h] = InContext(d, Ended(call[h].ctx))]
      BY DEF Killed, InContext
    <3>2. d \in Records /\ HandlerOK(h, d)
      BY <1>0, <2>1, AfterOK
    <3>3. call'[h].phase = d.phase
      <4>1. call'[h] = InContext(d, Ended(call[h].ctx))
        BY <1>0, <3>1
      <4> HIDE DEF d
      <4> QED
        BY <2>5, <3>2, <4>1, HandlerIsCut
    <3>4. d.phase # call[h].phase
      <4>1. CASE call[h].phase = "probe"
        <5>1. d = Probed(call[h], FALSE, env)
          BY <4>1 DEF After
        <5>2. call[h].todo \in {<<"list", "boot">>, <<"boot">>}
          BY <1>0, <4>1 DEF HandlerOK, Scripts
        <5> QED
          BY <1>0, <4>1, <5>1, <5>2, ScriptParts DEF Probed, Records
      <4>2. CASE call[h].phase \in {"execute", "verify"}
        BY <1>0, <4>2 DEF After, Executed, Verified, Records
      <4> QED
        BY <2>1, <4>1, <4>2
    <3> QED
      BY <3>3, <3>4
  <2> HIDE DEF a, q
  <2> QED
    BY <1>1, <2>1, <2>4, <2>5, <2>6, <2>7, <2>8 DEF Going
<1>3. CASE Decide(h)
  <2>1. call[h].phase = "decide" /\ call'[h].ctx = call[h].ctx
        /\ call'[h].phase \in {"reply", "conclude", "execute"}
    <3> DEFINE Goes(phase, todo, result) ==
                 call' = [call EXCEPT ![h] = Turned(call[h], phase, todo, result)]
    <3>1. \/ Goes("reply", <<>>, "unrun")
          \/ Goes("reply", <<>>, "refused")
          \/ Goes("conclude", <<>>, "not applicable")
          \/ Goes("execute", Execution(h[2]), "unrun")
      BY <1>0, <1>3 DEF Decide, Turned
    <3>2. PICK phase \in {"reply", "conclude", "execute"} :
            \E todo, result : Goes(phase, todo, result)
      BY <3>1
    <3>3. PICK todo, result : Goes(phase, todo, result)
      BY <3>2
    <3>4. call'[h] = Turned(call[h], phase, todo, result)
      BY <1>0, <3>3
    <3>5. Turned(call[h], phase, todo, result).phase = phase
          /\ Turned(call[h], phase, todo, result).ctx = call[h].ctx
      BY <1>0 DEF Turned, Records
    <3> QED
      BY <1>3, <3>4, <3>5 DEF Decide
  <2> QED
    BY <1>1, <2>1 DEF Going, Onward
<1>4. CASE Conclude(h)
  <2>1. call[h].phase = "conclude" /\ call'[h].ctx = call[h].ctx /\ call'[h].phase = "reply"
    BY <1>0, <1>4 DEF Conclude, Records
  <2> QED
    BY <1>1, <2>1 DEF Going, Onward
<1>5. CASE Discard(h)
  <2>1. call[h].phase = "reply" /\ call[h].ctx # "open" /\ call'[h] = NoCall
    BY <1>0, <1>5 DEF Discard
  <2> QED
    BY <1>1, <2>1 DEF Going, Onward
<1> QED
  BY <1>2, <1>3, <1>4, <1>5 DEF Handler

\* A step of a client leaves the others where they are.
LEMMA ClientAlone ==
    ASSUME Typed, NEW c \in Clients, Run(c) \/ Answer(c) \/ Client(c)
    PROVE  \A d \in Clients \ {c} : cli'[d] = cli[d] /\ plan'[d] = plan[d]
<1> USE DEF Typed, ClientsOK, Set
<1>1. CASE Run(c) \/ Planned(c)
  BY <1>1 DEF Run, Planned
<1>2. CASE GiveUpPlan(c) \/ Finish(c)
  BY <1>2 DEF GiveUpPlan, Finish
<1>3. CASE Answer(c) \/ Send(c)
  BY <1>3 DEF Answer, Send
<1>4. CASE Replied(c) \/ GiveUp(c)
  BY <1>4 DEF Replied, GiveUp, Report
<1> QED
  BY <1>1, <1>2, <1>3, <1>4 DEF Client

\* A client changes one call at most: it begins it, forgets it or cuts it short.
Begins(h)  == call'[h].ctx = "open" /\ call'[h].phase = "probe"
Forgets(h) == call'[h] = NoCall
Cuts(h)    == call'[h].ctx # "open" /\ call'[h].phase = call[h].phase
Only(h)    == \A g \in Calls \ {h} : call'[g] = call[g]

LEMMA OneCall ==
    ASSUME Typed, NEW h \in Calls
    PROVE  /\ \A confirmed \in BOOLEAN : call' = Begin(h, confirmed) => Begins(h) /\ Only(h)
           /\ call' = Set(call, h, NoCall) => Forgets(h) /\ Only(h)
           /\ call' = Cancel(h) => Cuts(h) /\ Only(h)
<1>0. call[h] \in Records /\ call \in [Calls -> Records]
  BY DEF Typed, HandlersOK
<1>1. ASSUME NEW confirmed \in BOOLEAN, call' = Begin(h, confirmed)
      PROVE  Begins(h) /\ Only(h)
  <2>1. call' = [call EXCEPT ![h] = Begun(confirmed)]
    BY <1>1 DEF Begin, Begun
  <2>2. Begun(confirmed).phase = "probe" /\ Begun(confirmed).ctx = "open"
    BY BeginOK
  <2> QED
    BY <1>0, <2>1, <2>2 DEF Begins, Only
<1>2. call' = Set(call, h, NoCall) => Forgets(h) /\ Only(h)
  BY <1>0 DEF Set, Forgets, Only
<1>3. ASSUME call' = Cancel(h) PROVE Cuts(h) /\ Only(h)
  <2>1. PICK x \in {"cut", "done"} : call' = [call EXCEPT ![h].ctx = x]
    BY <1>3 DEF Cancel
  <2>2. call'[h] = [call[h] EXCEPT !.ctx = x] /\ Only(h)
    BY <1>0, <2>1 DEF Only
  <2> QED
    BY <1>0, <2>2 DEF Cuts, Records
<1> QED
  BY <1>1, <1>2, <1>3

\* What a client does, by where it is.
ClientGoes(c) ==
    LET p == plan[c]  o == <<c, "plan">>  h == <<c, Head(p)>> IN
    \/ /\ cli[c] \in Ends /\ cli'[c] = "planning" /\ plan'[c] = p
       /\ \A g \in Calls : g[1] = c => call[g] = NoCall
       /\ Begins(o) /\ Only(o)
    \/ /\ cli[c] = "planning" /\ call[o].phase = "reply"
       /\ cli'[c] \in {"nothing to repair", "executing", "asking"} /\ plan'[c] \in Plans
       /\ Forgets(o) /\ Only(o)
    \/ /\ cli[c] = "planning" /\ cli'[c] = "no plan" /\ plan'[c] = p
       /\ Cuts(o) /\ Only(o)
    \/ /\ cli[c] = "asking" /\ UNCHANGED call
       /\ \/ cli'[c] = "executing" /\ plan'[c] = p
          \/ cli'[c] = "aborted" /\ plan'[c] = <<>>
    \/ /\ cli[c] = "executing" /\ p # <<>> /\ cli'[c] = "waiting" /\ plan'[c] = p
       /\ Begins(h) /\ Only(h)
    \/ /\ cli[c] = "waiting" /\ cli'[c] = "executing" /\ plan'[c] = Tail(p)
       /\ Only(h)
       /\ (call[h].phase = "reply" /\ Forgets(h)) \/ Cuts(h)
    \/ /\ cli[c] = "executing" /\ p = <<>> /\ cli'[c] \in {"all applied", "some failed"}
       /\ plan'[c] = p /\ UNCHANGED call

LEMMA ClientGoesOn ==
    ASSUME Typed, NEW c \in Clients, Run(c) \/ Answer(c) \/ Client(c)
    PROVE  ClientGoes(c)
<1> DEFINE o == <<c, "plan">>
           h == <<c, Head(plan[c])>>
<1>0. /\ o \in Calls /\ o[1] = c
      /\ plan[c] # <<>> => h \in Calls /\ h[1] = c
      /\ cli[c] = "waiting" => plan[c] # <<>>
      /\ yes[c] \in BOOLEAN
      /\ cli[c] \in Ends \cup {"planning", "asking", "executing", "waiting"}
      /\ DOMAIN cli = Clients /\ DOMAIN plan = Clients
  <2>1. plan[c] # <<>> => Head(plan[c]) \in Actions
    BY DEF Typed, ClientsOK
  <2> QED
    BY <2>1 DEF Typed, ClientsOK, Calls
<1> HIDE DEF o
<1>1. CASE Run(c)
  <2>1. /\ cli[c] \in Ends /\ cli'[c] = "planning" /\ plan'[c] = plan[c]
        /\ \A g \in Calls : g[1] = c => call[g] = NoCall
        /\ call' = Begin(o, FALSE)
    BY <1>0, <1>1 DEF Run, Set, Typed, ClientsOK, o
  <2>2. Begins(o) /\ Only(o)
    BY <1>0, <2>1, OneCall
  <2> QED
    BY <2>1, <2>2 DEF ClientGoes, o
<1>2. CASE Planned(c)
  <2>1. /\ cli[c] = "planning" /\ call[o].phase = "reply"
        /\ cli'[c] \in {"nothing to repair", "executing", "asking"}
        /\ plan'[c] = Plan(call[o].wsl)
        /\ call' = Set(call, o, NoCall)
    BY <1>0, <1>2 DEF Planned, Set, Typed, ClientsOK, o
  <2>2. plan'[c] \in Plans
    BY <2>1, PlansMade
  <2>3. Forgets(o) /\ Only(o)
    BY <1>0, <2>1, OneCall
  <2> QED
    BY <2>1, <2>2, <2>3 DEF ClientGoes, o
<1>3. CASE GiveUpPlan(c)
  <2>1. /\ cli[c] = "planning" /\ cli'[c] = "no plan" /\ plan'[c] = plan[c]
        /\ call' = Cancel(o)
    BY <1>0, <1>3 DEF GiveUpPlan, Set, Typed, ClientsOK, o
  <2>2. Cuts(o) /\ Only(o)
    BY <1>0, <2>1, OneCall
  <2> QED
    BY <2>1, <2>2 DEF ClientGoes, o
<1>4. CASE Answer(c)
  <2>1. /\ cli[c] = "asking" /\ UNCHANGED call
        /\ \/ cli'[c] = "executing" /\ plan'[c] = plan[c]
           \/ cli'[c] = "aborted" /\ plan'[c] = <<>>
    BY <1>0, <1>4 DEF Answer, Set
  <2> QED
    BY <2>1 DEF ClientGoes
<1>5. CASE Send(c)
  <2>1. /\ cli[c] = "executing" /\ plan[c] # <<>>
        /\ cli'[c] = "waiting" /\ plan'[c] = plan[c] /\ call' = Begin(h, yes[c])
    BY <1>0, <1>5 DEF Send, Set
  <2>2. Begins(h) /\ Only(h)
    BY <1>0, <2>1, OneCall
  <2> QED
    BY <2>1, <2>2 DEF ClientGoes
<1>6. CASE Replied(c)
  <2>1. /\ cli[c] = "waiting" /\ call[h].phase = "reply" /\ call' = Set(call, h, NoCall)
        /\ cli'[c] = "executing" /\ plan'[c] = Tail(plan[c])
    BY <1>0, <1>6 DEF Replied, Report, Set
  <2>2. Forgets(h) /\ Only(h)
    BY <1>0, <2>1, OneCall
  <2> QED
    BY <2>1, <2>2 DEF ClientGoes
<1>7. CASE GiveUp(c)
  <2>1. /\ cli[c] = "waiting" /\ call' = Cancel(h)
        /\ cli'[c] = "executing" /\ plan'[c] = Tail(plan[c])
    BY <1>0, <1>7 DEF GiveUp, Report, Set
  <2>2. Cuts(h) /\ Only(h)
    BY <1>0, <2>1, OneCall
  <2> QED
    BY <2>1, <2>2 DEF ClientGoes
<1>8. CASE Finish(c)
  <2>1. /\ cli[c] = "executing" /\ plan[c] = <<>> /\ UNCHANGED call
        /\ cli'[c] \in {"all applied", "some failed"} /\ plan'[c] = plan[c]
    BY <1>0, <1>8 DEF Finish, Set
  <2> QED
    BY <2>1 DEF ClientGoes
<1> QED
  BY <1>1, <1>2, <1>3, <1>4, <1>5, <1>6, <1>7, <1>8 DEF Client

\* Clients keep track of their calls.
LEMMA ClientKeepsTrack ==
    ASSUME Typed, Tracked, WaitedFor, NEW c \in Clients, Run(c) \/ Answer(c) \/ Client(c)
    PROVE  Tracked'
<1> DEFINE p == plan[c]
           o == <<c, "plan">>
           h == <<c, Head(p)>>
<1>0. /\ \A d \in Clients \ {c} : cli'[d] = cli[d] /\ plan'[d] = plan[d]
      /\ \A g \in Calls : g[1] # c => call'[g] = call[g]
      /\ ClientGoes(c)
  BY ClientAlone, ClientGoesOn, ClientStep DEF ClientMoves
<1>1. /\ p \in Plans /\ Due(p) \subseteq Actions
      /\ p # <<>> => /\ Head(p) \in Due(p) /\ Head(p) \in Actions /\ Tail(p) \in Plans
                     /\ Due(Tail(p)) = Due(p) \ {Head(p)}
  BY PlanParts DEF Tracked, ClientTracks
<1>2. /\ o \in Calls /\ \A a \in Actions : <<c, a>> \in Calls /\ <<c, a>> # o
      /\ \A g \in Calls : g[1] \in Clients /\ g = <<g[1], g[2]>>
                          /\ (g[2] = "plan" \/ g[2] \in Actions)
  BY DEF Calls, Actions
<1>3. cli[c] = "waiting" => p # <<>> /\ call[h].ctx = "open"
  BY DEF Typed, ClientsOK, WaitedFor
<1>4. NoCall.ctx = "done" /\ NoCall.phase = "none"
  BY DEF NoCall
<1>5. ASSUME NEW d \in Clients \ {c} PROVE ClientTracks(d)'
  <2>1. ClientTracks(d) /\ <<d, "plan">> \in Calls /\ \A a \in Actions : <<d, a>> \in Calls
    BY DEF Tracked, Calls
  <2>2. plan[d] \in Plans /\ Due(plan[d]) \subseteq Actions
        /\ (cli[d] = "waiting" => Due(Tail(plan[d])) \subseteq Actions)
    BY <2>1, PlanParts DEF ClientTracks, Typed, ClientsOK
  <2> QED
    BY <1>0, <2>1, <2>2 DEF ClientTracks, NothingOf
<1>6. ASSUME NEW g \in Calls, g[1] # c PROVE CallTracked(g)'
  <2>1. CallTracked(g) /\ g[1] \in Clients \ {c} /\ call'[g] = call[g]
    BY <1>0, <1>2, <1>6 DEF Tracked
  <2> QED
    BY <1>0, <2>1 DEF CallTracked, Awaited
<1> SUFFICES /\ ClientTracks(c)'
             /\ \A g \in Calls : g[1] = c => CallTracked(g)'
  BY <1>5, <1>6 DEF Tracked
<1>7. ClientTracks(c) /\ \A g \in Calls : CallTracked(g)
  BY DEF Tracked
<1> USE DEF NothingOf
<1> HIDE DEF p, o, h
<1>8. p = plan[c] /\ o = <<c, "plan">> /\ h = <<c, Head(p)>>
  BY DEF p, o, h
<1>9. ASSUME NEW g \in Calls, g[1] = c
      PROVE  /\ Awaited(g) <=> \/ cli[c] = "planning" /\ g = o
                               \/ cli[c] = "waiting" /\ g = h
             /\ Awaited(g)' <=> \/ cli'[c] = "planning" /\ g = o
                                \/ cli'[c] = "waiting" /\ g = <<c, Head(plan'[c])>>
  <2>1. \A x : g = <<c, x>> <=> g[2] = x
    BY <1>2, <1>9
  <2> QED
    BY <1>8, <1>9, <2>1 DEF Awaited
<1>10. CASE /\ cli[c] \in Ends /\ cli'[c] = "planning" /\ plan'[c] = p
            /\ \A g \in Calls : g[1] = c => call[g] = NoCall
            /\ Begins(o) /\ Only(o)
  <2>1. ClientTracks(c)'
    BY <1>1, <1>2, <1>8, <1>10 DEF ClientTracks, Begins, Only
  <2>2. ASSUME NEW g \in Calls, g[1] = c PROVE CallTracked(g)'
    BY <1>4, <1>9, <1>10, <2>2 DEF CallTracked, Begins, Only
  <2> QED
    BY <2>1, <2>2
<1>11. CASE /\ cli[c] = "planning"
            /\ cli'[c] \in {"nothing to repair", "executing", "asking"} /\ plan'[c] \in Plans
            /\ Forgets(o) /\ Only(o)
  <2>0. Due(plan'[c]) \subseteq Actions
    BY <1>11, PlanParts
  <2>1. ClientTracks(c)'
    BY <1>2, <1>7, <1>11, <2>0 DEF ClientTracks, Only
  <2>2. ASSUME NEW g \in Calls, g[1] = c PROVE CallTracked(g)'
    BY <1>4, <1>7, <1>9, <1>11, <2>2 DEF CallTracked, Forgets, Only
  <2> QED
    BY <2>1, <2>2
<1>12. CASE /\ cli[c] = "planning" /\ cli'[c] = "no plan" /\ plan'[c] = p
            /\ Cuts(o) /\ Only(o)
  <2>1. ClientTracks(c)'
    BY <1>1, <1>12 DEF ClientTracks
  <2>2. call[o].phase # "none"
    BY <1>2, <1>4, <1>7, <1>8, <1>12 DEF ClientTracks, CallTracked
  <2>3. ASSUME NEW g \in Calls, g[1] = c PROVE CallTracked(g)'
    BY <1>7, <1>9, <1>12, <2>2, <2>3 DEF CallTracked, Cuts, Only
  <2> QED
    BY <2>1, <2>3
<1>13. CASE /\ cli[c] = "asking" /\ UNCHANGED call
            /\ \/ cli'[c] = "executing" /\ plan'[c] = p
               \/ cli'[c] = "aborted" /\ plan'[c] = <<>>
  <2>1. ClientTracks(c)'
    BY <1>1, <1>7, <1>8, <1>13 DEF ClientTracks, Plans
  <2>2. ASSUME NEW g \in Calls, g[1] = c PROVE CallTracked(g)'
    BY <1>7, <1>9, <1>13, <2>2 DEF CallTracked
  <2> QED
    BY <2>1, <2>2
<1>14. CASE /\ cli[c] = "executing" /\ p # <<>> /\ cli'[c] = "waiting" /\ plan'[c] = p
            /\ Begins(h) /\ Only(h)
  <2>1. \A a \in Due(Tail(p)) : <<c, a>> \in Calls /\ <<c, a>> # h /\ a \in Due(p)
    BY <1>1, <1>2, <1>8, <1>14
  <2>2. ClientTracks(c)'
    BY <1>1, <1>7, <1>8, <1>14, <2>1 DEF ClientTracks, Only
  <2>3. ASSUME NEW g \in Calls, g[1] = c PROVE CallTracked(g)'
    BY <1>7, <1>8, <1>9, <1>14, <2>3 DEF CallTracked, Begins, Only
  <2> QED
    BY <2>2, <2>3
<1>15. CASE /\ cli[c] = "waiting" /\ cli'[c] = "executing" /\ plan'[c] = Tail(p)
            /\ Only(h)
            /\ Forgets(h) \/ Cuts(h)
  <2>1. \A a \in Due(Tail(p)) : <<c, a>> \in Calls /\ <<c, a>> # h
    BY <1>1, <1>2, <1>3, <1>8, <1>15
  <2>2. ClientTracks(c)'
    BY <1>1, <1>3, <1>7, <1>8, <1>15, <2>1 DEF ClientTracks, Only
  <2>3. call[h].phase # "none" /\ h \in Calls
    BY <1>1, <1>2, <1>3, <1>4, <1>7, <1>8, <1>15 DEF CallTracked
  <2>4. ASSUME NEW g \in Calls, g[1] = c PROVE CallTracked(g)'
    BY <1>4, <1>7, <1>9, <1>15, <2>3, <2>4 DEF CallTracked, Forgets, Cuts, Only
  <2> QED
    BY <2>2, <2>4
<1>16. CASE /\ cli[c] = "executing" /\ p = <<>> /\ cli'[c] \in {"all applied", "some failed"}
            /\ plan'[c] = p /\ UNCHANGED call
  <2>1. ClientTracks(c)'
    BY <1>1, <1>16 DEF ClientTracks
  <2>2. ASSUME NEW g \in Calls, g[1] = c PROVE CallTracked(g)'
    BY <1>7, <1>9, <1>16, <2>2 DEF CallTracked
  <2> QED
    BY <2>1, <2>2
<1> QED
  BY <1>0, <1>8, <1>10, <1>11, <1>12, <1>13, <1>14, <1>15, <1>16 DEF ClientGoes

LEMMA Tracking == Spec => []Tracked
<1>1. Init => Tracked
  <2> SUFFICES ASSUME Init PROVE Tracked
    OBVIOUS
  <2>1. NoCall.ctx = "done"
    BY DEF NoCall
  <2>2. ASSUME NEW c \in Clients PROVE ClientTracks(c)
    BY DEF Init, ClientTracks, Plans
  <2>3. ASSUME NEW h \in Calls PROVE CallTracked(h)
    BY <2>1 DEF Init, CallTracked
  <2> QED
    BY <2>2, <2>3 DEF Tracked
<1>2. Typed /\ Recorded /\ Tracked /\ [Next]_vars => Tracked'
  <2> SUFFICES ASSUME Typed, Recorded, Tracked, [Next]_vars PROVE Tracked'
    OBVIOUS
  <2>1. ASSUME NEW h \in Calls, Handler(h) PROVE Tracked'
    <3>1. Going(h) /\ HandlerMoves(h)
      BY <2>1, HandlerGoes, HandlerStep
    <3>2. ASSUME NEW c \in Clients PROVE ClientTracks(c)'
      <4>1. ClientTracks(c) /\ <<c, "plan">> \in Calls /\ \A a \in Actions : <<c, a>> \in Calls
        BY DEF Tracked, Calls
      <4>2. plan[c] \in Plans /\ Due(plan[c]) \subseteq Actions
            /\ (cli[c] = "waiting" => Due(Tail(plan[c])) \subseteq Actions)
        BY <4>1, PlanParts DEF ClientTracks, Typed, ClientsOK
      <4>3. \A a \in Actions : call[<<c, a>>] = NoCall => call'[<<c, a>>] = NoCall
        BY <3>1, <4>1 DEF HandlerMoves, Going, NoCall
      <4>4. cli' = cli /\ plan' = plan
        BY <3>1 DEF HandlerMoves
      <4>5. call[<<c, "plan">>].ctx = "open" => call'[<<c, "plan">>].ctx = "open"
        BY <3>1, <4>1 DEF HandlerMoves
      <4> QED
        BY <4>1, <4>2, <4>3, <4>4, <4>5 DEF ClientTracks, NothingOf
    <3>3. ASSUME NEW g \in Calls PROVE CallTracked(g)'
      BY <3>1 DEF Tracked, CallTracked, Awaited, HandlerMoves, Going
    <3> QED
      BY <3>2, <3>3 DEF Tracked
  <2>2. CASE \E c \in Clients : Run(c) \/ Answer(c) \/ Client(c)
    BY <2>2, ClientKeepsTrack DEF Recorded
  <2>3. CASE UNCHANGED <<cli, plan, call>>
    BY <2>3 DEF Tracked, ClientTracks, CallTracked, Awaited, NothingOf
  <2> QED
    BY <2>1, <2>2, <2>3 DEF Next, Drift, vars
<1> QED
  BY <1>1, <1>2, Invariance, RecordedInvariance, PTL DEF Spec

\* Each call keeps to its course, whoever takes the step.
OnCourse(h) ==
    /\ call'[h].phase \in Onward[call[h].phase]
    /\ call[h].ctx # "open" /\ call[h].phase # "none" => call'[h].ctx # "open"

LEMMA CallsGoOnward ==
    Typed /\ Tracked /\ WaitedFor /\ [Next]_vars => \A h \in Calls : OnCourse(h)
<1> SUFFICES ASSUME Typed, Tracked, WaitedFor, [Next]_vars, NEW h \in Calls
             PROVE  OnCourse(h)
  OBVIOUS
<1>1. call[h].phase \in Phases /\ CallTracked(h) /\ h[1] \in Clients
  BY DEF Typed, HandlersOK, Records, Tracked, Calls
<1>2. call'[h] = call[h] => OnCourse(h)
  BY <1>1 DEF OnCourse, Onward, Phases
<1>3. ASSUME NEW g \in Calls, Handler(g) PROVE OnCourse(h)
  BY <1>2, <1>3, HandlerGoes, HandlerStep DEF HandlerMoves, Going, OnCourse
<1>4. ASSUME NEW c \in Clients, Run(c) \/ Answer(c) \/ Client(c), h[1] = c
      PROVE  OnCourse(h)
  <2> DEFINE o == <<c, "plan">>
             n == <<c, Head(plan[c])>>
  <2>1. ClientGoes(c) /\ ClientTracks(c)
    BY <1>4, ClientGoesOn DEF Tracked
  <2>2. plan[c] # <<>> => Head(plan[c]) \in Due(plan[c])
    BY <2>1, PlanParts DEF ClientTracks
  <2>3. \A g : Only(g) /\ g # h => OnCourse(h)
    BY <1>2 DEF Only
  <2>4. Begins(h) /\ call[h] = NoCall => OnCourse(h)
    BY DEF Begins, OnCourse, Onward, NoCall
  <2>5. Forgets(h) /\ call[h].phase = "reply" => OnCourse(h)
    BY DEF Forgets, OnCourse, Onward, NoCall
  <2>6. Cuts(h) => OnCourse(h)
    BY <1>1 DEF Cuts, OnCourse, Onward, Phases
  <2>7. cli[c] = "executing" /\ plan[c] # <<>> => call[n] = NoCall
    BY <2>1, <2>2 DEF ClientTracks, NothingOf
  <2> HIDE DEF o, n
  <2> QED
    BY <1>2, <1>4, <2>1, <2>3, <2>4, <2>5, <2>6, <2>7 DEF ClientGoes, o, n
<1>5. ASSUME NEW c \in Clients, Run(c) \/ Answer(c) \/ Client(c), h[1] # c
      PROVE  OnCourse(h)
  BY <1>2, <1>5, ClientStep DEF ClientMoves
<1>6. CASE UNCHANGED call
  BY <1>2, <1>6
<1> QED
  BY <1>3, <1>4, <1>5, <1>6 DEF Next, Drift, vars

\* No handler is lost: each goes through its phases to its reply, a call that
\* begins takes the place of none under way, and a call given up is never
\* wanted again.  (repair.go, ExecuteRepair)
THEOREM NoHandlerIsLost ==
    Spec => [][\A h \in Calls :
                 /\ call'[h].phase \in Onward[call[h].phase]
                 /\ call[h].ctx # "open" /\ call[h].phase # "none" => call'[h].ctx # "open"]_vars
<1>1. Typed /\ Tracked /\ Recorded /\ [Next]_vars =>
        [\A h \in Calls :
           /\ call'[h].phase \in Onward[call[h].phase]
           /\ call[h].ctx # "open" /\ call[h].phase # "none" => call'[h].ctx # "open"]_vars
  BY CallsGoOnward DEF OnCourse, Recorded
<1> QED
  BY <1>1, Invariance, RecordedInvariance, Tracking, PTL DEF Spec

-----------------------------------------------------------------------------
(* Everything ends                                                          *)

Live == FairSpec /\ []NobodyIsStuck

\* How far a client has come: it waits for the plan, it is about to send an
\* action or waits for one, with one or two of them left, or it has none left.
Planning(c)   == cli[c] = "planning"
SendsTwo(c)   == cli[c] = "executing" /\ plan[c] = <<"wsl.start", "wsl.restart">>
AwaitsTwo(c)  == cli[c] = "waiting" /\ plan[c] = <<"wsl.start", "wsl.restart">>
SendsOne(c)   == cli[c] = "executing" /\ plan[c] = <<"wsl.restart">>
AwaitsOne(c)  == cli[c] = "waiting" /\ plan[c] = <<"wsl.restart">>
SendsNone(c)  == cli[c] = "executing" /\ plan[c] = <<>>
Busy(c)       == cli[c] \in {"planning", "executing", "waiting"}
AtRest(c)     == cli[c] \in Ends \cup {"asking"}

\* A busy client is somewhere, and a step leaves it there or takes it on; its
\* own step takes it on.
LEMMA ClientAt ==
    ASSUME Typed, Tracked, NEW c \in Clients
    PROVE  Busy(c) => Planning(c) \/ SendsTwo(c) \/ AwaitsTwo(c) \/ SendsOne(c)
                        \/ AwaitsOne(c) \/ SendsNone(c)
<1>1. plan[c] \in Plans /\ (cli[c] = "waiting" => plan[c] # <<>>)
  BY DEF Typed, ClientsOK, Tracked, ClientTracks
<1> QED
  BY <1>1 DEF Plans, Busy, Planning, SendsTwo, AwaitsTwo, SendsOne, AwaitsOne, SendsNone

ClientOn(c) ==
    /\ Planning(c) => SendsTwo(c)' \/ SendsOne(c)' \/ SendsNone(c)' \/ AtRest(c)'
    /\ SendsTwo(c) => AwaitsTwo(c)'
    /\ AwaitsTwo(c) => SendsOne(c)'
    /\ SendsOne(c) => AwaitsOne(c)'
    /\ AwaitsOne(c) => SendsNone(c)'
    /\ SendsNone(c) => AtRest(c)'

LEMMA ClientGetsOn ==
    ASSUME Typed, NEW c \in Clients, Client(c)
    PROVE  ClientOn(c)
<1>1. ClientGoes(c)
  BY ClientGoesOn
<1>2. \A e \in Ends : e \notin {"planning", "asking", "executing", "waiting"}
  BY DEF Ends
<1>3. /\ Tail(<<"wsl.start", "wsl.restart">>) = <<"wsl.restart">>
      /\ Tail(<<"wsl.restart">>) = <<>>
      /\ <<"wsl.start", "wsl.restart">> # <<>> /\ <<"wsl.restart">> # <<>>
      /\ {"nothing to repair", "no plan", "all applied", "some failed"} \subseteq Ends
  BY DEF Ends
<1>4. ~(cli[c] \in Ends) /\ cli[c] # "asking"
  BY <1>2 DEF Client, Planned, GiveUpPlan, Send, Replied, GiveUp, Finish
<1> USE DEF ClientOn, Planning, SendsTwo, AwaitsTwo, SendsOne, AwaitsOne, SendsNone, AtRest
<1>5. CASE cli[c] = "planning"
  BY <1>1, <1>3, <1>4, <1>5 DEF ClientGoes, Plans
<1>6. CASE cli[c] = "executing"
  <2>1. \/ plan[c] # <<>> /\ cli'[c] = "waiting" /\ plan'[c] = plan[c]
        \/ plan[c] = <<>> /\ cli'[c] \in {"all applied", "some failed"}
    BY <1>1, <1>4, <1>6 DEF ClientGoes
  <2> QED
    BY <1>3, <1>6, <2>1
<1>7. CASE cli[c] = "waiting"
  BY <1>1, <1>3, <1>4, <1>7 DEF ClientGoes
<1> QED
  BY <1>5, <1>6, <1>7

LEMMA ClientStays ==
    ASSUME Typed, NEW c \in Clients, [Next]_vars
    PROVE  /\ Planning(c) => Planning(c)' \/ ClientOn(c)
           /\ SendsTwo(c) => SendsTwo(c)' \/ ClientOn(c)
           /\ AwaitsTwo(c) => AwaitsTwo(c)' \/ ClientOn(c)
           /\ SendsOne(c) => SendsOne(c)' \/ ClientOn(c)
           /\ AwaitsOne(c) => AwaitsOne(c)' \/ ClientOn(c)
           /\ SendsNone(c) => SendsNone(c)' \/ ClientOn(c)
<1>1. Client(c) => ClientOn(c)
  BY ClientGetsOn
<1>2. Run(c) \/ Answer(c) => cli[c] \in Ends \cup {"asking"}
  BY DEF Run, Answer
<1>3. \A e \in Ends \cup {"asking"} : e \notin {"planning", "executing", "waiting"}
  BY DEF Ends
<1>4. CASE cli'[c] = cli[c] /\ plan'[c] = plan[c]
  BY <1>4 DEF Planning, SendsTwo, AwaitsTwo, SendsOne, AwaitsOne, SendsNone
<1>5. CASE Client(c)
  BY <1>1, <1>5
<1>6. CASE Run(c) \/ Answer(c)
  BY <1>2, <1>3, <1>6 DEF Planning, SendsTwo, AwaitsTwo, SendsOne, AwaitsOne, SendsNone
<1>7. CASE \E d \in Clients \ {c} : Run(d) \/ Answer(d) \/ Client(d)
  BY <1>4, <1>7, ClientAlone
<1>8. CASE \E h \in Calls : Handler(h)
  BY <1>4, <1>8, HandlerStep DEF HandlerMoves
<1>9. CASE Drift \/ UNCHANGED vars
  BY <1>4, <1>9 DEF Drift, vars
<1> QED
  BY <1>5, <1>6, <1>7, <1>8, <1>9 DEF Next

\* A client that waits for anything but its user comes to rest.
LEMMA ClientRests ==
    ASSUME NEW c \in Clients
    PROVE  Live => (Busy(c) ~> AtRest(c))
<1>1. Fairness => ClientRuns(c)
  BY DEF Fairness
<1>2. Typed /\ Tracked =>
        (Busy(c) => Planning(c) \/ SendsTwo(c) \/ AwaitsTwo(c) \/ SendsOne(c)
                      \/ AwaitsOne(c) \/ SendsNone(c))
  BY ClientAt
<1>3. Typed /\ [Next]_vars =>
        /\ Planning(c) => Planning(c)' \/ SendsTwo(c)' \/ SendsOne(c)' \/ SendsNone(c)' \/ AtRest(c)'
        /\ SendsTwo(c) => SendsTwo(c)' \/ AwaitsTwo(c)'
        /\ AwaitsTwo(c) => AwaitsTwo(c)' \/ SendsOne(c)'
        /\ SendsOne(c) => SendsOne(c)' \/ AwaitsOne(c)'
        /\ AwaitsOne(c) => AwaitsOne(c)' \/ SendsNone(c)'
        /\ SendsNone(c) => SendsNone(c)' \/ AtRest(c)'
  BY ClientStays DEF ClientOn
<1>4. Typed /\ <<Client(c)>>_vars =>
        /\ Planning(c) => SendsTwo(c)' \/ SendsOne(c)' \/ SendsNone(c)' \/ AtRest(c)'
        /\ SendsTwo(c) => AwaitsTwo(c)'
        /\ AwaitsTwo(c) => SendsOne(c)'
        /\ SendsOne(c) => AwaitsOne(c)'
        /\ AwaitsOne(c) => SendsNone(c)'
        /\ SendsNone(c) => AtRest(c)'
  BY ClientGetsOn DEF ClientOn
<1>5. Planning(c) \/ SendsTwo(c) \/ AwaitsTwo(c) \/ SendsOne(c) \/ AwaitsOne(c) \/ SendsNone(c)
        => Busy(c)
  BY DEF Planning, SendsTwo, AwaitsTwo, SendsOne, AwaitsOne, SendsNone, Busy
<1>6. NobodyIsStuck => (Busy(c) => ENABLED <<Client(c)>>_vars)
  BY Zenon DEF NobodyIsStuck, Busy
<1>7. Spec => []Typed /\ []Tracked
  BY Invariance, Tracking, PTL
<1>8. Live => (Planning(c) ~> SendsTwo(c) \/ SendsOne(c) \/ SendsNone(c) \/ AtRest(c))
  BY <1>1, <1>3, <1>4, <1>5, <1>6, <1>7, PTL DEF Live, FairSpec, Spec, ClientRuns
<1>9. Live => (SendsTwo(c) ~> AwaitsTwo(c))
  BY <1>1, <1>3, <1>4, <1>5, <1>6, <1>7, PTL DEF Live, FairSpec, Spec, ClientRuns
<1>10. Live => (AwaitsTwo(c) ~> SendsOne(c))
  BY <1>1, <1>3, <1>4, <1>5, <1>6, <1>7, PTL DEF Live, FairSpec, Spec, ClientRuns
<1>11. Live => (SendsOne(c) ~> AwaitsOne(c))
  BY <1>1, <1>3, <1>4, <1>5, <1>6, <1>7, PTL DEF Live, FairSpec, Spec, ClientRuns
<1>12. Live => (AwaitsOne(c) ~> SendsNone(c))
  BY <1>1, <1>3, <1>4, <1>5, <1>6, <1>7, PTL DEF Live, FairSpec, Spec, ClientRuns
<1>13. Live => (SendsNone(c) ~> AtRest(c))
  BY <1>1, <1>3, <1>4, <1>5, <1>6, <1>7, PTL DEF Live, FairSpec, Spec, ClientRuns
<1> QED
  BY <1>2, <1>7, <1>8, <1>9, <1>10, <1>11, <1>12, <1>13, PTL DEF Live, FairSpec

\* How far the handler of a call has come: its client waits for it, or does not
\* any more and it is in one of its phases.
Wanted(h)     == call[h].ctx = "open"
Adrift(h)     == call[h] # NoCall /\ call[h].ctx # "open"
Probing(h)    == call[h].phase = "probe" /\ call[h].ctx # "open"
Deciding(h)   == call[h].phase = "decide" /\ call[h].ctx # "open"
Executing(h)  == call[h].phase = "execute" /\ call[h].ctx # "open"
Verifying(h)  == call[h].phase = "verify" /\ call[h].ctx # "open"
Concluding(h) == call[h].phase = "conclude" /\ call[h].ctx # "open"
Replying(h)   == call[h].phase = "reply" /\ call[h].ctx # "open"
Over(h)       == call[h] = NoCall

LEMMA HandlerAt ==
    ASSUME Typed, Tracked, WaitedFor, NEW h \in Calls
    PROVE  /\ Over(h) \/ Wanted(h) \/ Adrift(h)
           /\ Adrift(h) <=> Probing(h) \/ Deciding(h) \/ Executing(h) \/ Verifying(h)
                              \/ Concluding(h) \/ Replying(h)
           /\ Wanted(h) => cli[h[1]] \in {"planning", "waiting"}
           /\ Adrift(h) => call[h] # NoCall /\ ~Awaited(h)
<1> USE DEF Wanted, Adrift, Probing, Deciding, Executing, Verifying, Concluding, Replying, Over
<1>1. call[h].phase \in Phases /\ CallTracked(h) /\ h[1] \in Clients /\ h = <<h[1], h[2]>>
  BY DEF Typed, HandlersOK, Records, Tracked, Calls
<1>2. NoCall.phase = "none"
  BY DEF NoCall
<1>3. Awaited(h) => call[h].ctx = "open"
  BY <1>1 DEF Awaited, Tracked, ClientTracks, WaitedFor
<1>4. Adrift(h) <=> Probing(h) \/ Deciding(h) \/ Executing(h) \/ Verifying(h)
                      \/ Concluding(h) \/ Replying(h)
  BY <1>1, <1>2 DEF CallTracked, Phases
<1>5. Wanted(h) => cli[h[1]] \in {"planning", "waiting"}
  BY <1>1 DEF CallTracked, Awaited
<1> QED
  BY <1>3, <1>4, <1>5

\* A step takes it on through its phases, and its own step does not leave it.
LEMMA HandlerStays ==
    ASSUME Typed, Tracked, Tracked', WaitedFor, NEW h \in Calls, [Next]_vars
    PROVE  /\ Probing(h) => Probing(h)' \/ Deciding(h)'
           /\ Deciding(h) => Deciding(h)' \/ Executing(h)' \/ Concluding(h)' \/ Replying(h)'
           /\ Executing(h) => Executing(h)' \/ Verifying(h)' \/ Concluding(h)'
           /\ Verifying(h) => Verifying(h)' \/ Concluding(h)'
           /\ Concluding(h) => Concluding(h)' \/ Replying(h)'
           /\ Replying(h) => Replying(h)' \/ Over(h)'
<1>1. OnCourse(h)
  BY CallsGoOnward
<1>2. call'[h].phase = "none" => call'[h] = NoCall
  BY DEF Tracked, CallTracked
<1> QED
  BY <1>1, <1>2 DEF OnCourse, Onward, Probing, Deciding, Executing, Verifying, Concluding,
                    Replying, Over

LEMMA HandlerGetsOn ==
    ASSUME Typed, NEW h \in Calls, Proceed(h)
    PROVE  /\ Probing(h) => ~Probing(h)'
           /\ Deciding(h) => ~Deciding(h)'
           /\ Executing(h) => ~Executing(h)'
           /\ Verifying(h) => ~Verifying(h)'
           /\ Concluding(h) => ~Concluding(h)'
           /\ Replying(h) => ~Replying(h)'
<1>1. call'[h].phase # call[h].phase
  BY HandlerGoes DEF Going, Proceed, Handler
<1> QED
  BY <1>1 DEF Probing, Deciding, Executing, Verifying, Concluding, Replying

\* The step of its client that it waits for is the last it waits for.
LEMMA ClientLeaves ==
    ASSUME Typed, Tracked, NEW h \in Calls, Client(h[1])
    PROVE  Wanted(h) => ~Wanted(h)'
<1> DEFINE c == h[1]
<1>1. ClientGoes(c) /\ c \in Clients /\ h = <<c, h[2]>>
  BY ClientGoesOn DEF Calls
<1>2. Wanted(h) => Awaited(h)
  BY DEF Wanted, Tracked, CallTracked
<1>3. Forgets(h) \/ Cuts(h) => ~Wanted(h)'
  BY DEF Forgets, Cuts, Wanted, NoCall
<1>4. \A e \in Ends : e \notin {"planning", "asking", "executing", "waiting"}
  BY DEF Ends
<1>5. cli[c] = "planning" => Forgets(<<c, "plan">>) \/ Cuts(<<c, "plan">>)
  BY <1>1, <1>4 DEF ClientGoes
<1>6. cli[c] = "waiting" => Forgets(<<c, Head(plan[c])>>) \/ Cuts(<<c, Head(plan[c])>>)
  BY <1>1, <1>4 DEF ClientGoes
<1> QED
  BY <1>1, <1>2, <1>3, <1>5, <1>6 DEF Awaited

LEMMA HandlerIsRid ==
    ASSUME NEW c \in Clients, NEW h \in Calls, h[1] = c
    PROVE  Live => (~Over(h) ~> Over(h))
<1>1. /\ Fairness => ClientRuns(c)
      /\ Fairness => HandlerRuns(h)
  BY DEF Fairness
<1>2. Typed /\ Tracked /\ Recorded =>
        /\ Over(h) \/ Wanted(h) \/ Adrift(h)
        /\ Adrift(h) <=> Probing(h) \/ Deciding(h) \/ Executing(h) \/ Verifying(h)
                           \/ Concluding(h) \/ Replying(h)
  BY HandlerAt DEF Recorded
<1>3. Typed /\ Tracked /\ Tracked' /\ Recorded /\ [Next]_vars =>
        /\ Probing(h) => Probing(h)' \/ Deciding(h)'
        /\ Deciding(h) => Deciding(h)' \/ Executing(h)' \/ Concluding(h)' \/ Replying(h)'
        /\ Executing(h) => Executing(h)' \/ Verifying(h)' \/ Concluding(h)'
        /\ Verifying(h) => Verifying(h)' \/ Concluding(h)'
        /\ Concluding(h) => Concluding(h)' \/ Replying(h)'
        /\ Replying(h) => Replying(h)' \/ Over(h)'
  BY HandlerStays DEF Recorded
<1>4. Typed /\ <<Proceed(h)>>_vars =>
        /\ Probing(h) => ~Probing(h)'
        /\ Deciding(h) => ~Deciding(h)'
        /\ Executing(h) => ~Executing(h)'
        /\ Verifying(h) => ~Verifying(h)'
        /\ Concluding(h) => ~Concluding(h)'
        /\ Replying(h) => ~Replying(h)'
  BY HandlerGetsOn
<1>5. Typed /\ Tracked /\ <<Client(c)>>_vars => (Wanted(h) => ~Wanted(h)')
  BY ClientLeaves
<1>6. NobodyIsStuck /\ Typed /\ Tracked /\ Recorded =>
        /\ Adrift(h) => ENABLED <<Proceed(h)>>_vars
        /\ Wanted(h) => ENABLED <<Client(c)>>_vars
  <2>1. Typed /\ Tracked /\ Recorded =>
          /\ Wanted(h) => cli[c] \in {"planning", "executing", "waiting"}
          /\ Adrift(h) => call[h] # NoCall /\ ~Awaited(h)
    BY HandlerAt DEF Recorded
  <2>2. NobodyIsStuck => (cli[c] \in {"planning", "executing", "waiting"}
                            => ENABLED <<Client(c)>>_vars)
    BY Zenon DEF NobodyIsStuck
  <2>3. NobodyIsStuck => (call[h] # NoCall => Awaited(h) \/ ENABLED <<Proceed(h)>>_vars)
    BY Zenon DEF NobodyIsStuck
  <2> QED
    BY <2>1, <2>2, <2>3, Zenon
<1>7. Spec => []Typed /\ []Tracked /\ []Recorded
  BY Invariance, Tracking, RecordedInvariance, PTL
<1>8. Live => (Wanted(h) ~> Over(h) \/ Adrift(h))
  BY <1>1, <1>2, <1>5, <1>6, <1>7, PTL DEF Live, FairSpec, Spec, ClientRuns
<1>9. Live => (Probing(h) ~> Deciding(h))
  BY <1>1, <1>2, <1>3, <1>4, <1>6, <1>7, PTL DEF Live, FairSpec, Spec, HandlerRuns
<1>10. Live => (Deciding(h) ~> Executing(h) \/ Concluding(h) \/ Replying(h))
  BY <1>1, <1>2, <1>3, <1>4, <1>6, <1>7, PTL DEF Live, FairSpec, Spec, HandlerRuns
<1>11. Live => (Executing(h) ~> Verifying(h) \/ Concluding(h))
  BY <1>1, <1>2, <1>3, <1>4, <1>6, <1>7, PTL DEF Live, FairSpec, Spec, HandlerRuns
<1>12. Live => (Verifying(h) ~> Concluding(h))
  BY <1>1, <1>2, <1>3, <1>4, <1>6, <1>7, PTL DEF Live, FairSpec, Spec, HandlerRuns
<1>13. Live => (Concluding(h) ~> Replying(h))
  BY <1>1, <1>2, <1>3, <1>4, <1>6, <1>7, PTL DEF Live, FairSpec, Spec, HandlerRuns
<1>14. Live => (Replying(h) ~> Over(h))
  BY <1>1, <1>2, <1>3, <1>4, <1>6, <1>7, PTL DEF Live, FairSpec, Spec, HandlerRuns
<1>15. Live => (Adrift(h) ~> Over(h))
  BY <1>2, <1>7, <1>9, <1>10, <1>11, <1>12, <1>13, <1>14, PTL DEF Live, FairSpec
<1> QED
  BY <1>2, <1>7, <1>8, <1>15, PTL DEF Live, FairSpec

\* envorca repair ends, or waits for its user, and every handler returns,
\* though wsl.exe may hang at any command: the deadlines of the client and the
\* end of the context see to it, as long as nobody is stuck.  (repair.go,
\* exec.CommandContext in wsl.go)
THEOREM RepairsEnd == FairSpec /\ []NobodyIsStuck => RepairEnds
<1>1. ASSUME NEW c \in Clients
      PROVE  FairSpec /\ []NobodyIsStuck =>
               (cli[c] \in {"planning", "executing", "waiting"} ~> cli[c] \in Ends \cup {"asking"})
  <2>1. /\ cli[c] \in {"planning", "executing", "waiting"} <=> Busy(c)
        /\ cli[c] \in Ends \cup {"asking"} <=> AtRest(c)
    BY DEF Busy, AtRest
  <2> QED
    BY <2>1, ClientRests, PTL DEF Live
<1>2. ASSUME NEW h \in Calls
      PROVE  FairSpec /\ []NobodyIsStuck => (call[h] # NoCall ~> call[h] = NoCall)
  <2>1. call[h] = NoCall <=> Over(h)
    BY DEF Over
  <2>2. Live => (~Over(h) ~> Over(h))
    BY HandlerIsRid DEF Calls
  <2> QED
    BY <2>1, <2>2, PTL DEF Live
<1> QED
  BY <1>1, <1>2 DEF RepairEnds
=============================================================================

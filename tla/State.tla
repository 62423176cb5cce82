------------------------------- MODULE State -------------------------------
(***************************************************************************)
(* The database of the daemon (daemon/internal/state): its migrations, run *)
(* by every daemon process that boots, and a history table, to which the   *)
(* handlers of GetStatus or of ExecuteRepair add and which they prune.     *)
(* Processes share the file; a process opens it before it knows whether    *)
(* the endpoint is free (daemon/cmd/envorcad/main.go), so that two may     *)
(* migrate at once, and one may serve while another drains.                *)
(*                                                                         *)
(* SQLite runs each statement, and each transaction, as one step, keeps    *)
(* what is committed, and never hands out a number of a row again.  The    *)
(* two history tables differ in what they keep only; one is modelled.      *)
(***************************************************************************)
EXTENDS Integers, FiniteSets

CONSTANTS
    Daemons,        \* daemon processes on one state directory
    Handlers,       \* handlers of a daemon that add to the history
    MaxVersion,     \* the number of migrations the daemon brings with it
    Keep,           \* keepDiagnostics or keepRepairs
    DefaultLimit,   \* 20
    MaxLimit,       \* 500
    Limits,         \* the limits clients ask for
    MaxRows         \* bound of the model: rows ever added

ASSUME StateAssumption ==
    /\ MaxVersion \in Nat
    /\ Keep \in Nat \ {0}
    /\ MaxLimit \in Nat /\ DefaultLimit \in 1 .. MaxLimit
    /\ Limits \subseteq Int
    /\ MaxRows \in Nat

Calls    == Daemons \X Handlers
Versions == 1 .. MaxVersion

VARIABLES
    schema,     \* the versions in schema_migrations
    tables,     \* the versions whose tables are there
    rows,       \* the numbers of the rows of the history table
    last,       \* the last number given to a row
    pc,         \* pc[d]: how far the process is
    todo,       \* todo[d]: the versions it has found missing, not yet applied
    call,       \* call[h]: what a handler does next with the history
    shown,      \* the rows the last reader was given
    mishap,     \* ghost: some process died, or met an error, while it migrated
    cut         \* ghost: no prune has completed since one was cut short

vars == <<schema, tables, rows, last, pc, todo, call, shown, mishap, cut>>
file == <<schema, tables, rows, last>>

Init ==
    /\ schema = {} /\ tables = {}
    /\ rows = {} /\ last = 0
    /\ pc = [d \in Daemons |-> "down"]
    /\ todo = [d \in Daemons |-> {}]
    /\ call = [h \in Calls |-> "none"]
    /\ shown = {}
    /\ mishap = FALSE
    /\ cut = FALSE

Goto(d, label) == pc' = [pc EXCEPT ![d] = label]

-----------------------------------------------------------------------------
(* Migrations                                                               *)

\* Open, and CREATE TABLE IF NOT EXISTS schema_migrations.
Open(d) ==
    /\ pc[d] \in {"down", "failed"}
    /\ Goto(d, "open")
    /\ UNCHANGED <<file, todo, call, shown, mishap, cut>>

\* SELECT version FROM schema_migrations, outside of any transaction.
ReadApplied(d) ==
    /\ pc[d] = "open"
    /\ Goto(d, "migrating")
    /\ todo' = [todo EXCEPT ![d] = Versions \ schema]
    /\ UNCHANGED <<file, call, shown, mishap, cut>>

\* Fault: the files are taken as the directory lists them.
InAnyOrder(d, v) == v \in todo[d]

\* The files are applied in the order of their names.
IsNext(d, v) == v \in todo[d] /\ \A w \in todo[d] : v <= w

\* One migration and its row in schema_migrations, in one transaction.
Apply(d) ==
    /\ pc[d] = "migrating"
    /\ \E v \in Versions \ schema :
        /\ IsNext(d, v)
        /\ schema' = schema \cup {v}
        /\ tables' = tables \cup {v}
        /\ todo' = [todo EXCEPT ![d] = @ \ {v}]
    /\ UNCHANGED <<rows, last, pc, call, shown, mishap, cut>>

\* Fault: the row is there already, so the migration is taken to be done.
ConflictIsTakenForDone(d) ==
    /\ pc[d] = "migrating"
    /\ \E v \in schema : IsNext(d, v)
    /\ Goto(d, "serving")
    /\ todo' = [todo EXCEPT ![d] = {}]
    /\ UNCHANGED <<file, call, shown, mishap, cut>>

\* Fault: instead of a rollback, what the migration has made is removed.
ConflictUndoes(d) ==
    /\ pc[d] = "migrating"
    /\ \E v \in schema :
        /\ IsNext(d, v)
        /\ schema' = schema \ {v}
        /\ tables' = tables \ {v}
    /\ Goto(d, "failed")
    /\ todo' = [todo EXCEPT ![d] = {}]
    /\ UNCHANGED <<rows, last, call, shown, mishap, cut>>

\* Another process has applied it since: version is a primary key, the
\* insertion fails, the transaction is rolled back, and the daemon gives up.
Conflict(d) ==
    /\ pc[d] = "migrating"
    /\ \E v \in schema : IsNext(d, v)
    /\ Goto(d, "failed")
    /\ todo' = [todo EXCEPT ![d] = {}]
    /\ UNCHANGED <<file, call, shown, mishap, cut>>

\* All are applied; the daemon goes on to serve.
Migrated(d) ==
    /\ pc[d] = "migrating"
    /\ todo[d] = {}
    /\ Goto(d, "serving")
    /\ UNCHANGED <<file, todo, call, shown, mishap, cut>>

-----------------------------------------------------------------------------
(* History                                                                  *)

\* Fault: the oldest rows are kept.
NewestTheOtherWay(n, S) == {i \in S : Cardinality({j \in S : j <= i}) <= n}

\* Fault: one row too many is kept.
NewestAndOneMore(n, S) == {i \in S : Cardinality({j \in S : j > i}) <= n}

\* ORDER BY id DESC LIMIT n.
Newest(n, S) == {i \in S : Cardinality({j \in S : j >= i}) <= n}

\* clampLimit.
Clamp(limit) ==
    IF limit <= 0 THEN DefaultLimit ELSE IF limit > MaxLimit THEN MaxLimit ELSE limit

\* A call comes in whose handler will have something to record.
Begin(h) ==
    /\ pc[h[1]] = "serving"
    /\ call[h] = "none"
    /\ call' = [call EXCEPT ![h] = "insert"]
    /\ UNCHANGED <<file, pc, todo, shown, mishap, cut>>

\* The first statement: the row is added.
Insert(h) ==
    /\ call[h] = "insert"
    /\ last < MaxRows
    /\ last' = last + 1
    /\ rows' = rows \cup {last + 1}
    /\ call' = [call EXCEPT ![h] = "prune"]
    /\ UNCHANGED <<schema, tables, pc, todo, shown, mishap, cut>>

\* The second statement: the rows beyond the newest go.
Prune(h) ==
    /\ call[h] = "prune"
    /\ rows' = Newest(Keep, rows)
    /\ call' = [call EXCEPT ![h] = "none"]
    /\ cut' = FALSE
    /\ UNCHANGED <<schema, tables, last, pc, todo, shown, mishap>>

\* Either statement fails, because the context of the call is done or the
\* file is busy; the handler logs it and replies as if nothing had happened.
Fails(h) ==
    /\ call[h] # "none"
    /\ call' = [call EXCEPT ![h] = "none"]
    /\ cut' = (cut \/ call[h] = "prune")
    /\ UNCHANGED <<file, pc, todo, shown, mishap>>

Record(h) == Insert(h) \/ Prune(h) \/ Fails(h)

\* Fault: the limit of the request is passed on as it is.
ReadUnclamped(d, limit) ==
    /\ pc[d] \in {"serving", "draining"}
    /\ shown' = Newest(limit, rows)
    /\ UNCHANGED <<file, pc, todo, call, mishap, cut>>

\* GetDiagnostics or GetRepairHistory: one query.
Read(d, limit) ==
    /\ pc[d] \in {"serving", "draining"}
    /\ shown' = Newest(Clamp(limit), rows)
    /\ UNCHANGED <<file, pc, todo, call, mishap, cut>>

-----------------------------------------------------------------------------
(* The life of a process, as far as the file sees it (see Lifecycle)        *)

\* It stops, or cannot go on to boot: no new calls.
Stop(d) ==
    /\ pc[d] = "serving"
    /\ Goto(d, "draining")
    /\ UNCHANGED <<file, todo, call, shown, mishap, cut>>

\* Fault: the server is stopped without waiting for its calls.
CloseAtOnce(d) ==
    /\ pc[d] = "draining"
    /\ Goto(d, "down")
    /\ UNCHANGED <<file, todo, call, shown, mishap, cut>>

\* Its handlers have returned: the database is closed.
Close(d) ==
    /\ pc[d] = "draining"
    /\ \A h \in Calls : h[1] = d => call[h] = "none"
    /\ Goto(d, "down")
    /\ UNCHANGED <<file, todo, call, shown, mishap, cut>>

\* Fault: rows are written behind, and the last one dies with the process.
CrashLosesRow(d) ==
    /\ pc[d] \notin {"down", "failed"}
    /\ Goto(d, "down")
    /\ todo' = [todo EXCEPT ![d] = {}]
    /\ call' = [h \in Calls |-> IF h[1] = d THEN "none" ELSE call[h]]
    /\ mishap' = (mishap \/ pc[d] \in {"open", "migrating"})
    /\ cut' = (cut \/ \E h \in Calls : h[1] = d /\ call[h] = "prune")
    /\ rows' = rows \ {last}
    /\ last' = IF last \in rows THEN last - 1 ELSE last
    /\ UNCHANGED <<schema, tables, shown>>

\* It dies at any point, or Migrate ends with an error of the database.
Crash(d) ==
    /\ pc[d] \notin {"down", "failed"}
    /\ Goto(d, "down")
    /\ todo' = [todo EXCEPT ![d] = {}]
    /\ call' = [h \in Calls |-> IF h[1] = d THEN "none" ELSE call[h]]
    /\ mishap' = (mishap \/ pc[d] \in {"open", "migrating"})
    /\ cut' = (cut \/ \E h \in Calls : h[1] = d /\ call[h] = "prune")
    /\ UNCHANGED <<file, shown>>

Migrate(d) == Open(d) \/ ReadApplied(d) \/ Apply(d) \/ Conflict(d) \/ Migrated(d)

Next ==
    \/ \E d \in Daemons : Migrate(d) \/ Stop(d) \/ Close(d) \/ Crash(d)
    \/ \E d \in Daemons, limit \in Limits : Read(d, limit)
    \/ \E h \in Calls : Begin(h) \/ Record(h)

Spec == Init /\ [][Next]_vars

-----------------------------------------------------------------------------
(* Properties                                                               *)

Labels == {"down", "open", "migrating", "serving", "draining", "failed"}

\* Every variable holds a value of its type, only a process that migrates has
\* migrations left, and only one that serves or drains has handlers.  (Migrate,
\* RecordDiagnostic, RecordRepair, the order of events in run and stop)
TypeOK ==
    /\ schema \subseteq Versions /\ tables \subseteq Versions
    /\ last \in 0 .. MaxRows /\ rows \subseteq 1 .. last
    /\ pc \in [Daemons -> Labels]
    /\ todo \in [Daemons -> SUBSET Versions]
    /\ call \in [Calls -> {"none", "insert", "prune"}]
    /\ shown \subseteq 1 .. MaxRows
    /\ mishap \in BOOLEAN /\ cut \in BOOLEAN
    /\ \A d \in Daemons : todo[d] # {} => pc[d] = "migrating"
    /\ \A h \in Calls : call[h] # "none" => pc[h[1]] \in {"serving", "draining"}

\* Whatever processes migrate at once, and wherever they die, the versions are
\* applied in their order, and schema_migrations says which.  (Migrate, which
\* reads the versions outside of its transactions)
MigratedInOrder ==
    /\ tables = schema
    /\ \A v \in schema : \A w \in 1 .. v : w \in schema

\* A daemon that serves has all its tables, though others may have migrated
\* beside it.  (Migrate before Listen in run)
ServingIsMigrated ==
    \A d \in Daemons : pc[d] \in {"serving", "draining"} => tables = Versions

\* Processes that stand in each other's way do not leave the file half
\* migrated: if all have gone, none by a mishap, some process has gone on to
\* the last version.  (the failing insertion in Migrate)
SomeoneMigrates ==
    (/\ ~mishap
     /\ "failed" \in {pc[d] : d \in Daemons}
     /\ \A d \in Daemons : pc[d] \in {"down", "failed"})
        => schema = Versions

\* None of the newest Keep rows is ever pruned, whichever handlers of whichever
\* daemons prune at once, and what is pruned is older than what is kept.
\* (RecordDiagnostic, RecordRepair)
NewestKept ==
    \A i \in 1 .. last : (i + Keep > last \/ \E j \in rows : j <= i) => i \in rows

Pruners == {h \in Calls : call[h] = "prune"}

\* What is left of "the database cannot grow without bound": the table is over
\* its bound by no more rows than there are handlers that have still to prune,
\* unless a prune was cut short and none has completed since.
\* (RecordDiagnostic, RecordRepair: two statements without a transaction)
OverflowIsOwed ==
    ~cut => Cardinality(rows) <= Keep + Cardinality(Pruners)

\* A reader gets the newest rows without a gap, as many as asked for or there
\* are, by default and at most the limits of clampLimit.  (RecentDiagnostics,
\* RecentRepairs, clampLimit)
ReadsAreNewest ==
    [][\A d \in Daemons, limit \in Limits :
        Read(d, limit) =>
            LET n == Cardinality(shown')
            IN  /\ shown' = (last - n + 1) .. last
                /\ n <= MaxLimit
                /\ limit <= 0 => n <= DefaultLimit
                /\ limit > 0 => n <= limit
                /\ \/ n \in {Cardinality(rows), DefaultLimit, MaxLimit}
                   \/ limit > 0 /\ n = limit]_vars

\* Whichever daemon is asked, and whatever has crashed since: who has seen a
\* row is never shown older rows only.  (WAL, AUTOINCREMENT in 0002_history)
HistoryAdvances ==
    [][shown' # shown => \A i \in shown : \E j \in shown' : j >= i]_vars

Store == INSTANCE Database WITH
            version <- Cardinality(schema),
            first   <- last + 1 - Cardinality(rows)

\* However many processes migrate, add, prune, read and die at once, they do
\* only what one database with one log allows: it goes up one version at a
\* time, is used at the last one only, and loses nothing at its end.
\* (Migrate, RecordDiagnostic, RecordRepair, RecentDiagnostics, RecentRepairs)
ImplementsDatabase == Store!Spec
=============================================================================

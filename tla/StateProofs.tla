---------------------------- MODULE StateProofs ----------------------------
(***************************************************************************)
(* What holds of State for any number of daemons and of migrations.  The   *)
(* invariant that carries the proof is about a process that has read the   *)
(* applied versions, and may have been overtaken since: what it does not   *)
(* find missing is there, whoever has applied it.  The history is always   *)
(* one run of numbers up to the last.                                      *)
(***************************************************************************)
EXTENDS State, FiniteSetTheorems, TLAPS

\* What a process believes about the file is still true.
Believed ==
    /\ \A d \in Daemons : pc[d] = "migrating" => Versions \ todo[d] \subseteq schema
    /\ \A d \in Daemons : pc[d] \in {"serving", "draining"} => Versions \subseteq schema

MigrationTypes ==
    /\ schema \subseteq Versions
    /\ pc \in [Daemons -> Labels]
    /\ todo \in [Daemons -> SUBSET Versions]

MigrationInv == MigrationTypes /\ MigratedInOrder /\ Believed

LEMMA InitMigration == Init => MigrationInv
BY StateAssumption DEF Init, MigrationInv, MigrationTypes, MigratedInOrder, Believed,
    Versions, Labels

\* Only Apply adds to the file, and it adds a version whose predecessors the
\* process has all seen there.
LEMMA ApplyMigration ==
    ASSUME MigrationInv, NEW d \in Daemons, Apply(d)
    PROVE  MigrationInv'
<1>1. PICK v \in Versions \ schema :
        /\ IsNext(d, v)
        /\ schema' = schema \cup {v}
        /\ tables' = tables \cup {v}
        /\ todo' = [todo EXCEPT ![d] = @ \ {v}]
  BY DEF Apply
<1>2. pc[d] = "migrating" /\ pc' = pc
  BY DEF Apply
<1>3. MigrationTypes'
  BY <1>1, <1>2 DEF MigrationInv, MigrationTypes
<1>4. ASSUME NEW w \in 1 .. v
      PROVE  w \in schema'
  <2>1. w \in Versions /\ w <= v
    BY <1>1, StateAssumption DEF Versions
  <2>2. CASE w = v
    BY <2>2, <1>1
  <2>3. CASE w # v
    <3>1. w \notin todo[d]
      BY <2>1, <2>3, <1>1, StateAssumption DEF IsNext, Versions
    <3>2. w \in schema
      BY <3>1, <2>1, <1>2 DEF MigrationInv, Believed
    <3>3. QED
      BY <3>2, <1>1
  <2>4. QED
    BY <2>2, <2>3
<1>5. MigratedInOrder'
  BY <1>1, <1>4 DEF MigrationInv, MigratedInOrder
<1>6. Believed'
  <2>1. ASSUME NEW e \in Daemons, pc'[e] = "migrating"
        PROVE  Versions \ todo'[e] \subseteq schema'
    BY <1>1, <1>2, <2>1 DEF MigrationInv, MigrationTypes, Believed
  <2>2. ASSUME NEW e \in Daemons, pc'[e] \in {"serving", "draining"}
        PROVE  Versions \subseteq schema'
    BY <1>1, <1>2, <2>2 DEF MigrationInv, Believed
  <2>3. QED
    BY <2>1, <2>2 DEF Believed
<1>7. QED
  BY <1>3, <1>5, <1>6 DEF MigrationInv

\* A step that leaves the versions and the processes as they are.
LEMMA KeepMigration ==
    ASSUME MigrationInv, UNCHANGED <<schema, tables, pc, todo>>
    PROVE  MigrationInv'
BY DEF MigrationInv, MigrationTypes, MigratedInOrder, Believed

\* A step by which a process stops to migrate, or to serve.
LEMMA LeaveMigration ==
    ASSUME MigrationInv, NEW d \in Daemons,
           NEW label \in {"down", "failed", "open"},
           Goto(d, label),
           todo' = todo \/ todo' = [todo EXCEPT ![d] = {}],
           UNCHANGED <<schema, tables>>
    PROVE  MigrationInv'
<1>1. pc' = [pc EXCEPT ![d] = label] /\ label \in Labels
  BY DEF Goto, Labels
<1>2. MigrationTypes' /\ MigratedInOrder'
  BY <1>1 DEF MigrationInv, MigrationTypes, MigratedInOrder
<1>3. ASSUME NEW e \in Daemons, e # d
      PROVE  pc'[e] = pc[e] /\ todo'[e] = todo[e]
  BY <1>1, <1>3 DEF MigrationInv, MigrationTypes
<1>4. pc'[d] = label
  BY <1>1 DEF MigrationInv, MigrationTypes
<1>5. Believed'
  BY <1>3, <1>4 DEF MigrationInv, Believed
<1>6. QED
  BY <1>2, <1>5 DEF MigrationInv

LEMMA NextMigration ==
    ASSUME MigrationInv, [Next]_vars
    PROVE  MigrationInv'
<1>1. ASSUME NEW d \in Daemons, Open(d)
      PROVE  MigrationInv'
  BY <1>1, LeaveMigration DEF Open, file
<1>2. ASSUME NEW d \in Daemons, ReadApplied(d)
      PROVE  MigrationInv'
  <2>1. /\ pc' = [pc EXCEPT ![d] = "migrating"]
        /\ todo' = [todo EXCEPT ![d] = Versions \ schema]
        /\ UNCHANGED <<schema, tables>>
    BY <1>2 DEF ReadApplied, Goto, file
  <2>2. MigrationTypes' /\ MigratedInOrder'
    BY <2>1 DEF MigrationInv, MigrationTypes, MigratedInOrder, Labels
  <2>3. Believed'
    BY <2>1 DEF MigrationInv, MigrationTypes, Believed
  <2>4. QED
    BY <2>2, <2>3 DEF MigrationInv
<1>3. ASSUME NEW d \in Daemons, Apply(d)
      PROVE  MigrationInv'
  BY <1>3, ApplyMigration
<1>4. ASSUME NEW d \in Daemons, Conflict(d)
      PROVE  MigrationInv'
  BY <1>4, LeaveMigration DEF Conflict, file
<1>5. ASSUME NEW d \in Daemons, Migrated(d)
      PROVE  MigrationInv'
  <2>1. /\ pc' = [pc EXCEPT ![d] = "serving"]
        /\ pc[d] = "migrating" /\ todo[d] = {}
        /\ UNCHANGED <<schema, tables, todo>>
    BY <1>5 DEF Migrated, Goto, file
  <2>2. MigrationTypes' /\ MigratedInOrder'
    BY <2>1 DEF MigrationInv, MigrationTypes, MigratedInOrder, Labels
  <2>3. Versions \subseteq schema
    BY <2>1 DEF MigrationInv, Believed
  <2>4. Believed'
    BY <2>1, <2>3 DEF MigrationInv, MigrationTypes, Believed
  <2>5. QED
    BY <2>2, <2>4 DEF MigrationInv
<1>6. ASSUME NEW d \in Daemons, Stop(d)
      PROVE  MigrationInv'
  <2>1. /\ pc' = [pc EXCEPT ![d] = "draining"]
        /\ pc[d] = "serving"
        /\ UNCHANGED <<schema, tables, todo>>
    BY <1>6 DEF Stop, Goto, file
  <2>2. MigrationTypes' /\ MigratedInOrder'
    BY <2>1 DEF MigrationInv, MigrationTypes, MigratedInOrder, Labels
  <2>3. Believed'
    BY <2>1 DEF MigrationInv, MigrationTypes, Believed
  <2>4. QED
    BY <2>2, <2>3 DEF MigrationInv
<1>7. ASSUME NEW d \in Daemons, Close(d)
      PROVE  MigrationInv'
  BY <1>7, LeaveMigration DEF Close, file
<1>8. ASSUME NEW d \in Daemons, Crash(d)
      PROVE  MigrationInv'
  BY <1>8, LeaveMigration DEF Crash, file
<1>9. ASSUME NEW d \in Daemons, NEW limit \in Limits, Read(d, limit)
      PROVE  MigrationInv'
  BY <1>9, KeepMigration DEF Read, file
<1>10. ASSUME NEW h \in Calls, Begin(h) \/ Record(h)
       PROVE  MigrationInv'
  BY <1>10, KeepMigration DEF Begin, Record, Insert, Prune, Fails, file
<1>11. CASE UNCHANGED vars
  BY <1>11, KeepMigration DEF vars
<1>12. QED
  BY <1>1, <1>2, <1>3, <1>4, <1>5, <1>6, <1>7, <1>8, <1>9, <1>10, <1>11
  DEF Next, Migrate

LEMMA Migration == Spec => []MigrationInv
BY InitMigration, NextMigration, PTL DEF Spec

\* However many daemons boot at once on one database, and wherever they die,
\* the migrations are applied in order, each as a whole and with its row.
\* (Migrate)
THEOREM MigrationsStayInOrder == Spec => []MigratedInOrder
<1>1. MigrationInv => MigratedInOrder
  BY DEF MigrationInv
<1>2. QED
  BY <1>1, Migration, PTL

\* A daemon that serves has every table it asks for, whichever daemon has made
\* it.  (Migrate before Listen in run)
THEOREM ServingStaysMigrated == Spec => []ServingIsMigrated
<1>1. MigrationInv => ServingIsMigrated
  BY DEF MigrationInv, MigrationTypes, MigratedInOrder, Believed, ServingIsMigrated
<1>2. QED
  BY <1>1, Migration, PTL
-----------------------------------------------------------------------------
(* History                                                                  *)

\* The rows are those from low on, and the newest Keep are among them.
RowsFrom(low) ==
    /\ low \in 1 .. (last + 1)
    /\ rows = low .. last
    /\ low = 1 \/ low + Keep <= last + 1

HistoryInv ==
    /\ last \in Nat
    /\ \E low \in Nat : RowsFrom(low)

LEMMA NewestOfRun ==
    ASSUME NEW low \in Nat, NEW high \in Nat, NEW n \in Nat
    PROVE  Newest(n, low .. high) = {i \in low .. high : high - i + 1 <= n}
<1>1. ASSUME NEW i \in low .. high
      PROVE  Cardinality({j \in low .. high : j >= i}) = high - i + 1
  <2>1. {j \in low .. high : j >= i} = i .. high
    OBVIOUS
  <2>2. i \in Int /\ ~(i > high)
    OBVIOUS
  <2>3. Cardinality(i .. high) = IF i > high THEN 0 ELSE high - i + 1
    BY <2>2, FS_Interval
  <2>4. QED
    BY <2>1, <2>2, <2>3
<1>2. QED
  BY <1>1 DEF Newest

\* What is left of a run is a run, and no longer than asked for.
LEMMA NewestRun ==
    ASSUME NEW low \in Nat, NEW high \in Nat, NEW n \in Nat, low <= high + 1,
           NEW cutoff \in Nat,
           cutoff = IF low + n <= high + 1 THEN high + 1 - n ELSE low
    PROVE  /\ Newest(n, low .. high) = cutoff .. high
           /\ Cardinality(cutoff .. high) = high + 1 - cutoff
           /\ cutoff >= low /\ cutoff <= high + 1
           /\ high + 1 - cutoff <= n
<1>1. Newest(n, low .. high) = {i \in low .. high : high - i + 1 <= n}
  BY NewestOfRun
<1>2. {i \in low .. high : high - i + 1 <= n} = cutoff .. high
  OBVIOUS
<1>3. Cardinality(cutoff .. high) = IF cutoff > high THEN 0 ELSE high - cutoff + 1
  <2>1. cutoff \in Int /\ high \in Int
    OBVIOUS
  <2>2. QED
    BY <2>1, FS_Interval, Zenon
<1>4. cutoff >= low /\ cutoff <= high + 1 /\ high + 1 - cutoff <= n
  OBVIOUS
<1>5. Cardinality(cutoff .. high) = high + 1 - cutoff
  BY <1>3, <1>4
<1>6. Newest(n, low .. high) = cutoff .. high
  BY <1>1, <1>2, Zenon
<1>7. QED
  BY <1>4, <1>5, <1>6

LEMMA InitHistory == Init => HistoryInv
<1>1. ASSUME Init
      PROVE  RowsFrom(1)
  BY <1>1 DEF Init, RowsFrom
<1>2. ASSUME Init
      PROVE  last \in Nat /\ 1 \in Nat
  BY <1>2 DEF Init
<1>3. QED
  BY <1>1, <1>2 DEF HistoryInv

LEMMA NextHistory ==
    ASSUME HistoryInv, [Next]_vars
    PROVE  HistoryInv'
<1>1. PICK low \in Nat : RowsFrom(low)
  BY DEF HistoryInv
<1>2. ASSUME NEW h \in Calls, Insert(h)
      PROVE  HistoryInv'
  <2>1. last' = last + 1 /\ rows' = rows \cup {last + 1} /\ last \in Nat
    BY <1>2 DEF Insert, HistoryInv
  <2>2. RowsFrom(low)'
    BY <1>1, <2>1, StateAssumption DEF RowsFrom
  <2>3. QED
    BY <2>1, <2>2 DEF HistoryInv
<1>3. ASSUME NEW h \in Calls, Prune(h)
      PROVE  HistoryInv'
  <2>1. last' = last /\ rows' = Newest(Keep, rows) /\ last \in Nat
    BY <1>3 DEF Prune, HistoryInv
  <2> DEFINE cutoff == IF low + Keep <= last + 1 THEN last + 1 - Keep ELSE low
  <2>2. cutoff \in Nat /\ Keep \in Nat \ {0} /\ low \in 1 .. (last + 1)
    BY <1>1, <2>1, StateAssumption DEF RowsFrom
  <2>3. Newest(Keep, low .. last) = cutoff .. last
    BY <2>1, <2>2, NewestRun
  <2>4. rows' = cutoff .. last
    BY <2>1, <2>3, <1>1 DEF RowsFrom
  <2>5. RowsFrom(cutoff)'
    BY <1>1, <2>1, <2>2, <2>4 DEF RowsFrom
  <2>6. QED
    BY <2>1, <2>2, <2>5 DEF HistoryInv
<1>4. ASSUME UNCHANGED <<rows, last>>
      PROVE  HistoryInv'
  BY <1>1, <1>4 DEF HistoryInv, RowsFrom
<1>5. ASSUME NEW d \in Daemons, Migrate(d) \/ Stop(d) \/ Close(d) \/ Crash(d)
      PROVE  UNCHANGED <<rows, last>>
  BY <1>5 DEF Migrate, Open, ReadApplied, Apply, Conflict, Migrated, Stop, Close,
              Crash, file
<1>6. ASSUME NEW d \in Daemons, NEW limit \in Limits, Read(d, limit)
      PROVE  UNCHANGED <<rows, last>>
  BY <1>6 DEF Read, file
<1>7. ASSUME NEW h \in Calls, Begin(h) \/ Fails(h)
      PROVE  UNCHANGED <<rows, last>>
  BY <1>7 DEF Begin, Fails, file
<1>8. CASE UNCHANGED vars
  BY <1>8, <1>4 DEF vars
<1>9. QED
  BY <1>2, <1>3, <1>4, <1>5, <1>6, <1>7, <1>8 DEF Next, Record

LEMMA History == Spec => []HistoryInv
BY InitHistory, NextHistory, PTL DEF Spec

\* However many handlers of however many daemons add and prune at once, what is
\* pruned is older than what is kept, and never one of the newest Keep rows.
\* (RecordDiagnostic, RecordRepair)
THEOREM NewestStay == Spec => []NewestKept
<1>1. HistoryInv => NewestKept
  <2>1. SUFFICES ASSUME HistoryInv, NEW i \in 1 .. last,
                        i + Keep > last \/ \E j \in rows : j <= i
                 PROVE  i \in rows
    BY DEF NewestKept
  <2>2. PICK low \in Nat : RowsFrom(low)
    BY <2>1 DEF HistoryInv
  <2>3. last \in Nat
    BY <2>1 DEF HistoryInv
  <2>4. QED
    BY <2>1, <2>2, <2>3, StateAssumption DEF RowsFrom
<1>2. QED
  BY <1>1, History, PTL
-----------------------------------------------------------------------------
(* The bound                                                                *)

CallTypes ==
    /\ call \in [Calls -> {"none", "insert", "prune"}]
    /\ cut \in BOOLEAN

OwedInv == HistoryInv /\ CallTypes /\ IsFiniteSet(Pruners) /\ OverflowIsOwed

\* The table holds one run of numbers, so its size is known.
LEMMA RowsAreMany ==
    ASSUME HistoryInv
    PROVE  Cardinality(rows) \in Nat
<1>1. PICK low \in Nat : RowsFrom(low)
  BY DEF HistoryInv
<1>2. rows = low .. last /\ low \in Int /\ last \in Int
  BY <1>1 DEF RowsFrom, HistoryInv
<1>3. IsFiniteSet(rows)
  BY <1>2, FS_Interval
<1>4. QED
  BY <1>3, FS_CardinalityType

\* One more row makes the table larger by one at most.
LEMMA OneMoreRow ==
    ASSUME HistoryInv
    PROVE  Cardinality(rows \cup {last + 1}) = Cardinality(rows) + 1
<1>1. PICK low \in Nat : RowsFrom(low)
  BY DEF HistoryInv
<1>2. rows = low .. last /\ low \in Int /\ last \in Int
  BY <1>1 DEF RowsFrom, HistoryInv
<1>3. IsFiniteSet(rows) /\ last + 1 \notin rows
  BY <1>2, FS_Interval
<1>4. QED
  BY <1>3, FS_AddElement

\* No row is added, and whoever still has to prune has, or is cut short.
LEMMA DebtIsKept ==
    ASSUME OwedInv, rows' = rows, HistoryInv', CallTypes',
           cut => cut',
           \A h \in Calls : call'[h] = "prune" => call[h] = "prune",
           \A h \in Calls : call[h] = "prune" => cut' \/ call'[h] = "prune"
    PROVE  OwedInv'
<1>1. Pruners' \subseteq Pruners /\ IsFiniteSet(Pruners)
  BY DEF Pruners, OwedInv
<1>2. IsFiniteSet(Pruners')
  BY <1>1, FS_Subset
<1>3. ~cut' => Pruners' = Pruners
  BY DEF Pruners
<1>4. QED
  BY <1>2, <1>3, Zenon DEF OwedInv, OverflowIsOwed

LEMMA NextOwed ==
    ASSUME OwedInv, [Next]_vars
    PROVE  OwedInv'
<1>1. HistoryInv'
  BY NextHistory DEF OwedInv
<1>2. ASSUME NEW h \in Calls, Insert(h)
      PROVE  OwedInv'
  <2>1. call' = [call EXCEPT ![h] = "prune"] /\ cut' = cut
        /\ rows' = rows \cup {last + 1} /\ call[h] = "insert"
    BY <1>2 DEF Insert
  <2>2. CallTypes'
    BY <2>1 DEF OwedInv, CallTypes
  <2>3. Pruners' = Pruners \cup {h} /\ h \notin Pruners
    BY <2>1 DEF OwedInv, CallTypes, Pruners
  <2>4. IsFiniteSet(Pruners') /\ Cardinality(Pruners') = Cardinality(Pruners) + 1
    BY <2>3, FS_AddElement, Zenon DEF OwedInv
  <2>5. Cardinality(rows') = Cardinality(rows) + 1
    BY <2>1, OneMoreRow, Zenon DEF OwedInv
  <2>6. Cardinality(rows) \in Nat /\ Cardinality(Pruners) \in Nat /\ Keep \in Nat
    BY RowsAreMany, FS_CardinalityType, StateAssumption DEF OwedInv
  <2>7. Cardinality(rows) <= Keep + Cardinality(Pruners)
            => Cardinality(rows') <= Keep + Cardinality(Pruners')
    BY <2>4, <2>5, <2>6
  <2>8. OverflowIsOwed'
    BY <2>1, <2>7, Zenon DEF OwedInv, OverflowIsOwed
  <2>9. QED
    BY <1>1, <2>2, <2>4, <2>8, Zenon DEF OwedInv
<1>3. ASSUME NEW h \in Calls, Prune(h)
      PROVE  OwedInv'
  <2>1. /\ call' = [call EXCEPT ![h] = "none"]
        /\ cut' = FALSE
        /\ rows' = Newest(Keep, rows)
    BY <1>3 DEF Prune
  <2>2. CallTypes' /\ Pruners' \subseteq Pruners /\ IsFiniteSet(Pruners)
    BY <2>1 DEF OwedInv, CallTypes, Pruners
  <2>3. PICK low \in Nat : RowsFrom(low)
    BY DEF OwedInv, HistoryInv
  <2> DEFINE cutoff == IF low + Keep <= last + 1 THEN last + 1 - Keep ELSE low
  <2>4. /\ cutoff \in Nat /\ Keep \in Nat /\ last \in Nat
        /\ rows = low .. last /\ low <= last + 1
    BY <2>3, StateAssumption DEF OwedInv, HistoryInv, RowsFrom
  <2>5. /\ Newest(Keep, low .. last) = cutoff .. last
        /\ Cardinality(cutoff .. last) = last + 1 - cutoff
        /\ last + 1 - cutoff <= Keep
    BY <2>4, NewestRun
  <2> HIDE DEF cutoff
  <2>6. rows' = cutoff .. last
    BY <2>1, <2>4, <2>5, Zenon
  <2>7. Cardinality(rows') = last + 1 - cutoff
    BY <2>5, <2>6, Zenon
  <2>8. IsFiniteSet(Pruners') /\ Cardinality(Pruners') \in Nat
    BY <2>2, FS_Subset, FS_CardinalityType
  <2>9. Cardinality(rows') <= Keep + Cardinality(Pruners')
    BY <2>4, <2>5, <2>7, <2>8
  <2>10. QED
    BY <1>1, <2>2, <2>8, <2>9, Zenon DEF OwedInv, OverflowIsOwed
<1>4. ASSUME NEW h \in Calls, Fails(h)
      PROVE  OwedInv'
  <2>1. /\ call' = [call EXCEPT ![h] = "none"]
        /\ cut' = (cut \/ call[h] = "prune")
        /\ rows' = rows
    BY <1>4 DEF Fails, file
  <2>2. CallTypes'
    BY <2>1 DEF OwedInv, CallTypes
  <2>3. \A g \in Calls : /\ call[g] = "prune" => cut' \/ call'[g] = "prune"
                         /\ call'[g] = "prune" => call[g] = "prune"
    BY <2>1 DEF OwedInv, CallTypes
  <2>4. QED
    BY <1>1, <2>1, <2>2, <2>3, DebtIsKept
<1>5. ASSUME NEW d \in Daemons, Crash(d)
      PROVE  OwedInv'
  <2>1. /\ call' = [h \in Calls |-> IF h[1] = d THEN "none" ELSE call[h]]
        /\ cut' = (cut \/ \E h \in Calls : h[1] = d /\ call[h] = "prune")
        /\ rows' = rows
    BY <1>5 DEF Crash, file
  <2>2. CallTypes'
    BY <2>1 DEF OwedInv, CallTypes
  <2>3. \A g \in Calls : /\ call[g] = "prune" => cut' \/ call'[g] = "prune"
                         /\ call'[g] = "prune" => call[g] = "prune"
    BY <2>1 DEF OwedInv, CallTypes
  <2>4. QED
    BY <1>1, <2>1, <2>2, <2>3, DebtIsKept
<1>6. ASSUME NEW h \in Calls, Begin(h)
      PROVE  OwedInv'
  <2>1. /\ call[h] = "none"
        /\ call' = [call EXCEPT ![h] = "insert"]
        /\ cut' = cut /\ rows' = rows
    BY <1>6 DEF Begin, file
  <2>2. CallTypes'
    BY <2>1 DEF OwedInv, CallTypes
  <2>3. \A g \in Calls : /\ call[g] = "prune" => cut' \/ call'[g] = "prune"
                         /\ call'[g] = "prune" => call[g] = "prune"
    BY <2>1 DEF OwedInv, CallTypes
  <2>4. QED
    BY <1>1, <2>1, <2>2, <2>3, DebtIsKept
<1>7. ASSUME UNCHANGED <<rows, call, cut>>
      PROVE  OwedInv'
  BY <1>1, <1>7 DEF OwedInv, OverflowIsOwed, CallTypes, Pruners
<1>8. ASSUME NEW d \in Daemons, Migrate(d) \/ Stop(d) \/ Close(d)
      PROVE  UNCHANGED <<rows, call, cut>>
  BY <1>8 DEF Migrate, Open, ReadApplied, Apply, Conflict, Migrated, Stop, Close, file
<1>9. ASSUME NEW d \in Daemons, NEW limit \in Limits, Read(d, limit)
      PROVE  UNCHANGED <<rows, call, cut>>
  BY <1>9 DEF Read, file
<1>10. CASE UNCHANGED vars
  BY <1>10, <1>7 DEF vars
<1>11. QED
  BY <1>2, <1>3, <1>4, <1>5, <1>6, <1>7, <1>8, <1>9, <1>10 DEF Next, Record

\* The table is over its bound by no more rows than handlers have still to prune,
\* but after a prune was cut short, until the next one completes: the one way
\* in which two statements without a transaction can leave it.
\* (RecordDiagnostic, RecordRepair)
THEOREM OverflowStaysOwed == Spec => []OverflowIsOwed
<1>1. Init => OwedInv
  <2>1. SUFFICES ASSUME Init PROVE OwedInv
    OBVIOUS
  <2>2. HistoryInv /\ CallTypes
    BY <2>1, InitHistory DEF Init, CallTypes
  <2>3. rows = {} /\ Cardinality({}) = 0 /\ Keep \in Nat /\ Pruners = {}
        /\ IsFiniteSet({})
    BY <2>1, FS_EmptySet, StateAssumption DEF Init, Pruners
  <2>4. Cardinality(rows) <= Keep + Cardinality(Pruners)
    BY <2>3
  <2>5. QED
    BY <2>2, <2>3, <2>4 DEF OwedInv, OverflowIsOwed
<1>2. OwedInv => OverflowIsOwed
  BY DEF OwedInv
<1>3. QED
  BY <1>1, <1>2, NextOwed, PTL DEF Spec

-----------------------------------------------------------------------------
(* Readers                                                                  *)

LEMMA ReadsRun ==
    ASSUME HistoryInv, NEW d \in Daemons, NEW limit \in Limits, Read(d, limit),
           NEW low \in Nat, RowsFrom(low),
           NEW cutoff,
           cutoff = IF low + Clamp(limit) <= last + 1
                    THEN last + 1 - Clamp(limit) ELSE low
    PROVE  /\ cutoff \in Nat /\ last \in Nat /\ cutoff <= last + 1
           /\ shown' = cutoff .. last
           /\ Cardinality(shown') = last + 1 - cutoff
           /\ last + 1 - cutoff <= Clamp(limit)
           /\ last >= 1 => cutoff <= last
           /\ cutoff >= 1
           /\ \/ cutoff = low /\ Cardinality(rows) = last + 1 - cutoff
              \/ last + 1 - cutoff = Clamp(limit)
<1>1. Clamp(limit) \in Nat \ {0}
  BY StateAssumption DEF Clamp
<1>2. /\ last \in Nat /\ rows = low .. last /\ low <= last + 1 /\ low >= 1
      /\ low = 1 \/ low + Keep <= last + 1
      /\ Keep \in Nat \ {0}
  BY StateAssumption DEF HistoryInv, RowsFrom
<1>3. cutoff \in Nat
  BY <1>1, <1>2
<1>4. /\ Newest(Clamp(limit), low .. last) = cutoff .. last
      /\ Cardinality(cutoff .. last) = last + 1 - cutoff
      /\ cutoff >= low /\ cutoff <= last + 1
      /\ last + 1 - cutoff <= Clamp(limit)
  <2>1. low \in Nat /\ last \in Nat /\ Clamp(limit) \in Nat /\ low <= last + 1
    BY <1>1, <1>2
  <2>2. PICK m \in Nat : m = Clamp(limit)
    BY <2>1
  <2>3. cutoff = IF low + m <= last + 1 THEN last + 1 - m ELSE low
    BY <2>2
  <2>4. /\ Newest(m, low .. last) = cutoff .. last
        /\ Cardinality(cutoff .. last) = last + 1 - cutoff
        /\ cutoff >= low /\ cutoff <= last + 1
        /\ last + 1 - cutoff <= m
    BY <2>1, <2>3, <1>3, NewestRun
  <2>5. QED
    BY <2>2, <2>4
<1>5. shown' = cutoff .. last
  BY <1>2, <1>4, Zenon DEF Read
<1>6. Cardinality(shown') = last + 1 - cutoff
  BY <1>4, <1>5, Zenon
<1>7. last >= 1 => cutoff <= last
  BY <1>1, <1>2
<1>8. cutoff >= 1
  BY <1>2, <1>3, <1>4
<1>9. CASE low + Clamp(limit) <= last + 1
  <2>1. last + 1 - cutoff = Clamp(limit)
    BY <1>9, <1>1, <1>2
  <2>2. QED
    BY <2>1, <1>2, <1>3, <1>4, <1>5, <1>6, <1>7, <1>8
<1>10. CASE ~(low + Clamp(limit) <= last + 1)
  <2>1. cutoff = low
    BY <1>10
  <2>2. Cardinality(rows) = last + 1 - cutoff
    BY <2>1, <1>2, <1>4, Zenon
  <2>3. QED
    BY <2>1, <2>2, <1>2, <1>3, <1>4, <1>5, <1>6, <1>7, <1>8
<1>11. QED
  BY <1>9, <1>10

\* A reader gets the newest rows without a gap, as many as it asks for or there
\* are, and never more than MaxLimit.  (RecentDiagnostics, RecentRepairs,
\* clampLimit)
THEOREM ReadsStayNewest == Spec => ReadsAreNewest
<1> DEFINE Answer(limit) ==
        LET n == Cardinality(shown')
        IN  /\ shown' = (last - n + 1) .. last
            /\ n <= MaxLimit
            /\ limit <= 0 => n <= DefaultLimit
            /\ limit > 0 => n <= limit
            /\ \/ n \in {Cardinality(rows), DefaultLimit, MaxLimit}
               \/ limit > 0 /\ n = limit
<1>1. ASSUME HistoryInv, NEW d \in Daemons, NEW limit \in Limits, Read(d, limit)
      PROVE  Answer(limit)
  <2>1. PICK low \in Nat : RowsFrom(low)
    BY <1>1 DEF HistoryInv
  <2>2. PICK cutoff : cutoff = IF low + Clamp(limit) <= last + 1
                               THEN last + 1 - Clamp(limit) ELSE low
    OBVIOUS
  <2>3. /\ cutoff \in Nat /\ last \in Nat /\ cutoff <= last + 1
        /\ shown' = cutoff .. last
        /\ Cardinality(shown') = last + 1 - cutoff
        /\ last + 1 - cutoff <= Clamp(limit)
        /\ \/ Cardinality(rows) = last + 1 - cutoff
           \/ last + 1 - cutoff = Clamp(limit)
    BY <1>1, <2>1, <2>2, ReadsRun
  <2>4. PICK n : n = Cardinality(shown')
    OBVIOUS
  <2>5. n \in Int /\ cutoff = last - n + 1 /\ n <= Clamp(limit)
    BY <2>3, <2>4, StateAssumption DEF Clamp
  <2>6. /\ n <= MaxLimit
        /\ limit <= 0 => n <= DefaultLimit
        /\ limit > 0 => n <= limit
    BY <2>5, StateAssumption DEF Clamp
  <2>7. n = Cardinality(rows) \/ n = Clamp(limit)
    BY <2>3, <2>4, Zenon
  <2>8. Clamp(limit) \in {DefaultLimit, MaxLimit} \/ (limit > 0 /\ Clamp(limit) = limit)
    BY StateAssumption DEF Clamp
  <2>9. \/ n \in {Cardinality(rows), DefaultLimit, MaxLimit}
        \/ limit > 0 /\ n = limit
    BY <2>7, <2>8
  <2>10. shown' = (last - n + 1) .. last
    BY <2>3, <2>5, Zenon
  <2>11. QED
    BY <2>4, <2>6, <2>9, <2>10, Zenon
<1>2. HistoryInv /\ [Next]_vars
        => [\A d \in Daemons, limit \in Limits : Read(d, limit) => Answer(limit)]_vars
  BY <1>1
<1>3. QED
  BY <1>2, History, PTL DEF Spec, ReadsAreNewest

ShownInv == HistoryInv /\ shown \subseteq 1 .. last

\* Who has seen a row is never shown older rows only, whichever daemon answers,
\* and whatever has crashed or been pruned since.  (RecentDiagnostics,
\* RecentRepairs, AUTOINCREMENT in 0002_history)
THEOREM HistoryNeverGoesBack == Spec => HistoryAdvances
<1> DEFINE Advances == \A i \in shown : \E j \in shown' : j >= i
<1>1. ASSUME ShownInv, NEW d \in Daemons, NEW limit \in Limits, Read(d, limit)
      PROVE  ShownInv' /\ Advances
  <2>1. HistoryInv
    BY <1>1 DEF ShownInv
  <2>2. PICK low \in Nat : RowsFrom(low)
    BY <2>1 DEF HistoryInv
  <2>3. PICK cutoff : cutoff = IF low + Clamp(limit) <= last + 1
                               THEN last + 1 - Clamp(limit) ELSE low
    OBVIOUS
  <2>4. /\ cutoff \in Nat /\ last \in Nat /\ cutoff >= 1
        /\ shown' = cutoff .. last
        /\ last >= 1 => cutoff <= last
    BY <1>1, <2>1, <2>2, <2>3, ReadsRun
  <2>5. last' = last /\ rows' = rows
    BY <1>1 DEF Read, file
  <2>6. HistoryInv'
    BY <2>1, <2>5 DEF HistoryInv, RowsFrom
  <2>7. shown' \subseteq 1 .. last'
    BY <2>4, <2>5
  <2>8. ASSUME NEW i \in shown
        PROVE  \E j \in shown' : j >= i
    <3>1. i \in 1 .. last
      BY <1>1, <2>8 DEF ShownInv
    <3>2. last \in shown' /\ last >= i
      BY <2>4, <3>1
    <3>3. QED
      BY <3>2
  <2>9. QED
    BY <2>6, <2>7, <2>8 DEF ShownInv
<1>2. ASSUME ShownInv, [Next]_vars, shown' = shown
      PROVE  ShownInv'
  <2>1. HistoryInv' /\ last \in Nat
    BY <1>2, NextHistory DEF ShownInv, HistoryInv
  <2>2. last' = last \/ last' = last + 1
    BY <1>2 DEF Next, vars, Migrate, Open, ReadApplied, Apply, Conflict, Migrated,
                Stop, Close, Crash, Read, Begin, Record, Insert, Prune, Fails, file
  <2>3. QED
    BY <1>2, <2>1, <2>2 DEF ShownInv
<1>3. ASSUME [Next]_vars
      PROVE  \/ shown' = shown
             \/ \E d \in Daemons, limit \in Limits : Read(d, limit)
  BY <1>3 DEF Next, vars, Migrate, Open, ReadApplied, Apply, Conflict, Migrated,
              Stop, Close, Crash, Begin, Record, Insert, Prune, Fails, file
<1>4. Init => ShownInv
  BY InitHistory DEF ShownInv, Init
<1>5. ShownInv /\ [Next]_vars => ShownInv'
  BY <1>1, <1>2, <1>3
<1>6. ShownInv /\ [Next]_vars => [shown' # shown => Advances]_vars
  BY <1>1, <1>3
<1>7. QED
  BY <1>4, <1>5, <1>6, PTL DEF Spec, HistoryAdvances

-----------------------------------------------------------------------------
(* Whoever migrates last, and the types                                     *)

\* Somebody is on the way to the last version: as far as that process has come
\* the file has come, so nobody's row stands in its way.
Leads(e) == pc[e] = "migrating" /\ todo[e] = Versions \ schema

\* The process that has applied the newest version leads, unless there is
\* nothing more to apply.
LeaderInv ==
    /\ MigrationInv
    /\ ~mishap /\ schema # {} => schema = Versions \/ \E e \in Daemons : Leads(e)
    /\ (\E d \in Daemons : pc[d] = "failed") => schema # {}

\* A step of a process that does not lead, or need not, and adds no version.
LEMMA OthersKeepLeader ==
    ASSUME LeaderInv, MigrationInv', schema' = schema, mishap => mishap',
           NEW d \in Daemons,
           \A e \in Daemons : e # d => pc'[e] = pc[e] /\ todo'[e] = todo[e],
           schema = Versions \/ ~Leads(d) \/ mishap',
           pc'[d] = "failed" => schema # {}
    PROVE  LeaderInv'
<1>1. ASSUME ~mishap', schema # {}
      PROVE  schema = Versions \/ \E e \in Daemons : Leads(e)'
  <2>1. SUFFICES ASSUME schema # Versions
                 PROVE  \E e \in Daemons : Leads(e)'
    OBVIOUS
  <2>2. PICK e \in Daemons : Leads(e)
    BY <1>1, <2>1 DEF LeaderInv
  <2>3. e # d
    BY <1>1, <2>1, <2>2
  <2>4. QED
    BY <2>2, <2>3 DEF Leads
<1>2. ASSUME NEW e \in Daemons, pc'[e] = "failed"
      PROVE  schema # {}
  BY <1>2 DEF LeaderInv
<1>3. QED
  BY <1>1, <1>2 DEF LeaderInv

\* Who applies a version leads from then on: what it has found missing is
\* beyond the version, and of that nothing is there.
LEMMA ApplyLeads ==
    ASSUME LeaderInv, NEW d \in Daemons, Apply(d)
    PROVE  LeaderInv'
<1>1. PICK v \in Versions \ schema :
        /\ IsNext(d, v)
        /\ schema' = schema \cup {v}
        /\ todo' = [todo EXCEPT ![d] = @ \ {v}]
  BY DEF Apply
<1>2. MigrationInv'
  BY ApplyMigration DEF LeaderInv
<1>3. /\ pc[d] = "migrating" /\ pc' = pc
      /\ todo \in [Daemons -> SUBSET Versions]
      /\ Versions \ todo[d] \subseteq schema
      /\ \A w \in schema : \A u \in 1 .. w : u \in schema
  BY DEF Apply, LeaderInv, MigrationInv, MigrationTypes, MigratedInOrder, Believed
<1>4. ASSUME NEW w \in todo[d]
      PROVE  w \notin schema
  <2>1. w \in Versions /\ v \in Versions /\ v <= w
    BY <1>1, <1>3, <1>4 DEF IsNext
  <2>2. v \in 1 .. w
    BY <2>1, StateAssumption DEF Versions
  <2>3. QED
    BY <2>2, <1>1, <1>3
<1>5. todo'[d] = Versions \ schema'
  <2>1. todo'[d] = todo[d] \ {v} /\ todo[d] \subseteq Versions
    BY <1>1, <1>3
  <2>2. QED
    BY <2>1, <1>1, <1>3, <1>4
<1>6. Leads(d)'
  BY <1>3, <1>5 DEF Leads
<1>7. schema' # {}
  BY <1>1
<1>8. QED
  BY <1>2, <1>6, <1>7 DEF LeaderInv

LEMMA NextLeader ==
    ASSUME LeaderInv, [Next]_vars
    PROVE  LeaderInv'
<1> USE DEF MigrationTypes
<1>1. MigrationInv /\ MigrationInv'
  BY NextMigration DEF LeaderInv
<1>2. pc \in [Daemons -> Labels] /\ todo \in [Daemons -> SUBSET Versions]
  BY <1>1 DEF MigrationInv
<1>3. ASSUME NEW d \in Daemons, Open(d) \/ ReadApplied(d) \/ Stop(d) \/ Close(d)
      PROVE  LeaderInv'
  <2>1. /\ pc[d] # "migrating" /\ pc'[d] # "failed"
        /\ UNCHANGED <<schema, mishap>>
    BY <1>2, <1>3 DEF Open, ReadApplied, Stop, Close, Goto, file
  <2>2. \A e \in Daemons : e # d => pc'[e] = pc[e] /\ todo'[e] = todo[e]
    BY <1>2, <1>3 DEF Open, ReadApplied, Stop, Close, Goto, file
  <2>3. QED
    BY <1>1, <2>1, <2>2, OthersKeepLeader DEF Leads
<1>4. ASSUME NEW d \in Daemons, Apply(d)
      PROVE  LeaderInv'
  BY <1>4, ApplyLeads
<1>5. ASSUME NEW d \in Daemons, Conflict(d)
      PROVE  LeaderInv'
  <2>1. PICK v \in schema : v \in todo[d]
    BY <1>5 DEF Conflict, IsNext
  <2>2. ~Leads(d)
    BY <2>1 DEF Leads
  <2>3. UNCHANGED <<schema, mishap>>
    BY <1>5 DEF Conflict, file
  <2>4. \A e \in Daemons : e # d => pc'[e] = pc[e] /\ todo'[e] = todo[e]
    BY <1>2, <1>5 DEF Conflict, Goto
  <2>5. schema # {}
    BY <2>1
  <2>6. QED
    BY <1>1, <2>2, <2>3, <2>4, <2>5, OthersKeepLeader
<1>6. ASSUME NEW d \in Daemons, Migrated(d)
      PROVE  LeaderInv'
  <2>1. schema = Versions
    BY <1>1, <1>6 DEF Migrated, MigrationInv, Believed
  <2>2. pc'[d] # "failed" /\ UNCHANGED <<schema, mishap>>
    BY <1>2, <1>6 DEF Migrated, Goto, file
  <2>3. \A e \in Daemons : e # d => pc'[e] = pc[e] /\ todo'[e] = todo[e]
    BY <1>2, <1>6 DEF Migrated, Goto
  <2>4. QED
    BY <1>1, <2>1, <2>2, <2>3, OthersKeepLeader
<1>7. ASSUME NEW d \in Daemons, Crash(d)
      PROVE  LeaderInv'
  <2>1. /\ schema' = schema
        /\ mishap' = (mishap \/ pc[d] \in {"open", "migrating"})
    BY <1>7 DEF Crash, file
  <2>2. pc'[d] # "failed"
    BY <1>2, <1>7 DEF Crash, Goto
  <2>3. \A e \in Daemons : e # d => pc'[e] = pc[e] /\ todo'[e] = todo[e]
    BY <1>2, <1>7 DEF Crash, Goto
  <2>4. ~Leads(d) \/ mishap'
    BY <2>1 DEF Leads
  <2>5. mishap => mishap'
    BY <2>1
  <2>6. QED
    BY <1>1, <2>1, <2>2, <2>3, <2>4, <2>5, OthersKeepLeader
<1>8. ASSUME UNCHANGED <<schema, pc, todo, mishap>>
      PROVE  LeaderInv'
  BY <1>1, <1>8 DEF LeaderInv, Leads
<1>9. ASSUME NEW d \in Daemons, NEW limit \in Limits, Read(d, limit)
      PROVE  LeaderInv'
  BY <1>8, <1>9 DEF Read, file
<1>10. ASSUME NEW h \in Calls, Begin(h) \/ Record(h)
       PROVE  LeaderInv'
  BY <1>8, <1>10 DEF Begin, Record, Insert, Prune, Fails, file
<1>11. CASE UNCHANGED vars
  BY <1>8, <1>11 DEF vars
<1>12. QED
  BY <1>3, <1>4, <1>5, <1>6, <1>7, <1>9, <1>10, <1>11 DEF Next, Migrate

\* Processes that stand in each other's way never leave the file half migrated:
\* of those that fail for a row that is there already, each has been overtaken
\* by one that goes on.  (the failing insertion in Migrate)
THEOREM SomeoneGetsThrough == Spec => []SomeoneMigrates
<1>1. Init => LeaderInv
  BY InitMigration DEF Init, LeaderInv
<1>2. LeaderInv => SomeoneMigrates
  <2>1. SUFFICES ASSUME LeaderInv, ~mishap,
                        "failed" \in {pc[d] : d \in Daemons},
                        \A d \in Daemons : pc[d] \in {"down", "failed"}
                 PROVE  schema = Versions
    BY DEF SomeoneMigrates
  <2>2. schema # {}
    BY <2>1 DEF LeaderInv
  <2>3. \A e \in Daemons : ~Leads(e)
    BY <2>1 DEF Leads
  <2>4. QED
    BY <2>1, <2>2, <2>3 DEF LeaderInv
<1>3. QED
  BY <1>1, <1>2, NextLeader, PTL DEF Spec

LEMMA InitTypeOK == Init => TypeOK
<1> SUFFICES ASSUME Init PROVE TypeOK
  OBVIOUS
<1>1. /\ schema \subseteq Versions /\ tables \subseteq Versions
      /\ last \in 0 .. MaxRows /\ rows \subseteq 1 .. last
      /\ shown \subseteq 1 .. MaxRows
  BY StateAssumption DEF Init
<1>2. /\ pc \in [Daemons -> Labels]
      /\ todo \in [Daemons -> SUBSET Versions]
      /\ call \in [Calls -> {"none", "insert", "prune"}]
  BY DEF Init, Labels
<1>3. /\ \A d \in Daemons : todo[d] = {}
      /\ \A h \in Calls : call[h] = "none"
      /\ mishap = FALSE /\ cut = FALSE
  BY DEF Init
<1>4. QED
  BY <1>1, <1>2, <1>3 DEF TypeOK

LEMMA NextTypeOK ==
    ASSUME TypeOK, [Next]_vars
    PROVE  TypeOK'
<1> DEFINE Placed == /\ pc \in [Daemons -> Labels]
                     /\ todo \in [Daemons -> SUBSET Versions]
                     /\ call \in [Calls -> {"none", "insert", "prune"}]
                     /\ \A d \in Daemons : todo[d] # {} => pc[d] = "migrating"
                     /\ \A h \in Calls : call[h] # "none" =>
                            pc[h[1]] \in {"serving", "draining"}
           Stored == /\ schema \subseteq Versions /\ tables \subseteq Versions
                     /\ last \in 0 .. MaxRows /\ rows \subseteq 1 .. last
                     /\ shown \subseteq 1 .. MaxRows
                     /\ mishap \in BOOLEAN /\ cut \in BOOLEAN
<1>1. Placed /\ Stored
  BY DEF TypeOK
<1>2. Placed' /\ Stored' => TypeOK'
  BY DEF TypeOK
<1>3. \A h \in Calls : h[1] \in Daemons
  BY DEF Calls
<1>4. ASSUME NEW n, NEW S
      PROVE  Newest(n, S) \subseteq S
  BY DEF Newest
<1>5. ASSUME UNCHANGED <<pc, todo, call>>
      PROVE  Placed'
  BY <1>1, <1>5
<1>6. ASSUME UNCHANGED <<schema, tables, last, rows, shown, mishap, cut>>
      PROVE  Stored'
  BY <1>1, <1>6
<1>7. ASSUME NEW d \in Daemons, Migrate(d) \/ Stop(d) \/ Close(d)
      PROVE  TypeOK'
  <2>1. CASE Open(d)
    <3>1. Placed'
      BY <1>1, <1>3, <2>1 DEF Open, Goto, Labels
    <3>2. QED
      BY <1>2, <1>6, <2>1, <3>1 DEF Open, file
  <2>2. CASE ReadApplied(d)
    <3>1. Placed'
      BY <1>1, <1>3, <2>2 DEF ReadApplied, Goto, Labels
    <3>2. QED
      BY <1>2, <1>6, <2>2, <3>1 DEF ReadApplied, file
  <2>3. CASE Apply(d)
    <3>1. pc[d] = "migrating" /\ pc' = pc /\ call' = call
      BY <2>3 DEF Apply
    <3>2. PICK v \in Versions : /\ todo' = [todo EXCEPT ![d] = @ \ {v}]
                                /\ schema' = schema \cup {v}
                                /\ tables' = tables \cup {v}
      BY <2>3 DEF Apply
    <3>3. Placed'
      BY <1>1, <3>1, <3>2
    <3>4. UNCHANGED <<last, rows, shown, mishap, cut>>
      BY <2>3 DEF Apply
    <3>5. Stored'
      BY <1>1, <3>2, <3>4
    <3>6. QED
      BY <1>2, <3>3, <3>5
  <2>4. CASE Conflict(d)
    <3>1. Placed'
      BY <1>1, <1>3, <2>4 DEF Conflict, Goto, Labels
    <3>2. QED
      BY <1>2, <1>6, <2>4, <3>1 DEF Conflict, file
  <2>5. CASE Migrated(d)
    <3>1. Placed'
      BY <1>1, <1>3, <2>5 DEF Migrated, Goto, Labels
    <3>2. QED
      BY <1>2, <1>6, <2>5, <3>1 DEF Migrated, file
  <2>6. CASE Stop(d)
    <3>1. Placed'
      BY <1>1, <1>3, <2>6 DEF Stop, Goto, Labels
    <3>2. QED
      BY <1>2, <1>6, <2>6, <3>1 DEF Stop, file
  <2>7. CASE Close(d)
    <3>1. Placed'
      BY <1>1, <1>3, <2>7 DEF Close, Goto, Labels
    <3>2. QED
      BY <1>2, <1>6, <2>7, <3>1 DEF Close, file
  <2>8. QED
    BY <1>7, <2>1, <2>2, <2>3, <2>4, <2>5, <2>6, <2>7 DEF Migrate
<1>8. ASSUME NEW d \in Daemons, Crash(d)
      PROVE  TypeOK'
  <2>1. Placed'
    BY <1>1, <1>3, <1>8 DEF Crash, Goto, Labels
  <2>2. mishap' \in BOOLEAN
    BY <1>1, <1>8 DEF Crash
  <2>3. cut' \in BOOLEAN
    BY <1>1, <1>8 DEF Crash
  <2>4. UNCHANGED <<schema, tables, last, rows, shown>>
    BY <1>8 DEF Crash, file
  <2>5. QED
    BY <1>1, <1>2, <2>1, <2>2, <2>3, <2>4
<1>9. ASSUME NEW d \in Daemons, NEW limit \in Limits, Read(d, limit)
      PROVE  TypeOK'
  <2>1. shown' = Newest(Clamp(limit), rows)
    BY <1>9 DEF Read
  <2>2. shown' \subseteq rows
    BY <2>1, <1>4
  <2>3. UNCHANGED <<schema, tables, last, rows, mishap, cut>>
    BY <1>9 DEF Read, file
  <2>4. Stored'
    BY <1>1, <2>2, <2>3, StateAssumption
  <2>5. QED
    BY <1>2, <1>5, <1>9, <2>4 DEF Read
<1>10. ASSUME NEW h \in Calls, Begin(h)
       PROVE  TypeOK'
  <2>1. Placed'
    BY <1>1, <1>10 DEF Begin
  <2>2. QED
    BY <1>2, <1>6, <1>10, <2>1 DEF Begin, file
<1>11. ASSUME NEW h \in Calls, Insert(h)
       PROVE  TypeOK'
  <2>1. Placed'
    BY <1>1, <1>11 DEF Insert
  <2>2. Stored'
    BY <1>1, <1>11, StateAssumption DEF Insert
  <2>3. QED
    BY <1>2, <2>1, <2>2
<1>12. ASSUME NEW h \in Calls, Prune(h)
       PROVE  TypeOK'
  <2>1. Placed'
    BY <1>1, <1>12 DEF Prune
  <2>2. rows' \subseteq rows
    BY <1>4, <1>12 DEF Prune
  <2>3. UNCHANGED <<schema, tables, last, shown, mishap>> /\ cut' = FALSE
    BY <1>12 DEF Prune
  <2>4. QED
    BY <1>1, <1>2, <2>1, <2>2, <2>3
<1>13. ASSUME NEW h \in Calls, Fails(h)
       PROVE  TypeOK'
  <2>1. Placed'
    BY <1>1, <1>13 DEF Fails
  <2>2. UNCHANGED <<schema, tables, last, rows, shown, mishap>>
    BY <1>13 DEF Fails, file
  <2>3. cut' \in BOOLEAN
    BY <1>1, <1>13 DEF Fails
  <2>4. QED
    BY <1>1, <1>2, <2>1, <2>2, <2>3
<1>14. CASE UNCHANGED vars
  BY <1>2, <1>5, <1>6, <1>14 DEF vars
<1>15. QED
  BY <1>7, <1>8, <1>9, <1>10, <1>11, <1>12, <1>13, <1>14 DEF Next, Record

\* Every variable keeps its type; only a process that migrates has migrations
\* left, and only one that serves or drains has handlers, which is what the
\* order of run and the wait in stop come to.  (run, GracefulStop, db.Close)
THEOREM TypeCorrect == Spec => []TypeOK
BY InitTypeOK, NextTypeOK, PTL DEF Spec

-----------------------------------------------------------------------------
(* The database as its users see it                                         *)

DatabaseInv == TypeOK /\ MigrationInv /\ HistoryInv

\* What serves has the last version.
LEMMA ServingVersion ==
    ASSUME DatabaseInv, NEW d \in Daemons, pc[d] \in {"serving", "draining"}
    PROVE  Cardinality(schema) = MaxVersion
<1>1. schema = 1 .. MaxVersion /\ MaxVersion \in Nat
  BY StateAssumption DEF DatabaseInv, MigrationInv, MigrationTypes, Believed, Versions
<1>2. 1 \in Int /\ MaxVersion \in Int
  BY <1>1
<1>3. Cardinality(1 .. MaxVersion) = IF 1 > MaxVersion THEN 0 ELSE MaxVersion - 1 + 1
  BY <1>2, FS_Interval
<1>4. QED
  BY <1>1, <1>3

\* One more version is one of those that are left.
LEMMA ApplyCounts ==
    ASSUME DatabaseInv, NEW d \in Daemons, Apply(d)
    PROVE  /\ Cardinality(schema) \in Nat /\ Cardinality(schema) < MaxVersion
           /\ Cardinality(schema') = Cardinality(schema) + 1
<1>1. PICK v \in Versions \ schema : schema' = schema \cup {v}
  BY DEF Apply
<1>2. MaxVersion \in Nat /\ schema \subseteq Versions /\ schema' \subseteq Versions
      /\ v \notin schema
  BY <1>1, StateAssumption DEF DatabaseInv, TypeOK
<1>3. IsFiniteSet(Versions) /\ Cardinality(Versions) = MaxVersion
  <2>1. 1 \in Int /\ MaxVersion \in Int
    BY <1>2
  <2>2. IsFiniteSet(1 .. MaxVersion)
        /\ Cardinality(1 .. MaxVersion) = IF 1 > MaxVersion THEN 0 ELSE MaxVersion - 1 + 1
    BY <2>1, FS_Interval
  <2>3. QED
    BY <1>2, <2>2 DEF Versions
<1>4. IsFiniteSet(schema) /\ Cardinality(schema) \in Nat
      /\ Cardinality(schema') <= Cardinality(Versions)
  BY <1>2, <1>3, FS_Subset, FS_CardinalityType
<1>5. Cardinality(schema') = Cardinality(schema) + 1
  BY <1>1, <1>2, <1>4, FS_AddElement
<1>6. QED
  BY <1>2, <1>3, <1>4, <1>5

\* The history of the users is the run of rows.
LEMMA FirstIsLow ==
    ASSUME last \in Nat, NEW low \in Nat, RowsFrom(low)
    PROVE  last + 1 - Cardinality(rows) = low
<1>1. rows = low .. last /\ low \in Int /\ last \in Int /\ low <= last + 1
  BY DEF RowsFrom
<1>2. Cardinality(low .. last) = IF low > last THEN 0 ELSE last - low + 1
  BY <1>1, FS_Interval
<1>3. QED
  BY <1>1, <1>2

\* A step of a process that does not touch the file, nor reads it, is none.
LEMMA NextImplements ==
    ASSUME DatabaseInv, [Next]_vars
    PROVE  [Store!Next]_(Store!vars)
<1> DEFINE first == last + 1 - Cardinality(rows)
           version == Cardinality(schema)
<1>0. PICK low \in Nat : RowsFrom(low)
  BY DEF DatabaseInv, HistoryInv
<1>a. last \in Nat /\ first = low /\ rows = low .. last /\ low \in 1 .. (last + 1)
      /\ Keep \in Nat \ {0}
  BY <1>0, FirstIsLow, StateAssumption DEF DatabaseInv, HistoryInv, RowsFrom
<1>1. ASSUME NEW d \in Daemons, Apply(d)
      PROVE  Store!Upgrade
  <2>1. version < MaxVersion /\ version' = version + 1
    BY <1>1, ApplyCounts
  <2>2. UNCHANGED <<rows, last, shown>>
    BY <1>1 DEF Apply
  <2>3. UNCHANGED <<first, last, shown>>
    BY <2>2
  <2>4. QED
    BY <2>1, <2>3 DEF Store!Upgrade
<1>2. ASSUME NEW h \in Calls, Insert(h)
      PROVE  Store!Add
  <2>1. h[1] \in Daemons /\ pc[h[1]] \in {"serving", "draining"}
    BY <1>2 DEF Insert, DatabaseInv, TypeOK, Calls
  <2>2. version = MaxVersion
    BY <2>1, ServingVersion
  <2>3. last' = last + 1 /\ rows' = rows \cup {last + 1} /\ UNCHANGED <<schema, shown>>
    BY <1>2 DEF Insert
  <2>4. Cardinality(rows') = Cardinality(rows) + 1 /\ Cardinality(rows) \in Nat
    BY <2>3, OneMoreRow, RowsAreMany, Zenon DEF DatabaseInv
  <2>5. first' = first
    BY <1>a, <2>3, <2>4
  <2>6. QED
    BY <2>2, <2>3, <2>5 DEF Store!Add
<1>3. ASSUME NEW h \in Calls, Prune(h)
      PROVE  Store!Cut \/ UNCHANGED Store!vars
  <2>1. h[1] \in Daemons /\ pc[h[1]] \in {"serving", "draining"}
    BY <1>3 DEF Prune, DatabaseInv, TypeOK, Calls
  <2>2. version = MaxVersion
    BY <2>1, ServingVersion
  <2>3. rows' = Newest(Keep, rows) /\ UNCHANGED <<schema, shown, last>>
    BY <1>3 DEF Prune
  <2>4. PICK cutoff : cutoff = IF low + Keep <= last + 1 THEN last + 1 - Keep ELSE low
    OBVIOUS
  <2>5. Newest(Keep, low .. last) = cutoff .. last
        /\ Cardinality(cutoff .. last) = last + 1 - cutoff
    BY <1>a, <2>4, NewestRun
  <2>6. Cardinality(rows') = last + 1 - cutoff
    BY <1>a, <2>3, <2>5, Zenon
  <2>7. first' = cutoff
    BY <1>a, <2>3, <2>4, <2>6
  <2>8. CASE low + Keep <= last
    <3>1. first + Keep <= last /\ first' = last + 1 - Keep
      BY <1>a, <2>4, <2>7, <2>8
    <3>2. QED
      BY <2>2, <2>3, <3>1 DEF Store!Cut
  <2>9. CASE ~(low + Keep <= last)
    <3>1. first' = first
      BY <1>a, <2>4, <2>7, <2>9
    <3>2. QED
      BY <2>3, <3>1 DEF Store!vars
  <2>10. QED
    BY <2>8, <2>9
<1>4. ASSUME NEW d \in Daemons, NEW limit \in Limits, Read(d, limit)
      PROVE  Store!Read
  <2>1. version = MaxVersion
    BY <1>4, ServingVersion DEF Read
  <2>2. UNCHANGED <<schema, rows, last>>
    BY <1>4 DEF Read, file
  <2>3. Clamp(limit) \in 1 .. MaxLimit
    BY StateAssumption DEF Clamp
  <2>4. PICK cutoff : cutoff = IF low + Clamp(limit) <= last + 1
                                 THEN last + 1 - Clamp(limit) ELSE low
    OBVIOUS
  <2>5. cutoff \in Nat /\ shown' = cutoff .. last
    BY <1>0, <1>4, <2>4, ReadsRun DEF DatabaseInv
  <2>6. PICK n \in 1 .. MaxLimit : n = Clamp(limit)
    BY <2>3
  <2>7. cutoff .. last = {i \in low .. last : i > last - n}
    BY <1>a, <2>4, <2>5, <2>6
  <2>8. shown' = {i \in first .. last : i > last - n}
    BY <1>a, <2>5, <2>7, Zenon
  <2>9. UNCHANGED <<version, first, last>>
    BY <2>2
  <2>10. QED
    BY <2>1, <2>8, <2>9 DEF Store!Read
<1>5. ASSUME UNCHANGED <<schema, rows, last, shown>>
      PROVE  UNCHANGED Store!vars
  BY <1>5 DEF Store!vars
<1>6. ASSUME NEW d \in Daemons,
             Open(d) \/ ReadApplied(d) \/ Conflict(d) \/ Migrated(d)
                 \/ Stop(d) \/ Close(d) \/ Crash(d)
      PROVE  UNCHANGED <<schema, rows, last, shown>>
  BY <1>6 DEF Open, ReadApplied, Conflict, Migrated, Stop, Close, Crash, file
<1>7. ASSUME NEW h \in Calls, Begin(h) \/ Fails(h)
      PROVE  UNCHANGED <<schema, rows, last, shown>>
  BY <1>7 DEF Begin, Fails, file
<1>8. CASE UNCHANGED vars
  BY <1>5, <1>8 DEF vars
<1>9. QED
  BY <1>1, <1>2, <1>3, <1>4, <1>5, <1>6, <1>7, <1>8
  DEF Next, Migrate, Record, Store!Next

\* Any number of processes that migrate, add, prune, read and die at once do
\* only what one database with one log allows.  (Migrate, RecordDiagnostic,
\* RecordRepair, RecentDiagnostics, RecentRepairs)
THEOREM StateImplementsDatabase == Spec => ImplementsDatabase
<1>1. Init => Store!Init
  <2>1. SUFFICES ASSUME Init PROVE Store!Init
    OBVIOUS
  <2>2. schema = {} /\ rows = {} /\ last = 0 /\ shown = {} /\ Cardinality({}) = 0
    BY <2>1, FS_EmptySet DEF Init
  <2>3. QED
    BY <2>2 DEF Store!Init
<1>2. TypeOK /\ MigrationInv /\ HistoryInv /\ [Next]_vars => [Store!Next]_(Store!vars)
  BY NextImplements DEF DatabaseInv
<1>3. QED
  BY <1>1, <1>2, TypeCorrect, Migration, History, PTL DEF Spec, ImplementsDatabase, Store!Spec
=============================================================================

-------------------------------- MODULE Stores --------------------------------
(***************************************************************************)
(* The repositories of the follow-up surface and the audit log, twice over:*)
(* as tables of SQLite (mailmate-storage/src/repositories) and as the      *)
(* in-memory fakes that every test of the host and of the use cases runs   *)
(* on (mailmate-test-support/src/fakes.rs).  Both are given the same calls;*)
(* what the tests show of the program rests on both giving the same        *)
(* answers.                                                                *)
(*                                                                         *)
(* A row is named by its place; an id is drawn at random and orders        *)
(* nothing.  Time is counted in ticks, PerSecond of them to a second: the  *)
(* first is the whole second, the others are fractions of one digit.       *)
(***************************************************************************)
EXTENDS Integers, Sequences, FiniteSetsExt, SequencesExt

CONSTANTS
  PerSecond,  \* ticks in a second, 2 to 10
  Threads,    \* mail threads
  Keys,       \* what the rows of the append-only tables are looked up by
  MaxTime, MaxCalls,
  NULL        \* next_due_at of a row that is not armed

VARIABLES
  clock,    \* Timestamp::now()
  sql,      \* what the database holds
  fake,     \* what the fakes hold
  refused,  \* the database refused a call that the fake accepted
  calls     \* writes so far

storesVars == <<clock, sql, fake, refused, calls>>

Second(t) == t \div PerSecond

\* floor_to_seconds.
Floored(t) == Second(t) * PerSecond

\* Where the text of a timestamp stands among all texts: a fraction is only
\* rendered when there is one, and "." sorts before "Z".
Text(t) == Floored(t) + (IF t % PerSecond = 0 THEN PerSecond - 1 ELSE (t % PerSecond) - 1)

Lifecycles == {"draft", "active", "shadow_mode"}
Selectable == {"active", "snoozed"}
Terminal   == {"completed", "cancelled"}
Statuses   == Selectable \cup Terminal \cup {"awaiting_review"}
Stages     == {"open", "engaged", "won"}
Tables     == {"audit_log", "followup_feedback", "workflow_conflicts"}

\* A deal is entered by the user and starts open, whatever the caller says.
Item(thread, at) == [thread |-> thread, stage |-> "open", touched |-> at]

\* A definition and its first version, written together, start as a draft.
Definition == [status |-> "draft", current |-> 1]

\* One quote is enrolled and one cadence is known.
Seeded == [defs  |-> <<Definition>>, versions |-> {<<1, 1>>},
           items |-> <<Item(CHOOSE t \in Threads : TRUE, 0)>>,
           insts |-> <<>>, rows |-> <<>>]

StoresInit ==
  /\ clock = 0 /\ sql = Seeded /\ fake = Seeded
  /\ refused = FALSE /\ calls = 0

-----------------------------------------------------------------------------
(* Writes.                                                                 *)

\* The comparison ends with the first call that one side refuses.
Calls == calls < MaxCalls /\ ~refused /\ calls' = calls + 1

WithDefinition(db) ==
  [db EXCEPT !.defs = Append(@, Definition), !.versions = @ \cup {<<Len(db.defs) + 1, 1>>}]

\* A stable name is unique in the table, and not looked at by the fake.
SaveDefinitionDraft(duplicate) ==
  /\ Calls
  /\ sql' = IF duplicate THEN sql ELSE WithDefinition(sql)
  /\ fake' = WithDefinition(fake)
  /\ refused' = duplicate
  /\ UNCHANGED clock

Numbers(db, d) == {v[2] : v \in {w \in db.versions : w[1] = d}} \cup {0}

\* The next number, and the definition, if there is one, points at it.
WithVersion(db, d) ==
  LET n == Max(Numbers(db, d)) + 1
  IN  [db EXCEPT !.versions = @ \cup {<<d, n>>},
                 !.defs = [k \in DOMAIN @ |-> IF k = d THEN [@[k] EXCEPT !.current = n]
                                                       ELSE @[k]]]

\* The table has a foreign key to the definition, the fake takes any.
CreateVersion(d) ==
  /\ Calls
  /\ sql' = IF d \in DOMAIN sql.defs THEN WithVersion(sql, d) ELSE sql
  /\ fake' = WithVersion(fake, d)
  /\ refused' = (d \notin DOMAIN sql.defs)
  /\ UNCHANGED clock

\* A write that the database accepts as the fake does.
Accepted(s, f) == Calls /\ sql' = s /\ fake' = f /\ UNCHANGED <<refused, clock>>

UpdateStatus(d, status) ==
  Accepted([sql EXCEPT !.defs[d].status = status], [fake EXCEPT !.defs[d].status = status])

\* What the database keeps of a trigger.
Stored(due) == IF due = NULL THEN NULL ELSE Floored(due)

WithInstance(db, item, due) ==
  [db EXCEPT !.insts = Append(@, [item |-> item, thread |-> db.items[item].thread, step |-> 0,
                                  status |-> IF due = NULL THEN "completed" ELSE "active",
                                  due |-> due])]

Arm(item, due) == Accepted(WithInstance(sql, item, Stored(due)), WithInstance(fake, item, due))

WithState(db, i, status, step, due) ==
  [db EXCEPT !.insts[i].status = status, !.insts[i].step = step, !.insts[i].due = due]

\* The callers keep next_due_at non-NULL exactly on the selectable statuses.
UpdateState(i, status, step, due) ==
  Accepted(WithState(sql, i, status, step, Stored(due)), WithState(fake, i, status, step, due))

WithItem(db, thread) == [db EXCEPT !.items = Append(@, Item(thread, clock))]

InsertItem(thread) == Accepted(WithItem(sql, thread), WithItem(fake, thread))

WithStage(db, i, stage) ==
  [db EXCEPT !.items[i].stage = stage, !.items[i].touched = clock]

UpdateStage(i, stage) == Accepted(WithStage(sql, i, stage), WithStage(fake, i, stage))

WithRow(db, table, key) ==
  [db EXCEPT !.rows = Append(@, [table |-> table, key |-> key, at |-> clock, open |-> TRUE])]

AppendRow(table, key) == Accepted(WithRow(sql, table, key), WithRow(fake, table, key))

WithResolved(db, r) == [db EXCEPT !.rows[r].open = FALSE]

ResolveConflict(r) == Accepted(WithResolved(sql, r), WithResolved(fake, r))

Tick == clock < MaxTime /\ clock' = clock + 1 /\ UNCHANGED <<sql, fake, refused, calls>>

Armings ==
  {a \in Statuses \X (0 .. MaxTime + 1 \cup {NULL}) : (a[2] # NULL) <=> a[1] \in Selectable}

StoresNext ==
  \/ \E duplicate \in BOOLEAN : SaveDefinitionDraft(duplicate)
  \/ \E d \in 1 .. Len(sql.defs) + 1 : CreateVersion(d)
  \/ \E d \in DOMAIN sql.defs, status \in Lifecycles : UpdateStatus(d, status)
  \/ \E item \in DOMAIN sql.items, due \in 0 .. MaxTime + 1 \cup {NULL} : Arm(item, due)
  \/ \E i \in DOMAIN sql.insts, a \in Armings, step \in 0 .. 1 :
       UpdateState(i, a[1], step, a[2])
  \/ \E thread \in Threads : InsertItem(thread)
  \/ \E i \in DOMAIN sql.items, stage \in Stages : UpdateStage(i, stage)
  \/ \E table \in Tables, key \in Keys : AppendRow(table, key)
  \/ \E r \in DOMAIN sql.rows : sql.rows[r].table = "workflow_conflicts" /\ ResolveConflict(r)
  \/ Tick

StoresSpec == StoresInit /\ [][StoresNext]_storesVars

-----------------------------------------------------------------------------
(* Reads.  What a query returns, as places.                                *)

SqlByStatus(status) == {d \in DOMAIN sql.defs : sql.defs[d].status = status}
FakeByStatus(status) == {d \in DOMAIN fake.defs : fake.defs[d].status = status}

\* The query spells the statuses out; the fake asks is_terminal.
SqlActive(thread) ==
  {i \in DOMAIN sql.insts :
     sql.insts[i].thread = thread /\ sql.insts[i].status \notin {"completed", "cancelled"}}
FakeActive(thread) ==
  {i \in DOMAIN fake.insts : fake.insts[i].thread = thread /\ fake.insts[i].status \notin Terminal}

SqlByItem(item) == {i \in DOMAIN sql.insts : sql.insts[i].item = item}
FakeByItem(item) == {i \in DOMAIN fake.insts : fake.insts[i].item = item}

SqlOfThread(thread) == {i \in DOMAIN sql.items : sql.items[i].thread = thread}
FakeOfThread(thread) == {i \in DOMAIN fake.items : fake.items[i].thread = thread}

\* A query names a stage or not.
SqlAtStage(stages) == {i \in DOMAIN sql.items : sql.items[i].stage \in stages}
FakeAtStage(stages) == {i \in DOMAIN fake.items : fake.items[i].stage \in stages}

\* So does one of the append-only tables a key; a conflict that was resolved
\* is not listed.
SqlRows(table, keys) ==
  {r \in DOMAIN sql.rows : sql.rows[r].table = table /\ sql.rows[r].key \in keys /\ sql.rows[r].open}
FakeRows(table, keys) ==
  {r \in DOMAIN fake.rows : fake.rows[r].table = table /\ fake.rows[r].key \in keys /\ fake.rows[r].open}

\* ORDER BY: the places of rows by their keys.  Of two rows with the same key
\* the earlier is first, as in the fakes' stable sort; the tables go by the
\* ids, which are drawn at random.
Before(key, r, s) == key[r] < key[s] \/ (key[r] = key[s] /\ r < s)
Sorted(S, key) ==
  [n \in 1 .. Cardinality(S) |->
     CHOOSE r \in S : Cardinality({s \in S : Before(key, s, r)}) = n - 1]

\* Mutant: the clock is compared as it is.
SqlDueUnfloored(now) ==
  LET due(i) == sql.insts[i].status \in Selectable /\ sql.insts[i].due # NULL
                  /\ Text(sql.insts[i].due) <= Text(now)
      rows   == {i \in DOMAIN sql.insts : due(i)}
  IN  Sorted(rows, [i \in rows |-> Text(sql.insts[i].due)])

\* The drain: texts are compared, of whole seconds on both sides.
SqlDueRows(now) ==
  {i \in DOMAIN sql.insts :
     /\ sql.insts[i].status \in Selectable /\ sql.insts[i].due # NULL
     /\ Text(sql.insts[i].due) <= Text(Floored(now))}
SqlDue(now) == Sorted(SqlDueRows(now), [i \in SqlDueRows(now) |-> Text(sql.insts[i].due)])

FakeDueRows(now) ==
  {i \in DOMAIN fake.insts :
     /\ fake.insts[i].status \in Selectable /\ fake.insts[i].due # NULL
     /\ fake.insts[i].due <= now}
FakeDue(now) == Sorted(FakeDueRows(now), [i \in FakeDueRows(now) |-> fake.insts[i].due])

\* Newest first is the order of the texts of created_at, of the deals that
\* of last_activity_at; the fakes turn the order of insertion round.
SqlNewer(r, s) == Text(sql.rows[r].at) > Text(sql.rows[s].at)
SqlLivelier(i, j) == Text(sql.items[i].touched) > Text(sql.items[j].touched)
FakeNewer(r, s) == r > s

-----------------------------------------------------------------------------
(* Properties.                                                             *)

\* Every query of the fakes but that of the drain returns the rows that the
\* query of the database returns, and every definition points at the same, its
\* highest, version, for as long as the database refused no call: the tests of
\* the host run on the fakes ("mirroring the real adapter's ... mechanics",
\* fakes.rs).
TablesAgree ==
  ~refused =>
    /\ \A status \in Lifecycles : SqlByStatus(status) = FakeByStatus(status)
    /\ \A d \in DOMAIN sql.defs :
         /\ sql.defs[d].current = fake.defs[d].current
         /\ sql.defs[d].current = Max(Numbers(sql, d))
         /\ Numbers(sql, d) = 0 .. sql.defs[d].current
    /\ \A thread \in Threads :
         SqlActive(thread) = FakeActive(thread) /\ SqlOfThread(thread) = FakeOfThread(thread)
    /\ \A item \in DOMAIN sql.items : SqlByItem(item) = FakeByItem(item)
    /\ \A stages \in {{s} : s \in Stages} \cup {Stages} : SqlAtStage(stages) = FakeAtStage(stages)
    /\ \A table \in Tables, keys \in {{k} : k \in Keys} \cup {Keys} :
         SqlRows(table, keys) = FakeRows(table, keys)

\* The drain of the database lists a sequence no later than its time, at most
\* the rest of that second before it, and the earlier of two seconds first,
\* although both the trigger and the clock are compared as text ("the TEXT
\* comparison in list_due is lexicographically exact", SqliteWorkflowInstance-
\* Repository::arm).
DueToTheSecond ==
  ~refused =>
    LET listed == SqlDue(clock)
        asked  == [n \in DOMAIN listed |-> fake.insts[listed[n]].due]
    IN  /\ ToSet(FakeDue(clock)) \subseteq ToSet(listed)
        /\ ToSet(listed) \subseteq ToSet(FakeDue(Floored(clock) + PerSecond - 1))
        /\ \A m, n \in DOMAIN asked : m < n => Second(asked[m]) <= Second(asked[n])

\* What the host's tests rely on and what its drain relies on, together.
StoresAgree == TablesAgree /\ DueToTheSecond

\* What the code does not keep, see README: the ports say of their queries
\* "newest first" (pipeline_items.rs:47, audit.rs:21, workflows.rs:150).
NewestFirst ==
  \A r, s \in DOMAIN sql.rows : sql.rows[r].at > sql.rows[s].at => SqlNewer(r, s)

\* Nor this: the fakes order as the database does.
OrdersAgree ==
  \A i, j \in DOMAIN sql.items : SqlLivelier(i, j) => FakeNewer(i, j)
===============================================================================

------------------------------- MODULE Storage --------------------------------
(***************************************************************************)
(* The embedded database as a file: the migrations every process applies   *)
(* when it opens it, the write-ahead log a killed process leaves behind,   *)
(* the backup that may be taken while a host serves, and the restore that  *)
(* replaces the file.  Processes of different builds share one file: the   *)
(* host and the command-line backup are such processes.                    *)
(*                                                                         *)
(* The pages of a database are abstracted to what was committed: which     *)
(* migrations' tables exist, which are recorded, which data was written.   *)
(***************************************************************************)
EXTENDS Integers, FiniteSets

CONSTANTS
  Procs,   \* processes that open the database
  Build,   \* the latest migration each of them was built with
  Facts,   \* what a host may write
  Absent   \* no file

Versions == 1 .. 6

Image == [tables : SUBSET Versions, tracked : SUBSET Versions, data : SUBSET Facts]

Torn  == [tables |-> {0}, tracked |-> {}, data |-> {}]  \* part of a file
Empty == [tables |-> {}, tracked |-> {}, data |-> {}]

ASSUME StorageAssumption ==
  /\ Build \in [Procs -> Versions]
  /\ Absent \notin Image /\ Absent # Torn

VARIABLES
  dbFile,    \* the database file
  wal,       \* what the file would be with its -wal sidecar played back, if any
  stale,     \* the sidecar belongs to a file that was replaced
  backup,    \* the file backups are written to and restored from
  proc,      \* per process: what it runs, where it is, which migration is next
  restore,   \* where a restore is: idle, copy, wal, shm
  restored   \* history: what the last completed restore promised, till a launch

storageVars == <<dbFile, wal, stale, backup, proc, restore, restored>>

Closed == [job |-> "serve", at |-> "closed", next |-> 1]

StorageInit ==
  /\ dbFile = Absent /\ wal = Absent /\ stale = FALSE
  /\ backup = Absent
  /\ proc = [p \in Procs |-> Closed]
  /\ restore = "idle"
  /\ restored = Absent

\* What opening the database now shows.  A log played back over a file it
\* was not written for leaves a ruin.
View == IF stale \/ dbFile = Torn THEN Torn ELSE IF wal # Absent THEN wal ELSE dbFile

Newest(image) == IF image.tracked = {} THEN 0 ELSE CHOOSE v \in image.tracked :
                                                   \A w \in image.tracked : w <= v

At(p, pc)  == proc[p].at = pc
NobodyElse(p) == \A q \in Procs \ {p} : At(q, "closed")

Goes(p, pc, next) ==
  proc' = [proc EXCEPT ![p] = [job |-> @.job, at |-> pc, next |-> next]]

\* A commit is durable in the log.
Commit(image) == wal' = image /\ UNCHANGED <<dbFile, stale>>

\* The last connection that closes plays the log back and removes it.
Leave(p) ==
  /\ proc' = [proc EXCEPT ![p] = Closed]
  /\ IF NobodyElse(p) THEN dbFile' = View /\ wal' = Absent ELSE UNCHANGED <<dbFile, wal>>
  /\ UNCHANGED stale

-----------------------------------------------------------------------------
(* Opening: open_and_migrate.                                              *)

\* The file is created when absent.  Restore is an offline operation: nobody
\* launches while it runs.  A ruin is not looked into.
OpenFile(p, job) ==
  /\ At(p, "closed") /\ restore = "idle" /\ View # Torn
  /\ dbFile' = IF dbFile = Absent THEN Empty ELSE dbFile
  /\ proc' = [proc EXCEPT ![p] = [job |-> job, at |-> "migrate", next |-> 1]]
  /\ restored' = Absent
  /\ UNCHANGED <<wal, stale, backup, restore>>

\* is_applied is asked outside the transaction that acts on the answer.
Applied(p) ==
  /\ At(p, "migrate") /\ proc[p].next <= Build[p]
  /\ IF proc[p].next \in View.tracked
       THEN Goes(p, "migrate", proc[p].next + 1)
       ELSE Goes(p, "apply", proc[p].next)
  /\ UNCHANGED <<dbFile, wal, stale, backup, restore, restored>>

Migrated(p) ==
  [View EXCEPT !.tables = @ \cup {proc[p].next}, !.tracked = @ \cup {proc[p].next}]

\* Mutant: the bookkeeping row is inserted after the commit.
ApplyThenTrack(p) ==
  /\ At(p, "apply") /\ proc[p].next \notin View.tables
  /\ \/ /\ Commit(Migrated(p))
        /\ Goes(p, "migrate", proc[p].next + 1)
     \/ /\ Commit([View EXCEPT !.tables = @ \cup {proc[p].next}])
        /\ proc' = [proc EXCEPT ![p] = Closed]
  /\ UNCHANGED <<backup, restore, restored>>

\* The tables and the bookkeeping row in one transaction.
Apply(p) ==
  /\ At(p, "apply") /\ proc[p].next \notin View.tables
  /\ Commit(Migrated(p))
  /\ Goes(p, "migrate", proc[p].next + 1)
  /\ UNCHANGED <<backup, restore, restored>>

\* Another process was faster and the table exists, or the write failed:
\* nothing of the transaction remains and the start fails.
ApplyFails(p) ==
  /\ At(p, "apply")
  /\ Leave(p)
  /\ UNCHANGED <<backup, restore, restored>>

\* Mutant: the last migration is not waited for.
OpenedEarly(p) ==
  /\ At(p, "migrate") /\ proc[p].next >= Build[p]
  /\ Goes(p, "open", proc[p].next)
  /\ UNCHANGED <<dbFile, wal, stale, backup, restore, restored>>

\* Migrations this build does not know are not looked for.
Opened(p) ==
  /\ At(p, "migrate") /\ proc[p].next > Build[p]
  /\ Goes(p, "open", proc[p].next)
  /\ UNCHANGED <<dbFile, wal, stale, backup, restore, restored>>

-----------------------------------------------------------------------------
(* Serving, backing up, going away.                                        *)

Write(p, x) ==
  /\ At(p, "open") /\ proc[p].job = "serve" /\ x \notin View.data
  /\ Commit([View EXCEPT !.data = @ \cup {x}])
  /\ UNCHANGED <<backup, proc, restore, restored>>

\* SQLite checkpoints the log whenever it sees fit.
Checkpoint ==
  /\ wal # Absent /\ \E p \in Procs : ~At(p, "closed")
  /\ dbFile' = wal /\ wal' = Absent
  /\ UNCHANGED <<stale, backup, proc, restore, restored>>

\* VACUUM INTO does not overwrite, so the backup before is removed first.
RemoveBackup(p) ==
  /\ At(p, "open") /\ proc[p].job = "backup"
  /\ backup' = Absent
  /\ Goes(p, "vacuum", proc[p].next)
  /\ UNCHANGED <<dbFile, wal, stale, restore, restored>>

\* A committed view of the database, in one file, or part of one.
VacuumInto(p) ==
  /\ At(p, "vacuum")
  /\ backup' \in {View, Torn}
  /\ Leave(p)
  /\ UNCHANGED <<restore, restored>>

Exit(p) ==
  /\ At(p, "open")
  /\ Leave(p)
  /\ UNCHANGED <<backup, restore, restored>>

\* Killed: an open transaction is lost, the log stays as it is.
Kill(p) ==
  /\ ~At(p, "closed")
  /\ proc' = [proc EXCEPT ![p] = Closed]
  /\ UNCHANGED <<dbFile, wal, stale, backup, restore, restored>>

-----------------------------------------------------------------------------
(* restore_database.                                                       *)

\* The snapshot must open, be a migrated database, and not be newer than the
\* build of the command that restores it.
Validate(p) ==
  /\ restore = "idle" /\ \A q \in Procs : At(q, "closed")
  /\ backup \notin {Absent, Torn}
  /\ Newest(backup) \in 1 .. Build[p]
  /\ restore' = "copy"
  /\ restored' = Absent
  /\ UNCHANGED <<dbFile, wal, stale, backup, proc>>

\* fs::copy writes over the live file; killed on the way it leaves a part.
Copy ==
  /\ restore = "copy"
  /\ \/ dbFile' = backup /\ restore' = "wal"
     \/ dbFile' = Torn /\ restore' = "idle"
  /\ stale' = (wal # Absent)
  /\ UNCHANGED <<wal, backup, proc, restored>>

\* Mutant: the log is left to SQLite.
ClearNothing ==
  /\ restore = "wal"
  /\ restore' = "shm"
  /\ UNCHANGED <<dbFile, wal, stale, backup, proc, restored>>

\* The sidecars are of the file that was replaced.  The log goes first.
ClearLog ==
  /\ restore = "wal"
  /\ wal' = Absent /\ stale' = FALSE
  /\ restore' = "shm"
  /\ UNCHANGED <<dbFile, backup, proc, restored>>

\* The index of a log that is gone says nothing; it is removed all the same.
ClearIndex ==
  /\ restore = "shm"
  /\ restore' = "idle"
  /\ restored' = backup
  /\ UNCHANGED <<dbFile, wal, stale, backup, proc>>

\* Killed, or a sidecar could not be removed.
RestoreFails ==
  /\ restore \in {"copy", "wal", "shm"}
  /\ restore' = "idle"
  /\ UNCHANGED <<dbFile, wal, stale, backup, proc, restored>>

StorageNext ==
  \/ \E p \in Procs :
       \/ \E job \in {"serve", "backup"} : OpenFile(p, job)
       \/ Applied(p) \/ Apply(p) \/ ApplyFails(p) \/ Opened(p)
       \/ \E x \in Facts : Write(p, x)
       \/ RemoveBackup(p) \/ VacuumInto(p) \/ Exit(p) \/ Kill(p)
       \/ Validate(p)
  \/ Checkpoint \/ Copy \/ ClearLog \/ ClearIndex \/ RestoreFails

StorageSpec == StorageInit /\ [][StorageNext]_storageVars

-----------------------------------------------------------------------------
(* Properties.                                                             *)

\* Whatever is running and wherever it is killed, whoever opens the database
\* next sees a database that only ever gained whole migrations, in their
\* order, and committed data, or was replaced by a snapshot of itself.
Durable == INSTANCE Database WITH db <- View, snapshot <- backup

ImplementsDatabase == Durable!Spec

Sound(image) ==
  /\ image.tables = image.tracked
  /\ \E n \in 0 .. 6 : image.tracked = 1 .. n

\* Whatever processes of whatever builds migrate at once, and wherever they
\* are killed, a database that opens has the tables it records, and they are
\* those of the first migrations with no gap; so has a backup that opens
\* (migrations::apply_all, SqliteBackend::backup_to).
SchemaIsAPrefix ==
  /\ View \notin {Absent, Torn} => Sound(View)
  /\ backup \notin {Absent, Torn} => Sound(backup)

\* A process past its start finds every table its build knows, whoever
\* applied the migrations (open_and_migrate).
ServingSchemaIsComplete ==
  \A p \in Procs : proc[p].at \in {"open", "vacuum"} => 1 .. Build[p] \subseteq View.tables

\* After a restore that reported success the database opens as exactly the
\* snapshot, though a killed host had left a log and an earlier restore may
\* have been cut short (restore_database).
RestoreIsExact ==
  restored # Absent => View = restored
===============================================================================

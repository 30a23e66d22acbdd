-------------------------- MODULE PersistenceProofs --------------------------
(***************************************************************************)
(* What the host keeps on disk.                                            *)
(*                                                                         *)
(* Of the database file (Storage), for any number of processes of any      *)
(* builds: that it implements Database.  The inductive invariant says where*)
(* the processes may be while the file is replaced, and how far the schema *)
(* is given how far each of them has come.                                 *)
(*                                                                         *)
(* Of the repositories: that the fakes of the tests mirror the tables they *)
(* stand for (Stores), from the invariant that the two hold the same rows  *)
(* but for the fraction of a second a trigger loses; and that the other    *)
(* tables keep what their callers were told (Records), from the invariant  *)
(* that they grow row by row with it and that no row comes before the row  *)
(* it points at.  A list is put in order by the rank of each of its rows:  *)
(* how many of them come before it, which no two rows have in common.      *)
(*                                                                         *)
(* Of the configuration (HostConfig), for every set of providers, kinds and*)
(* levels users type, every cadence and every bound.                       *)
(***************************************************************************)
EXTENDS MCStorage, HostConfig, SequenceTheorems, FiniteSetTheorems, TLAPS

-----------------------------------------------------------------------------
(* The database file (Storage)                                             *)

\* What a file that opens looks like.
Good == {image \in Image : Sound(image)}

Rows == [job : {"serve", "backup"},
         at : {"closed", "migrate", "apply", "open", "vacuum"},
         next : 1 .. 7]

Types ==
  /\ dbFile \in Good \cup {Absent, Torn}
  /\ wal \in Good \cup {Absent}
  /\ stale \in BOOLEAN
  /\ backup \in Good \cup {Absent, Torn}
  /\ proc \in [Procs -> Rows]
  /\ restore \in {"idle", "copy", "wal", "shm"}

AllClosed == \A p \in Procs : At(p, "closed")

\* Somebody has it open: it is no ruin and nobody is replacing it.
OpenInv == ~AllClosed => restore = "idle" /\ View \in Good /\ restored = Absent

\* How far a process has come, so far is the schema.
Behind(p) ==
  /\ proc[p].at \in {"migrate", "apply"} => 1 .. (proc[p].next - 1) \subseteq View.tracked
  /\ At(p, "apply") => proc[p].next <= Build[p]
  /\ proc[p].at \in {"open", "vacuum"} => 1 .. Build[p] \subseteq View.tracked

SchemaInv == \A p \in Procs : Behind(p)

RestoreInv ==
  /\ restore # "idle" => backup \in Good /\ restored = Absent
  /\ restore = "wal" => dbFile = backup
  /\ restore = "shm" => View = backup
  /\ restored # Absent => View = restored /\ restore = "idle"

IInv == Types /\ OpenInv /\ SchemaInv /\ RestoreInv

LEMMA GoodFacts ==
  /\ Absent \notin Good /\ Torn \notin Good /\ Empty \in Good /\ Absent # Torn
<1>1. Torn \notin Image
  BY DEF Torn, Image, Versions
<1>2. Empty \in Image /\ Sound(Empty)
  <2>1. {} = 1 .. 0
    BY SMT
  <2>. QED BY <2>1 DEF Empty, Image, Sound
<1>. QED BY <1>1, <1>2, StorageAssumption DEF Good

\* A process that has the database open: no stale log, no ruin.
LEMMA OpenFacts ==
  ASSUME IInv, NEW p \in Procs, ~At(p, "closed")
  PROVE  /\ stale = FALSE /\ dbFile # Torn /\ View \in Good
         /\ restore = "idle" /\ restored = Absent
         /\ View = IF wal # Absent THEN wal ELSE dbFile
<1>1. ~AllClosed
  BY DEF AllClosed
<1>2. View \in Good /\ View # Torn /\ restore = "idle" /\ restored = Absent
  BY <1>1, GoodFacts DEF IInv, OpenInv
<1>. QED BY <1>2 DEF View, IInv, Types

\* What is read after a commit is what was committed.
LEMMA CommitView ==
  ASSUME IInv, NEW p \in Procs, ~At(p, "closed"), NEW image \in Good, Commit(image)
  PROVE  View' = image /\ wal' = image /\ dbFile' = dbFile /\ stale' = stale
BY OpenFacts, GoodFacts DEF Commit, View

\* Closing the last connection or not the last: what is read stays.
LEMMA LeaveView ==
  ASSUME IInv, NEW p \in Procs, ~At(p, "closed"), Leave(p)
  PROVE  /\ View' = View
         /\ dbFile' \in Good \cup {Absent, Torn} /\ wal' \in Good \cup {Absent} /\ stale' = stale
         /\ proc' = [proc EXCEPT ![p] = Closed]
<1>1. CASE NobodyElse(p)
  <2>1. dbFile' = View /\ wal' = Absent /\ stale' = FALSE
    BY <1>1, OpenFacts DEF Leave
  <2>. QED BY <2>1, OpenFacts, GoodFacts DEF View, Leave
<1>2. CASE ~NobodyElse(p)
  BY <1>2 DEF Leave, View, IInv, Types
<1>. QED BY <1>1, <1>2

LEMMA AddToImage ==
  ASSUME NEW image \in Image, NEW v \in Versions,
         NEW sum, sum = [image EXCEPT !.tables = @ \cup {v}, !.tracked = @ \cup {v}]
  PROVE  /\ sum \in Image
         /\ sum.tables = image.tables \cup {v} /\ sum.tracked = image.tracked \cup {v}
BY DEF Image

\* The next migration, added to a schema without gaps, leaves none.
LEMMA MigratedIsGood ==
  ASSUME IInv, NEW p \in Procs, At(p, "apply"), proc[p].next \notin View.tables
  PROVE  /\ Migrated(p) \in Good
         /\ View.tracked = 1 .. (proc[p].next - 1)
         /\ Migrated(p).tracked = View.tracked \cup {proc[p].next}
<1>. DEFINE v == proc[p].next
<1>1. View \in Image /\ View.tables = View.tracked
  BY OpenFacts DEF Good, Sound, At
<1>2. v \in 1 .. 7 /\ v <= Build[p] /\ Build[p] \in 1 .. 6 /\ 1 .. (v - 1) \subseteq View.tracked
  BY StorageAssumption DEF IInv, Types, Rows, SchemaInv, Behind, At, Versions
<1>3. PICK n \in 0 .. 6 : View.tracked = 1 .. n
  BY OpenFacts DEF Good, Sound, At
<1>4. v = n + 1
  <2>1. v \notin 1 .. n
    BY <1>1, <1>3
  <2>2. v > 1 => v - 1 \in 1 .. n
    BY <1>2, <1>3
  <2>. QED BY <1>2, <2>1, <2>2
<1>5. Migrated(p) = [View EXCEPT !.tables = @ \cup {v}, !.tracked = @ \cup {v}]
  BY DEF Migrated
<1>6. /\ Migrated(p) \in Image
      /\ Migrated(p).tables = View.tables \cup {v} /\ Migrated(p).tracked = View.tracked \cup {v}
  <2>1. v \in Versions
    BY <1>2 DEF Versions
  <2>. HIDE DEF v
  <2>. QED BY <2>1, <1>1, <1>5, AddToImage
<1>7. Migrated(p).tracked = 1 .. v /\ v \in 0 .. 6
  BY <1>2, <1>3, <1>4, <1>6
<1>8. View.tracked = 1 .. (v - 1)
  BY <1>3, <1>4
<1>. HIDE DEF v
<1>. QED BY <1>1, <1>6, <1>7, <1>8 DEF Good, Sound, v

-----------------------------------------------------------------------------
(* The invariant is inductive. *)

\* A process moves on and the others stay where they are.
LEMMA GoesRow ==
  ASSUME Types, NEW p \in Procs, NEW pc \in {"closed", "migrate", "apply", "open", "vacuum"},
         NEW next \in 1 .. 7, Goes(p, pc, next)
  PROVE  /\ proc' \in [Procs -> Rows]
         /\ proc'[p].at = pc /\ proc'[p].next = next
         /\ \A q \in Procs \ {p} : proc'[q] = proc[q]
<1>. DEFINE row == [job |-> proc[p].job, at |-> pc, next |-> next]
<1>1. row \in Rows /\ row.at = pc /\ row.next = next
  BY DEF Types, Rows
<1>2. proc' = [proc EXCEPT ![p] = row]
  BY DEF Goes
<1>. HIDE DEF row
<1>. QED BY <1>1, <1>2 DEF Types

LEMMA ClosedRow ==
  ASSUME Types, NEW p \in Procs, proc' = [proc EXCEPT ![p] = Closed]
  PROVE  /\ proc' \in [Procs -> Rows] /\ proc'[p].at = "closed"
         /\ \A q \in Procs \ {p} : proc'[q] = proc[q]
<1>1. Closed \in Rows /\ Closed.at = "closed"
  BY DEF Closed, Rows
<1>. QED BY <1>1 DEF Types

LEMMA InitInv == StorageInit => IInv
<1>. SUFFICES ASSUME StorageInit PROVE IInv
  OBVIOUS
<1>1. proc = [p \in Procs |-> Closed]
  BY DEF StorageInit
<1>2. Closed \in Rows
  BY DEF Closed, Rows
<1>3. proc \in [Procs -> Rows]
  BY <1>1, <1>2
<1>4. Types
  BY <1>3 DEF StorageInit, Types
<1>5. AllClosed
  BY <1>1 DEF AllClosed, At, Closed
<1>6. SchemaInv
  BY <1>1 DEF SchemaInv, Behind, At, Closed
<1>. QED BY <1>4, <1>5, <1>6 DEF StorageInit, IInv, OpenInv, RestoreInv

\* While somebody has the database open, all that is left to show of a step is
\* the types, that the database still opens, and how far each process is.
LEMMA OpenStep ==
  ASSUME Types', View' \in Good, restore' = "idle", restored' = Absent,
         \A q \in Procs : Behind(q)'
  PROVE  IInv'
BY DEF IInv, OpenInv, SchemaInv, RestoreInv

LEMMA OthersKeepUp ==
  ASSUME IInv, NEW q \in Procs, proc'[q] = proc[q], View.tracked \subseteq View'.tracked
  PROVE  Behind(q)'
BY DEF IInv, SchemaInv, Behind, At

LEMMA OpenFileInv ==
  ASSUME IInv, NEW p \in Procs, NEW job \in {"serve", "backup"}, OpenFile(p, job)
  PROVE  IInv'
<1>. DEFINE row == [job |-> job, at |-> "migrate", next |-> 1]
<1>1. /\ proc' = [proc EXCEPT ![p] = row] /\ restored' = Absent
      /\ UNCHANGED <<wal, stale, backup, restore>> /\ restore = "idle" /\ View # Torn
      /\ dbFile' = IF dbFile = Absent THEN Empty ELSE dbFile
  BY DEF OpenFile
<1>2. row \in Rows /\ row.at = "migrate" /\ row.next = 1
  BY DEF Rows
<1>. HIDE DEF row
<1>3. /\ proc' \in [Procs -> Rows]
      /\ proc'[p] = row /\ \A q \in Procs \ {p} : proc'[q] = proc[q]
  BY <1>1, <1>2 DEF IInv, Types
<1>4. Types'
  BY <1>1, <1>3, GoodFacts DEF IInv, Types
<1>5. View' \in Good /\ (View # Absent => View' = View)
  BY <1>1, GoodFacts DEF View, IInv, Types
<1>6. ASSUME NEW q \in Procs \ {p} PROVE Behind(q)'
  <2>1. CASE At(q, "closed")
    BY <2>1, <1>3 DEF Behind, At
  <2>2. CASE ~At(q, "closed")
    <3>1. View \in Good
      BY <2>2, OpenFacts
    <3>. QED BY <3>1, <1>3, <1>5, OthersKeepUp, GoodFacts
  <2>. QED BY <2>1, <2>2
<1>7. Behind(p)'
  <2>1. 1 .. (1 - 1) = {}
    BY SMT
  <2>. QED BY <2>1, <1>2, <1>3 DEF Behind, At
<1>. QED BY <1>1, <1>4, <1>5, <1>6, <1>7, OpenStep

LEMMA AppliedInv ==
  ASSUME IInv, NEW p \in Procs, Applied(p)
  PROVE  IInv' /\ View' = View /\ backup' = backup
<1>1. /\ At(p, "migrate") /\ proc[p].next <= Build[p]
      /\ UNCHANGED <<dbFile, wal, stale, backup, restore, restored>>
  BY DEF Applied
<1>2. ~At(p, "closed") /\ View' = View
  BY <1>1 DEF At, View
<1>3. restore' = "idle" /\ restored' = Absent /\ View' \in Good
  BY <1>1, <1>2, OpenFacts
<1>4. proc[p].next \in 1 .. 6 /\ 1 .. (proc[p].next - 1) \subseteq View.tracked
  BY <1>1, StorageAssumption DEF IInv, Types, Rows, SchemaInv, Behind, At, Versions
<1>5. CASE proc[p].next \in View.tracked
  <2>1. Goes(p, "migrate", proc[p].next + 1)
    BY <1>5 DEF Applied
  <2>2. /\ proc' \in [Procs -> Rows] /\ proc'[p].at = "migrate" /\ proc'[p].next = proc[p].next + 1
        /\ \A q \in Procs \ {p} : proc'[q] = proc[q]
    BY <2>1, <1>4, GoesRow DEF IInv
  <2>3. 1 .. (proc'[p].next - 1) \subseteq View'.tracked
    BY <2>2, <1>2, <1>4, <1>5
  <2>4. Behind(p)'
    BY <2>2, <2>3 DEF Behind, At
  <2>5. Types'
    BY <2>2, <1>1 DEF IInv, Types
  <2>. QED BY <2>2, <2>4, <2>5, <1>1, <1>2, <1>3, OthersKeepUp, OpenStep
<1>6. CASE proc[p].next \notin View.tracked
  <2>1. Goes(p, "apply", proc[p].next)
    BY <1>6 DEF Applied
  <2>2. /\ proc' \in [Procs -> Rows] /\ proc'[p].at = "apply" /\ proc'[p].next = proc[p].next
        /\ \A q \in Procs \ {p} : proc'[q] = proc[q]
    BY <2>1, <1>4, GoesRow DEF IInv
  <2>3. Behind(p)'
    BY <2>2, <1>1, <1>2, <1>4 DEF Behind, At
  <2>4. Types'
    BY <2>2, <1>1 DEF IInv, Types
  <2>. QED BY <2>2, <2>3, <2>4, <1>1, <1>2, <1>3, OthersKeepUp, OpenStep
<1>. QED BY <1>5, <1>6

LEMMA ApplyInv ==
  ASSUME IInv, NEW p \in Procs, Apply(p)
  PROVE  IInv' /\ View' = Migrated(p) /\ backup' = backup
<1>1. /\ At(p, "apply") /\ proc[p].next \notin View.tables /\ Commit(Migrated(p))
      /\ Goes(p, "migrate", proc[p].next + 1)
      /\ UNCHANGED <<backup, restore, restored>>
  BY DEF Apply
<1>2. ~At(p, "closed")
  BY <1>1 DEF At
<1>3. Migrated(p) \in Good /\ View.tracked = 1 .. (proc[p].next - 1)
      /\ Migrated(p).tracked = View.tracked \cup {proc[p].next}
  BY <1>1, MigratedIsGood
<1>4. View' = Migrated(p) /\ wal' = Migrated(p) /\ dbFile' = dbFile /\ stale' = stale
  BY <1>1, <1>2, <1>3, CommitView
<1>5. restore' = "idle" /\ restored' = Absent
  BY <1>1, <1>2, OpenFacts
<1>6. proc[p].next \in 1 .. 6
  BY <1>1, StorageAssumption DEF IInv, Types, Rows, SchemaInv, Behind, At, Versions
<1>7. /\ proc' \in [Procs -> Rows] /\ proc'[p].at = "migrate" /\ proc'[p].next = proc[p].next + 1
      /\ \A q \in Procs \ {p} : proc'[q] = proc[q]
  BY <1>1, <1>6, GoesRow DEF IInv
<1>8. Types'
  BY <1>1, <1>3, <1>4, <1>7 DEF IInv, Types
<1>9. 1 .. (proc'[p].next - 1) \subseteq View'.tracked
  BY <1>3, <1>4, <1>6, <1>7
<1>10. Behind(p)'
  BY <1>7, <1>9 DEF Behind, At
<1>11. ASSUME NEW q \in Procs \ {p} PROVE Behind(q)'
  BY <1>3, <1>4, <1>7, OthersKeepUp
<1>. QED BY <1>1, <1>3, <1>4, <1>5, <1>8, <1>10, <1>11, OpenStep

\* Whoever closes the database leaves what is read, and the others, alone.
LEMMA LeaveInv ==
  ASSUME IInv, NEW p \in Procs, ~At(p, "closed"), Leave(p),
         backup' \in Good \cup {Absent, Torn}, UNCHANGED <<restore, restored>>
  PROVE  IInv' /\ View' = View
<1>1. /\ View' = View /\ View \in Good /\ restore = "idle" /\ restored = Absent
  BY LeaveView, OpenFacts
<1>2. /\ proc' \in [Procs -> Rows] /\ proc'[p].at = "closed"
      /\ \A q \in Procs \ {p} : proc'[q] = proc[q]
  BY LeaveView, ClosedRow DEF IInv
<1>3. Types'
  BY <1>2, LeaveView DEF IInv, Types
<1>4. Behind(p)'
  BY <1>2 DEF Behind, At
<1>5. ASSUME NEW q \in Procs \ {p} PROVE Behind(q)'
  BY <1>1, <1>2, OthersKeepUp
<1>. QED BY <1>1, <1>3, <1>4, <1>5, OpenStep

LEMMA OpenedInv ==
  ASSUME IInv, NEW p \in Procs, Opened(p)
  PROVE  IInv' /\ View' = View /\ backup' = backup
<1>1. /\ At(p, "migrate") /\ proc[p].next > Build[p] /\ Goes(p, "open", proc[p].next)
      /\ UNCHANGED <<dbFile, wal, stale, backup, restore, restored>>
  BY DEF Opened
<1>2. ~At(p, "closed") /\ View' = View
  BY <1>1 DEF At, View
<1>3. restore' = "idle" /\ restored' = Absent /\ View' \in Good
  BY <1>1, <1>2, OpenFacts
<1>4. /\ proc[p].next \in 1 .. 7 /\ Build[p] \in 1 .. 6
      /\ 1 .. (proc[p].next - 1) \subseteq View.tracked
  BY <1>1, StorageAssumption DEF IInv, Types, Rows, SchemaInv, Behind, At, Versions
<1>5. 1 .. Build[p] \subseteq View'.tracked
  BY <1>1, <1>2, <1>4
<1>6. /\ proc' \in [Procs -> Rows] /\ proc'[p].at = "open"
      /\ \A q \in Procs \ {p} : proc'[q] = proc[q]
  BY <1>1, <1>4, GoesRow DEF IInv
<1>7. Types'
  BY <1>1, <1>6 DEF IInv, Types
<1>8. Behind(p)'
  BY <1>5, <1>6 DEF Behind, At
<1>9. ASSUME NEW q \in Procs \ {p} PROVE Behind(q)'
  BY <1>2, <1>6, OthersKeepUp
<1>. QED BY <1>1, <1>2, <1>3, <1>7, <1>8, <1>9, OpenStep

LEMMA WriteInv ==
  ASSUME IInv, NEW p \in Procs, NEW x \in Facts, Write(p, x)
  PROVE  IInv' /\ View' = [View EXCEPT !.data = @ \cup {x}] /\ backup' = backup
<1>. DEFINE image == [View EXCEPT !.data = @ \cup {x}]
<1>1. At(p, "open") /\ Commit(image) /\ UNCHANGED <<backup, proc, restore, restored>>
  BY DEF Write
<1>2. ~At(p, "closed") /\ View \in Good
  BY <1>1, OpenFacts DEF At
<1>3. image \in Good /\ image.tracked = View.tracked
  BY <1>2 DEF Good, Image, Sound
<1>. HIDE DEF image
<1>4. View' = image /\ wal' = image /\ dbFile' = dbFile /\ stale' = stale
  BY <1>1, <1>2, <1>3, CommitView
<1>5. restore' = "idle" /\ restored' = Absent
  BY <1>1, <1>2, OpenFacts
<1>6. Types'
  BY <1>1, <1>3, <1>4 DEF IInv, Types
<1>7. ASSUME NEW q \in Procs PROVE Behind(q)'
  BY <1>1, <1>3, <1>4, OthersKeepUp
<1>8. IInv'
  BY <1>3, <1>4, <1>5, <1>6, <1>7, OpenStep
<1>. QED BY <1>1, <1>4, <1>8 DEF image

LEMMA CheckpointInv ==
  ASSUME IInv, Checkpoint
  PROVE  IInv' /\ View' = View /\ backup' = backup
<1>1. PICK p \in Procs : ~At(p, "closed")
  BY DEF Checkpoint
<1>2. /\ wal # Absent /\ dbFile' = wal /\ wal' = Absent
      /\ UNCHANGED <<stale, backup, proc, restore, restored>>
  BY DEF Checkpoint
<1>3. View' = View /\ View \in Good /\ restore = "idle" /\ restored = Absent
  BY <1>1, <1>2, OpenFacts, GoodFacts DEF View, IInv, Types
<1>4. Types'
  BY <1>2 DEF IInv, Types
<1>5. ASSUME NEW q \in Procs PROVE Behind(q)'
  BY <1>2, <1>3, OthersKeepUp
<1>. QED BY <1>2, <1>3, <1>4, <1>5, OpenStep

LEMMA RemoveBackupInv ==
  ASSUME IInv, NEW p \in Procs, RemoveBackup(p)
  PROVE  IInv' /\ View' = View /\ backup' = Absent /\ View \in Good
<1>1. /\ At(p, "open") /\ backup' = Absent /\ Goes(p, "vacuum", proc[p].next)
      /\ UNCHANGED <<dbFile, wal, stale, restore, restored>>
  BY DEF RemoveBackup
<1>2. ~At(p, "closed") /\ View' = View
  BY <1>1 DEF At, View
<1>3. restore' = "idle" /\ restored' = Absent /\ View' \in Good
  BY <1>1, <1>2, OpenFacts
<1>4. /\ proc' \in [Procs -> Rows] /\ proc'[p].at = "vacuum"
      /\ \A q \in Procs \ {p} : proc'[q] = proc[q]
  <2>1. proc[p].next \in 1 .. 7
    BY DEF IInv, Types, Rows
  <2>. QED BY <2>1, <1>1, GoesRow DEF IInv
<1>5. Types'
  BY <1>1, <1>4 DEF IInv, Types
<1>6. Behind(p)'
  BY <1>1, <1>2, <1>4 DEF IInv, SchemaInv, Behind, At
<1>7. ASSUME NEW q \in Procs \ {p} PROVE Behind(q)'
  BY <1>2, <1>4, OthersKeepUp
<1>. QED BY <1>1, <1>2, <1>3, <1>5, <1>6, <1>7, OpenStep

LEMMA KillInv ==
  ASSUME IInv, NEW p \in Procs, Kill(p)
  PROVE  IInv' /\ View' = View /\ backup' = backup
<1>1. /\ ~At(p, "closed") /\ proc' = [proc EXCEPT ![p] = Closed]
      /\ UNCHANGED <<dbFile, wal, stale, backup, restore, restored>>
  BY DEF Kill
<1>2. View' = View /\ View \in Good /\ restore = "idle" /\ restored = Absent
  BY <1>1, OpenFacts DEF View
<1>3. /\ proc' \in [Procs -> Rows] /\ proc'[p].at = "closed"
      /\ \A q \in Procs \ {p} : proc'[q] = proc[q]
  BY <1>1, ClosedRow DEF IInv
<1>4. Types'
  BY <1>1, <1>3 DEF IInv, Types
<1>5. Behind(p)'
  BY <1>3 DEF Behind, At
<1>6. ASSUME NEW q \in Procs \ {p} PROVE Behind(q)'
  BY <1>2, <1>3, OthersKeepUp
<1>. QED BY <1>1, <1>2, <1>4, <1>5, <1>6, OpenStep

\* While the file is replaced nobody has it open, so only the types and the
\* restore's own part can be disturbed.
LEMMA OfflineStep ==
  ASSUME IInv, AllClosed, UNCHANGED proc, Types', RestoreInv'
  PROVE  IInv'
<1>1. AllClosed'
  BY DEF AllClosed, At
<1>2. SchemaInv'
  BY <1>1 DEF AllClosed, SchemaInv, Behind, At
<1>. QED BY <1>1, <1>2 DEF IInv, OpenInv

LEMMA ValidateInv ==
  ASSUME IInv, NEW p \in Procs, Validate(p)
  PROVE  IInv' /\ View' = View /\ backup' = backup
<1>1. /\ restore = "idle" /\ AllClosed /\ backup \notin {Absent, Torn}
      /\ restore' = "copy" /\ restored' = Absent
      /\ UNCHANGED <<dbFile, wal, stale, backup, proc>>
  BY DEF Validate, AllClosed
<1>2. Types'
  BY <1>1 DEF IInv, Types
<1>3. RestoreInv'
  BY <1>1 DEF IInv, Types, RestoreInv
<1>. QED BY <1>1, <1>2, <1>3, OfflineStep DEF View

LEMMA RestoringFacts ==
  ASSUME IInv, restore # "idle"
  PROVE  AllClosed /\ backup \in Good /\ restored = Absent
BY DEF IInv, OpenInv, RestoreInv

LEMMA CopyInv ==
  ASSUME IInv, Copy
  PROVE  IInv' /\ View' \in {backup, Torn} /\ backup' = backup /\ backup \in Good
<1>1. /\ restore = "copy" /\ stale' = (wal # Absent) /\ UNCHANGED <<wal, backup, proc, restored>>
      /\ \/ dbFile' = backup /\ restore' = "wal"
         \/ dbFile' = Torn /\ restore' = "idle"
  BY DEF Copy
<1>2. AllClosed /\ backup \in Good /\ restored = Absent
  BY <1>1, RestoringFacts
<1>3. Types'
  BY <1>1, <1>2 DEF IInv, Types
<1>4. RestoreInv'
  BY <1>1, <1>2 DEF RestoreInv
<1>5. View' \in {backup, Torn}
  BY <1>1, <1>2, GoodFacts DEF View
<1>. QED BY <1>1, <1>2, <1>3, <1>4, <1>5, OfflineStep

LEMMA ClearLogInv ==
  ASSUME IInv, ClearLog
  PROVE  IInv' /\ View' = backup /\ backup' = backup /\ backup \in Good
<1>1. /\ restore = "wal" /\ wal' = Absent /\ stale' = FALSE /\ restore' = "shm"
      /\ UNCHANGED <<dbFile, backup, proc, restored>>
  BY DEF ClearLog
<1>2. AllClosed /\ backup \in Good /\ dbFile = backup /\ restored = Absent
  BY <1>1, RestoringFacts DEF IInv, RestoreInv
<1>3. Types'
  BY <1>1, <1>2 DEF IInv, Types
<1>4. View' = backup
  BY <1>1, <1>2, GoodFacts DEF View
<1>5. RestoreInv'
  BY <1>1, <1>2, <1>4 DEF RestoreInv
<1>. QED BY <1>1, <1>2, <1>3, <1>4, <1>5, OfflineStep

LEMMA ClearIndexInv ==
  ASSUME IInv, ClearIndex
  PROVE  IInv' /\ View' = View /\ backup' = backup
<1>1. /\ restore = "shm" /\ restore' = "idle" /\ restored' = backup
      /\ UNCHANGED <<dbFile, wal, stale, backup, proc>>
  BY DEF ClearIndex
<1>2. AllClosed /\ View = backup
  BY <1>1, RestoringFacts DEF IInv, RestoreInv
<1>3. Types'
  BY <1>1 DEF IInv, Types
<1>4. View' = View
  BY <1>1 DEF View
<1>5. RestoreInv'
  BY <1>1, <1>2, <1>4 DEF RestoreInv
<1>. QED BY <1>1, <1>2, <1>3, <1>4, <1>5, OfflineStep

LEMMA RestoreFailsInv ==
  ASSUME IInv, RestoreFails
  PROVE  IInv' /\ View' = View /\ backup' = backup
<1>1. restore # "idle" /\ restore' = "idle" /\ UNCHANGED <<dbFile, wal, stale, backup, proc, restored>>
  BY DEF RestoreFails
<1>2. AllClosed /\ restored = Absent
  BY <1>1, RestoringFacts
<1>3. Types'
  BY <1>1 DEF IInv, Types
<1>4. RestoreInv'
  BY <1>1, <1>2 DEF RestoreInv
<1>. QED BY <1>1, <1>2, <1>3, <1>4, OfflineStep DEF View

-----------------------------------------------------------------------------
(* Every step keeps the invariant and is a step of Database or none.       *)

Maps == Durable!Next \/ UNCHANGED <<View, backup>>

LEMMA Step ==
  ASSUME IInv, StorageNext
  PROVE  IInv' /\ Maps
<1>1. ASSUME NEW p \in Procs, NEW job \in {"serve", "backup"}, OpenFile(p, job)
      PROVE  IInv' /\ Maps
  <2>1. View # Torn /\ backup' = backup /\ UNCHANGED <<wal, stale>>
        /\ dbFile' = IF dbFile = Absent THEN Empty ELSE dbFile
    BY <1>1 DEF OpenFile
  <2>2. View' = View \/ (View = Absent /\ View' = Empty)
    BY <2>1, GoodFacts DEF View, IInv, Types
  <2>3. Maps
    BY <2>1, <2>2 DEF Maps, Durable!Next, Durable!Create
  <2>. QED BY <1>1, <2>3, OpenFileInv
<1>2. ASSUME NEW p \in Procs, Applied(p) PROVE IInv' /\ Maps
  BY <1>2, AppliedInv DEF Maps
<1>3. ASSUME NEW p \in Procs, Apply(p) PROVE IInv' /\ Maps
  <2>1. ~At(p, "closed") /\ proc[p].next \notin View.tables /\ At(p, "apply")
    BY <1>3 DEF Apply, At
  <2>2. View.tracked = 1 .. (proc[p].next - 1)
    BY <2>1, MigratedIsGood
  <2>3. View # Absent /\ View # Torn
    BY <2>1, OpenFacts, GoodFacts
  <2>4. proc[p].next \in Versions
    BY <2>1, StorageAssumption DEF IInv, Types, Rows, SchemaInv, Behind, Versions
  <2>5. Durable!Migrate
    BY <1>3, <2>2, <2>3, <2>4, ApplyInv DEF Durable!Migrate, Durable!Opens, Migrated
  <2>. QED BY <1>3, <2>5, ApplyInv DEF Maps, Durable!Next
<1>4. ASSUME NEW p \in Procs, ApplyFails(p) PROVE IInv' /\ Maps
  <2>1. ~At(p, "closed") /\ Leave(p) /\ UNCHANGED <<backup, restore, restored>>
    BY <1>4 DEF ApplyFails, At
  <2>2. backup' \in Good \cup {Absent, Torn}
    BY <2>1 DEF IInv, Types
  <2>. QED BY <2>1, <2>2, LeaveInv DEF Maps
<1>5. ASSUME NEW p \in Procs, Opened(p) PROVE IInv' /\ Maps
  BY <1>5, OpenedInv DEF Maps
<1>6. ASSUME NEW p \in Procs, NEW x \in Facts, Write(p, x) PROVE IInv' /\ Maps
  <2>1. View # Absent /\ View # Torn
    BY <1>6, OpenFacts, GoodFacts DEF Write, At
  <2>2. Durable!Write
    BY <1>6, <2>1, WriteInv DEF Durable!Write, Durable!Opens
  <2>. QED BY <1>6, <2>2, WriteInv DEF Maps, Durable!Next
<1>7. ASSUME NEW p \in Procs, RemoveBackup(p) PROVE IInv' /\ Maps
  <2>1. Durable!Backup
    BY <1>7, RemoveBackupInv, GoodFacts DEF Durable!Backup, Durable!Opens
  <2>. QED BY <1>7, <2>1, RemoveBackupInv DEF Maps, Durable!Next
<1>8. ASSUME NEW p \in Procs, VacuumInto(p) PROVE IInv' /\ Maps
  <2>1. ~At(p, "closed") /\ Leave(p) /\ UNCHANGED <<restore, restored>> /\ backup' \in {View, Torn}
    BY <1>8 DEF VacuumInto, At
  <2>2. View \in Good
    BY <2>1, OpenFacts
  <2>3. IInv' /\ View' = View
    BY <2>1, <2>2, LeaveInv
  <2>4. Durable!Backup
    BY <2>1, <2>2, <2>3, GoodFacts DEF Durable!Backup, Durable!Opens
  <2>. QED BY <2>3, <2>4 DEF Maps, Durable!Next
<1>9. ASSUME NEW p \in Procs, Exit(p) PROVE IInv' /\ Maps
  <2>1. ~At(p, "closed") /\ Leave(p) /\ UNCHANGED <<backup, restore, restored>>
    BY <1>9 DEF Exit, At
  <2>2. backup' \in Good \cup {Absent, Torn}
    BY <2>1 DEF IInv, Types
  <2>. QED BY <2>1, <2>2, LeaveInv DEF Maps
<1>10. ASSUME NEW p \in Procs, Kill(p) PROVE IInv' /\ Maps
  BY <1>10, KillInv DEF Maps
<1>11. ASSUME NEW p \in Procs, Validate(p) PROVE IInv' /\ Maps
  BY <1>11, ValidateInv DEF Maps
<1>12. ASSUME Checkpoint PROVE IInv' /\ Maps
  BY <1>12, CheckpointInv DEF Maps
<1>13. ASSUME Copy PROVE IInv' /\ Maps
  <2>1. Durable!Restore
    BY <1>13, CopyInv, GoodFacts DEF Durable!Restore
  <2>. QED BY <1>13, <2>1, CopyInv DEF Maps, Durable!Next
<1>14. ASSUME ClearLog PROVE IInv' /\ Maps
  <2>1. Durable!Restore
    BY <1>14, ClearLogInv, GoodFacts DEF Durable!Restore
  <2>. QED BY <1>14, <2>1, ClearLogInv DEF Maps, Durable!Next
<1>15. ASSUME ClearIndex PROVE IInv' /\ Maps
  BY <1>15, ClearIndexInv DEF Maps
<1>16. ASSUME RestoreFails PROVE IInv' /\ Maps
  BY <1>16, RestoreFailsInv DEF Maps
<1>. QED BY <1>1, <1>2, <1>3, <1>4, <1>5, <1>6, <1>7, <1>8, <1>9, <1>10, <1>11, <1>12,
            <1>13, <1>14, <1>15, <1>16 DEF StorageNext

LEMMA Stutter ==
  ASSUME IInv, UNCHANGED storageVars
  PROVE  IInv' /\ UNCHANGED <<View, backup>>
<1>1. View' = View
  BY DEF storageVars, View
<1>2. Types' /\ RestoreInv'
  BY <1>1 DEF storageVars, IInv, Types, RestoreInv
<1>3. OpenInv'
  BY <1>1 DEF storageVars, IInv, OpenInv, AllClosed, At
<1>4. SchemaInv'
  BY <1>1 DEF storageVars, IInv, SchemaInv, Behind, At
<1>. QED BY <1>1, <1>2, <1>3, <1>4 DEF storageVars, IInv

\* The invariant holds in every state the file, the log, the backup, the
\* processes and a restore can be in together.
THEOREM Inductive == StorageSpec => []IInv
<1>1. IInv /\ [StorageNext]_storageVars => IInv'
  BY Step, Stutter
<1>. QED BY <1>1, InitInv, PTL DEF StorageSpec

LEMMA Implied == IInv => SchemaIsAPrefix /\ ServingSchemaIsComplete /\ RestoreIsExact
<1>. SUFFICES ASSUME IInv PROVE SchemaIsAPrefix /\ ServingSchemaIsComplete /\ RestoreIsExact
  OBVIOUS
<1>1. View \in Good \cup {Absent, Torn}
  BY DEF IInv, Types, View
<1>2. SchemaIsAPrefix
  BY <1>1 DEF IInv, Types, Good, SchemaIsAPrefix
<1>3. ASSUME NEW p \in Procs, proc[p].at \in {"open", "vacuum"}
      PROVE  1 .. Build[p] \subseteq View.tables
  <2>1. View \in Good
    BY <1>3, OpenFacts DEF At
  <2>2. View.tables = View.tracked
    BY <2>1 DEF Good, Sound
  <2>. QED BY <1>3, <2>2 DEF IInv, SchemaInv, Behind
<1>4. RestoreIsExact
  BY DEF IInv, RestoreInv, RestoreIsExact
<1>. QED BY <1>2, <1>3, <1>4 DEF ServingSchemaIsComplete

\* Whatever builds share the file, and wherever they are killed, a database or
\* a backup that opens has the tables it records and no gap among them
\* (migrations::apply_all, SqliteBackend::backup_to).
THEOREM SchemaIsAlwaysAPrefix == StorageSpec => []SchemaIsAPrefix
BY Inductive, Implied, PTL

\* No process serves before every table its build knows exists
\* (open_and_migrate).
THEOREM SchemaIsAlwaysComplete == StorageSpec => []ServingSchemaIsComplete
BY Inductive, Implied, PTL

\* A restore that reported success left exactly the snapshot, whatever log a
\* killed process had left (restore_database).
THEOREM RestoreIsAlwaysExact == StorageSpec => []RestoreIsExact
BY Inductive, Implied, PTL

\* With any number of processes, of any builds, killed anywhere, the file is
\* the database Database specifies.
THEOREM DatabaseIsImplemented == StorageSpec => ImplementsDatabase
<1>1. StorageInit => Durable!Init
  <2>1. StorageInit => View = Absent
    BY GoodFacts DEF StorageInit, View
  <2>. QED BY <2>1 DEF StorageInit, Durable!Init
<1>2. IInv /\ [StorageNext]_storageVars => [Durable!Next]_<<View, backup>>
  BY Step, Stutter DEF Maps
<1>. QED BY <1>1, <1>2, Inductive, PTL DEF StorageSpec, ImplementsDatabase, Durable!Spec

-----------------------------------------------------------------------------
(* The configuration (HostConfig)                                         *)

-----------------------------------------------------------------------------
(* Configurations.                                                         *)

\* The configuration of a host without a file is one it can start with.
LEMMA DefaultIsValid == DefaultConfig \in Config /\ Valid(DefaultConfig)
<1>1. DefaultConfig \in Config
  BY ConstantsAssumption DEF DefaultConfig, Config, RetentionLevels
<1>. QED BY <1>1 DEF DefaultConfig, Valid, Ids

\* What a settings request makes of a configuration is one, with the pause
\* switch where it was.
LEMMA SettingsType ==
  ASSUME NEW c \in Config, NEW level \in RetentionLevels \cup {None}, NEW cadence \in Cadences
  PROVE  LET d == [c EXCEPT !.retention = IF level = None THEN @ ELSE level,
                            !.cadence = cadence]
         IN  d \in Config /\ d.paused = c.paused
  BY DEF Config

LEMMA RemovedType ==
  ASSUME NEW c \in Config, NEW p \in Ids
  PROVE  Removed(c, p) \in Config /\ Removed(c, p).paused = c.paused
  BY DEF Config, Removed

LEMMA UpdatedType ==
  ASSUME NEW c \in Config, NEW p \in Ids, NEW kind \in TypedKinds \cup {None},
         NEW makeDefault \in BOOLEAN
  PROVE  /\ Updated(c, p, kind, makeDefault) \in Config
         /\ Updated(c, p, kind, makeDefault).paused = c.paused
<1> DEFINE new == CASE kind # None -> kind
                    [] kind = None /\ c.providers[p] # None -> c.providers[p]
                    [] OTHER -> "openai_compatible"
<1>1. new \in TypedKinds \cup KnownKinds \cup {None}
  BY DEF Config, KnownKinds
<1>2. Updated(c, p, kind, makeDefault) =
        [c EXCEPT !.providers[p] = new, !.default = IF makeDefault THEN p ELSE @]
  BY DEF Updated
<1> HIDE DEF new
<1>. QED BY <1>1, <1>2 DEF Config

LEMMA PausedType ==
  ASSUME NEW c \in Config, NEW on \in BOOLEAN
  PROVE  LET d == [c EXCEPT !.paused = on]
         IN  d \in Config /\ d.paused = on /\ (Valid(d) <=> Valid(c))
<1>1. LET d == [c EXCEPT !.paused = on]
      IN  /\ d \in Config /\ d.paused = on
          /\ d.providers = c.providers /\ d.default = c.default
  BY DEF Config
<1>. QED BY <1>1 DEF Valid

-----------------------------------------------------------------------------
(* What a save leaves *)

\* The file, the answer and what the user may expect after a save, whatever
\* its outcome.
LEMMA SaveType ==
  ASSUME TypeOK, NEW c \in Config, NEW outcome, NEW settings \in BOOLEAN,
         Save(c, outcome, settings)
  PROVE  /\ file' \in [state : FileStates, config : Config]
         /\ saved' \in [known : BOOLEAN, config : Config]
         /\ warned' \in BOOLEAN
         /\ FromFile' <=> FromFile
         /\ outcome = "saved" => FromFile
         /\ \/ /\ outcome = "saved" /\ file' = [state |-> "whole", config |-> c]
               /\ saved'.known /\ saved'.config = c
               /\ warned' <=> warned /\ ~settings
            \/ /\ outcome = "cut" /\ file'.state = "broken"
               /\ ~saved'.known /\ warned'
            \/ /\ outcome \notin {"saved", "cut"} /\ file' = file
               /\ ~saved'.known
               /\ warned' \/ (~FromFile /\ (warned' <=> warned))
<1>0. outcome \in {"saved", "unopened", "cut", "in_memory"} /\ (outcome = "in_memory" <=> ~FromFile)
  BY DEF Save, Outcomes
<1>1. CASE outcome = "saved"
  <2>1. /\ file' = [state |-> "whole", config |-> c]
        /\ saved' = [known |-> TRUE, config |-> c]
        /\ warned' = (warned /\ ~settings)
    BY <1>1 DEF Save, ToToml
  <2>. QED BY <1>0, <1>1, <2>1 DEF FileStates, FromFile
<1>2. CASE outcome = "cut"
  <2>1. /\ file' = [file EXCEPT !.state = "broken"]
        /\ saved' = [known |-> FALSE, config |-> c]
        /\ warned' = TRUE
    BY <1>2 DEF Save
  <2>. QED BY <1>0, <1>2, <2>1 DEF FileStates, FromFile, TypeOK
<1>3. CASE outcome = "unopened"
  <2>1. file' = file /\ saved' = [known |-> FALSE, config |-> c] /\ warned' = TRUE
    BY <1>3 DEF Save
  <2>. QED BY <1>3, <2>1 DEF FromFile, TypeOK
<1>4. CASE outcome = "in_memory"
  <2>1. file' = file /\ saved' = [known |-> FALSE, config |-> c] /\ warned' = warned
    BY <1>4 DEF Save
  <2>. QED BY <1>0, <1>4, <2>1 DEF FromFile, TypeOK
<1>. QED BY <1>0, <1>1, <1>2, <1>3, <1>4

\* The end of a settings write.  One that is refused leaves all but the live
\* copy, and the user was told.
LEMMA SettingsWriteType ==
  ASSUME TypeOK, NEW c \in Config, RespondSettingsWrite(c)
  PROVE  /\ live' = c
         /\ file' \in [state : FileStates, config : Config]
         /\ saved' \in [known : BOOLEAN, config : Config]
         /\ warned' \in BOOLEAN
         /\ FromFile' <=> FromFile
         /\ Valid(c) \/ warned'
         /\ \/ /\ file' = [state |-> "whole", config |-> c] /\ FromFile
               /\ saved'.known /\ saved'.config = c
               /\ Valid(c)
            \/ /\ file'.state = "broken" /\ ~saved'.known /\ warned'
            \/ /\ file' = file /\ (saved' = saved \/ ~saved'.known)
               /\ warned' \/ ~FromFile
<1>1. CASE Valid(c)
  <2>1. PICK outcome \in Outcomes : Save(c, outcome, TRUE)
    BY <1>1 DEF RespondSettingsWrite
  <2>2. live' = c
    BY DEF RespondSettingsWrite
  <2>3. /\ file' \in [state : FileStates, config : Config]
        /\ saved' \in [known : BOOLEAN, config : Config]
        /\ warned' \in BOOLEAN
        /\ FromFile' <=> FromFile
        /\ outcome = "saved" => FromFile
        /\ \/ /\ outcome = "saved" /\ file' = [state |-> "whole", config |-> c]
              /\ saved'.known /\ saved'.config = c
           \/ /\ outcome = "cut" /\ file'.state = "broken"
              /\ ~saved'.known /\ warned'
           \/ /\ outcome \notin {"saved", "cut"} /\ file' = file
              /\ ~saved'.known
              /\ warned' \/ ~FromFile
    BY <2>1, SaveType
  <2>. QED BY <1>1, <2>2, <2>3
<1>2. CASE ~Valid(c)
  BY <1>2 DEF RespondSettingsWrite, TypeOK, FromFile
<1>. QED BY <1>1, <1>2

-----------------------------------------------------------------------------
(* Types *)

LEMMA TypeInit == Init => TypeOK
<1>. SUFFICES ASSUME Init PROVE TypeOK
  OBVIOUS
<1>1. file \in [state : FileStates, config : Config]
  BY DefaultIsValid DEF Init, FileStates
<1>2. /\ pause \in [on : BOOLEAN, durable : BOOLEAN]
      /\ saved \in [known : BOOLEAN, config : Config]
  BY DefaultIsValid DEF Init, FromFile
<1>3. shown \in [ProviderIds -> {"unread", "set", "unset", "unknown"}]
  BY DEF Init
<1>4. keys \in [state : FileStates, held : SUBSET Ids]
  BY DEF Init, FileStates
<1>. QED BY <1>1, <1>2, <1>3, <1>4, DefaultIsValid DEF Init, TypeOK

LEMMA SpendType ==
  ASSUME TypeOK, NEW what \in {"requests", "launches", "edits"}, NEW max, Spend(what, max)
  PROVE  spent' \in [requests : Nat, launches : Nat, edits : Nat]
<1>1. spent[what] \in Nat
  BY DEF TypeOK
<1>2. spent[what] + 1 \in Nat
  BY <1>1
<1>. QED BY <1>2 DEF TypeOK, Spend

\* A settings request: what it changed, and that it was a request.  Every one
\* keeps the pause switch of the live copy where it was.
LEMMA SettingsRequest ==
  ASSUME TypeOK,
         \/ \E level \in TypedLevels \cup {None}, cadence \in Cadences : SetSettings(level, cadence)
         \/ \E p \in Ids, kind \in TypedKinds \cup {None}, d \in BOOLEAN : SetProvider(p, kind, d)
         \/ \E p \in Ids : RemoveProvider(p)
  PROVE  /\ Request
         /\ UNCHANGED <<host, running, keys, applied, drained, pause, stored, shown>>
         /\ \/ UNCHANGED <<file, live, saved, warned>>
            \/ \E c \in Config : c.paused = live.paused /\ RespondSettingsWrite(c)
<1>1. live \in Config
  BY DEF TypeOK
<1>2. ASSUME NEW level \in TypedLevels \cup {None}, NEW cadence \in Cadences,
             SetSettings(level, cadence)
      PROVE  \/ UNCHANGED <<file, live, saved, warned>>
             \/ \E c \in Config : c.paused = live.paused /\ RespondSettingsWrite(c)
  <2>1. CASE level \in RetentionLevels \cup {None}
    <3> DEFINE c == [live EXCEPT !.retention = IF level = None THEN @ ELSE level,
                                 !.cadence = cadence]
    <3>1. c \in Config /\ c.paused = live.paused
      BY <1>1, <2>1, SettingsType
    <3>2. RespondSettingsWrite(c)
      BY <1>2, <2>1 DEF SetSettings
    <3> HIDE DEF c
    <3>. QED BY <3>1, <3>2
  <2>2. CASE level \notin RetentionLevels \cup {None}
    BY <1>2, <2>2 DEF SetSettings
  <2>. QED BY <2>1, <2>2
<1>3. ASSUME NEW p \in Ids, NEW kind \in TypedKinds \cup {None}, NEW d \in BOOLEAN,
             SetProvider(p, kind, d)
      PROVE  \E c \in Config : c.paused = live.paused /\ RespondSettingsWrite(c)
  <2>1. /\ Updated(live, p, kind, d) \in Config
        /\ Updated(live, p, kind, d).paused = live.paused
    BY <1>1, UpdatedType
  <2>2. RespondSettingsWrite(Updated(live, p, kind, d))
    BY <1>3 DEF SetProvider
  <2>. QED BY <2>1, <2>2
<1>4. ASSUME NEW p \in Ids, RemoveProvider(p)
      PROVE  \E c \in Config : c.paused = live.paused /\ RespondSettingsWrite(c)
  <2>1. Removed(live, p) \in Config /\ Removed(live, p).paused = live.paused
    BY <1>1, RemovedType
  <2>2. RespondSettingsWrite(Removed(live, p))
    BY <1>4 DEF RemoveProvider
  <2>. QED BY <2>1, <2>2
<1>. QED BY <1>2, <1>3, <1>4 DEF SetSettings, SetProvider, RemoveProvider

\* The same of the pause switch.
LEMMA PauseRequest ==
  ASSUME TypeOK, NEW on \in BOOLEAN, SetPause(on)
  PROVE  /\ Request
         /\ UNCHANGED <<host, running, keys, applied, drained, stored, shown>>
         /\ \E c \in Config, outcome \in Outcomes :
              /\ c.paused = on /\ live' = c /\ (Valid(c) <=> Valid(live))
              /\ Save(c, outcome, FALSE)
              /\ pause' = [on |-> on, durable |-> outcome = "saved"]
<1> DEFINE c == [live EXCEPT !.paused = on]
<1>1. c \in Config /\ c.paused = on /\ (Valid(c) <=> Valid(live))
  BY PausedType DEF TypeOK
<1>2. PICK outcome \in Outcomes :
        /\ Save(c, outcome, FALSE)
        /\ pause' = [on |-> on, durable |-> outcome = "saved"]
  BY DEF SetPause
<1>3. live' = c
  BY DEF SetPause
<1> HIDE DEF c
<1>. QED BY <1>1, <1>2, <1>3 DEF SetPause

LEMMA TypeStep == TypeOK /\ [Next]_vars => TypeOK'
<1>. SUFFICES ASSUME TypeOK, [Next]_vars
              PROVE  TypeOK'
  OBVIOUS
<1>1. CASE \/ \E level \in TypedLevels \cup {None}, cadence \in Cadences : SetSettings(level, cadence)
           \/ \E p \in Ids, kind \in TypedKinds \cup {None}, d \in BOOLEAN : SetProvider(p, kind, d)
           \/ \E p \in Ids : RemoveProvider(p)
  <2>1. /\ Request
        /\ UNCHANGED <<host, running, keys, applied, drained, pause, stored, shown>>
        /\ \/ UNCHANGED <<file, live, saved, warned>>
           \/ \E c \in Config : c.paused = live.paused /\ RespondSettingsWrite(c)
    BY <1>1, SettingsRequest
  <2>2. spent' \in [requests : Nat, launches : Nat, edits : Nat]
    BY <2>1, SpendType DEF Request
  <2>3. CASE UNCHANGED <<file, live, saved, warned>>
    BY <2>1, <2>2, <2>3 DEF TypeOK
  <2>4. ASSUME NEW c \in Config, RespondSettingsWrite(c)
        PROVE  TypeOK'
    <3>1. /\ live' = c
          /\ file' \in [state : FileStates, config : Config]
          /\ saved' \in [known : BOOLEAN, config : Config]
          /\ warned' \in BOOLEAN
      BY <2>4, SettingsWriteType
    <3>. QED BY <2>1, <2>2, <3>1 DEF TypeOK
  <2>. QED BY <2>1, <2>3, <2>4
<1>2. ASSUME NEW on \in BOOLEAN, SetPause(on)
      PROVE  TypeOK'
  <2>1. /\ Request
        /\ UNCHANGED <<host, running, keys, applied, drained, stored, shown>>
        /\ \E c \in Config, outcome \in Outcomes :
             /\ c.paused = on /\ live' = c /\ (Valid(c) <=> Valid(live))
             /\ Save(c, outcome, FALSE)
             /\ pause' = [on |-> on, durable |-> outcome = "saved"]
    BY <1>2, PauseRequest
  <2>2. spent' \in [requests : Nat, launches : Nat, edits : Nat]
    BY <2>1, SpendType DEF Request
  <2>3. PICK c \in Config, outcome \in Outcomes :
             /\ live' = c
             /\ Save(c, outcome, FALSE)
             /\ pause' = [on |-> on, durable |-> outcome = "saved"]
    BY <2>1
  <2>4. /\ file' \in [state : FileStates, config : Config]
        /\ saved' \in [known : BOOLEAN, config : Config]
        /\ warned' \in BOOLEAN
    BY <2>3, SaveType
  <2>. QED BY <2>1, <2>2, <2>3, <2>4 DEF TypeOK
<1>3. ASSUME NEW p \in ProviderIds, SetSecret(p)
      PROVE  TypeOK'
  <2>1. spent' \in [requests : Nat, launches : Nat, edits : Nat]
    BY <1>3, SpendType DEF SetSecret, Request
  <2>2. keys' \in [state : FileStates, held : SUBSET Ids]
    BY <1>3 DEF SetSecret, PutKey, TypeOK, FileStates, Ids
  <2>3. stored' \subseteq ProviderIds
    BY <1>3 DEF SetSecret, TypeOK
  <2>4. shown' \in [ProviderIds -> {"unread", "set", "unset", "unknown"}]
    BY <1>3 DEF SetSecret, TypeOK
  <2>. QED BY <1>3, <2>1, <2>2, <2>3, <2>4 DEF SetSecret, TypeOK
<1>4. CASE GetSettings
  <2>1. shown' \in [ProviderIds -> {"unread", "set", "unset", "unknown"}]
    BY <1>4 DEF GetSettings, SecretIsSet
  <2>. QED BY <1>4, <2>1 DEF GetSettings, TypeOK
<1>5. CASE CrashInSave
  <2>1. spent' \in [requests : Nat, launches : Nat, edits : Nat]
    BY <1>5, SpendType DEF CrashInSave, Request
  <2>2. /\ file' \in [state : FileStates, config : Config]
        /\ saved' \in [known : BOOLEAN, config : Config]
        /\ warned' \in BOOLEAN
    BY <1>5, SaveType DEF CrashInSave, TypeOK
  <2>. QED BY <1>5, <2>1, <2>2 DEF CrashInSave, TypeOK
<1>6. CASE Launch
  <2>1. spent' \in [requests : Nat, launches : Nat, edits : Nat]
    BY <1>6, SpendType DEF Launch
  <2>2. live' \in Config /\ running' \in Config /\ host' \in {"launching", "serving"}
    BY <1>6, DefaultIsValid DEF Launch, TypeOK
  <2>3. pause' \in [on : BOOLEAN, durable : BOOLEAN]
    BY <1>6 DEF Launch, TypeOK
  <2>. QED BY <1>6, <2>1, <2>2, <2>3 DEF Launch, TypeOK
<1>7. CASE LaunchFails
  <2>1. spent' \in [requests : Nat, launches : Nat, edits : Nat]
    BY <1>7, SpendType DEF LaunchFails
  <2>. QED BY <1>7, <2>1 DEF LaunchFails, history, TypeOK
<1>8. CASE CatchUp \/ Tick \/ End
  BY <1>8 DEF CatchUp, Tick, End, DrainFollowups, history, TypeOK
<1>9. CASE NewMail
  <2>1. spent' \in [requests : Nat, launches : Nat, edits : Nat]
    BY <1>9, SpendType DEF NewMail, Request
  <2>. QED BY <1>9, <2>1 DEF NewMail, history, TypeOK
<1>10. CASE EditFile(DefaultConfig)
  <2>1. spent' \in [requests : Nat, launches : Nat, edits : Nat]
    BY <1>10, SpendType DEF EditFile
  <2>2. file' \in [state : FileStates, config : Config]
    BY <1>10, DefaultIsValid DEF EditFile, FileStates
  <2>3. /\ pause' \in [on : BOOLEAN, durable : BOOLEAN]
        /\ saved' \in [known : BOOLEAN, config : Config]
        /\ warned' \in BOOLEAN
    BY <1>10 DEF EditFile, TypeOK
  <2>. QED BY <1>10, <2>1, <2>2, <2>3 DEF EditFile, TypeOK
<1>11. CASE DamageKeys
  <2>1. spent' \in [requests : Nat, launches : Nat, edits : Nat]
    BY <1>11, SpendType DEF DamageKeys
  <2>. QED BY <1>11, <2>1 DEF DamageKeys, FileStates, history, TypeOK
<1>12. CASE RepairKeys
  BY <1>12 DEF RepairKeys, FileStates, history, TypeOK
<1>13. CASE UNCHANGED vars
  BY <1>13 DEF vars, history, TypeOK
<1>. QED
  BY <1>1, <1>2, <1>3, <1>4, <1>5, <1>6, <1>7, <1>8, <1>9, <1>10, <1>11, <1>12, <1>13
  DEF Next, Settings

\* In every reachable state the variables have their types.
THEOREM TypeCorrect == Spec => []TypeOK
<1>. QED BY TypeInit, TypeStep, PTL DEF Spec

-----------------------------------------------------------------------------
(* The pause switch, the answer of a save and the warning of the user *)

\* The pause the user was told of is the live copy's while a host runs, and
\* the file's when it was answered as saved: a launch brings it back.
PauseHolds ==
  /\ pause.on /\ host \in {"launching", "serving"} => live.paused
  /\ pause.on /\ pause.durable => FromFile /\ (file.state = "whole" => file.config.paused)

\* What was last answered as saved is what the file holds.
SavedIsInFile == saved.known => file.state = "whole" /\ file.config = saved.config

\* A value that was refused stays live, so that any save may carry it into the
\* file: the user has been told of it all that time.
RefusedIsForetold == ~Valid(live) => warned

ConfigInv == PauseHolds /\ SavedIsInFile /\ RefusedIsForetold /\ UnstartableIsForetold

LEMMA ConfigInit == Init => ConfigInv
<1>. SUFFICES ASSUME Init PROVE ConfigInv
  OBVIOUS
<1>1. file.config = DefaultConfig /\ file.state \in {"absent", "whole"}
  BY DEF Init
<1>. QED
  BY <1>1, DefaultIsValid
  DEF Init, ConfigInv, PauseHolds, SavedIsInFile, RefusedIsForetold, UnstartableIsForetold,
      Loadable, FromFile

\* A step that touches none of it.
LEMMA ConfigFrame ==
  ASSUME ConfigInv, UNCHANGED <<file, live, pause, saved, warned>>,
         host' \in {"launching", "serving"} => host \in {"launching", "serving"}
  PROVE  ConfigInv'
  BY DEF ConfigInv, PauseHolds, SavedIsInFile, RefusedIsForetold, UnstartableIsForetold,
         Loadable, FromFile

LEMMA ConfigStep == TypeOK /\ ConfigInv /\ [Next]_vars => ConfigInv'
<1>. SUFFICES ASSUME TypeOK, ConfigInv, [Next]_vars
              PROVE  ConfigInv'
  OBVIOUS
<1>1. CASE \/ \E level \in TypedLevels \cup {None}, cadence \in Cadences : SetSettings(level, cadence)
           \/ \E p \in Ids, kind \in TypedKinds \cup {None}, d \in BOOLEAN : SetProvider(p, kind, d)
           \/ \E p \in Ids : RemoveProvider(p)
  <2>1. /\ host = "serving"
        /\ UNCHANGED <<host, pause>>
        /\ \/ UNCHANGED <<file, live, saved, warned>>
           \/ \E c \in Config : c.paused = live.paused /\ RespondSettingsWrite(c)
    BY <1>1, SettingsRequest DEF Request
  <2>2. CASE UNCHANGED <<file, live, saved, warned>>
    BY <2>1, <2>2, ConfigFrame
  <2>3. ASSUME NEW c \in Config, c.paused = live.paused, RespondSettingsWrite(c)
        PROVE  ConfigInv'
    <3>1. /\ live' = c
          /\ FromFile' <=> FromFile
          /\ Valid(c) \/ warned'
          /\ \/ /\ file' = [state |-> "whole", config |-> c] /\ FromFile
                /\ saved'.known /\ saved'.config = c
                /\ Valid(c)
             \/ /\ file'.state = "broken" /\ ~saved'.known /\ warned'
             \/ /\ file' = file /\ (saved' = saved \/ ~saved'.known)
                /\ warned' \/ ~FromFile
      BY <2>3, SettingsWriteType
    <3>2. PauseHolds'
      BY <2>1, <2>3, <3>1 DEF ConfigInv, PauseHolds
    <3>3. SavedIsInFile'
      BY <3>1 DEF ConfigInv, SavedIsInFile
    <3>4. RefusedIsForetold'
      BY <3>1 DEF RefusedIsForetold
    <3>5. UnstartableIsForetold'
      BY <3>1 DEF UnstartableIsForetold, Loadable
    <3>. QED BY <3>2, <3>3, <3>4, <3>5 DEF ConfigInv
  <2>. QED BY <2>1, <2>2, <2>3
<1>2. ASSUME NEW on \in BOOLEAN, SetPause(on)
      PROVE  ConfigInv'
  <2>1. PICK c \in Config, outcome \in Outcomes :
          /\ c.paused = on /\ live' = c /\ (Valid(c) <=> Valid(live))
          /\ Save(c, outcome, FALSE)
          /\ pause' = [on |-> on, durable |-> outcome = "saved"]
    BY <1>2, PauseRequest
  <2>2. /\ FromFile' <=> FromFile
        /\ outcome = "saved" => FromFile
        /\ \/ /\ outcome = "saved" /\ file' = [state |-> "whole", config |-> c]
              /\ saved'.known /\ saved'.config = c
              /\ warned' <=> warned
           \/ /\ outcome = "cut" /\ file'.state = "broken"
              /\ ~saved'.known /\ warned'
           \/ /\ outcome \notin {"saved", "cut"} /\ file' = file
              /\ ~saved'.known
              /\ warned' \/ (~FromFile /\ (warned' <=> warned))
    BY <2>1, SaveType
  <2>3. live'.paused = on /\ (pause'.on => on) /\ (pause'.durable => outcome = "saved")
    BY <2>1
  <2>4. outcome = "saved" => FromFile' /\ file'.config = c
    BY <2>2
  <2>5. PauseHolds'
    BY <2>1, <2>3, <2>4 DEF PauseHolds
  <2>6. SavedIsInFile'
    BY <2>2 DEF ConfigInv, SavedIsInFile
  <2>7. RefusedIsForetold'
    BY <2>1, <2>2 DEF ConfigInv, RefusedIsForetold
  <2>8. UnstartableIsForetold'
    BY <2>1, <2>2 DEF ConfigInv, RefusedIsForetold, UnstartableIsForetold, Loadable
  <2>. QED BY <2>5, <2>6, <2>7, <2>8 DEF ConfigInv
<1>3. CASE CrashInSave
  <2>1. /\ FromFile' <=> FromFile
        /\ file'.state = "broken" /\ ~saved'.known /\ warned'
    <3>1. live \in Config /\ Save(live, "cut", TRUE)
      BY <1>3 DEF CrashInSave, TypeOK
    <3>2. /\ FromFile' <=> FromFile
          /\ \/ "cut" = "saved"
             \/ file'.state = "broken" /\ ~saved'.known /\ warned'
             \/ "cut" \notin {"saved", "cut"}
      BY <3>1, SaveType, Zenon
    <3>. QED BY <3>2
  <2>2. PauseHolds'
    BY <1>3, <2>1 DEF CrashInSave, ConfigInv, PauseHolds
  <2>3. SavedIsInFile'
    BY <2>1 DEF SavedIsInFile
  <2>4. RefusedIsForetold' /\ UnstartableIsForetold'
    BY <2>1 DEF RefusedIsForetold, UnstartableIsForetold
  <2>. QED BY <2>2, <2>3, <2>4 DEF ConfigInv
<1>4. CASE Launch
  <2>1. /\ UNCHANGED <<file, saved>>
        /\ Loadable
        /\ live' = IF FromFile THEN file.config ELSE DefaultConfig
        /\ pause'.on => pause.on /\ pause.durable
        /\ pause'.durable = pause.durable
    BY <1>4 DEF Launch, TypeOK
  <2>2. PauseHolds'
    BY <2>1 DEF ConfigInv, PauseHolds, Loadable, FromFile
  <2>3. Valid(live')
    BY <2>1, DefaultIsValid DEF Loadable
  <2>4. RefusedIsForetold' /\ UnstartableIsForetold'
    BY <2>1, <2>3 DEF RefusedIsForetold, UnstartableIsForetold, Loadable, FromFile
  <2>. QED BY <2>1, <2>2, <2>4 DEF ConfigInv, SavedIsInFile
<1>5. CASE EditFile(DefaultConfig)
  BY <1>5, DefaultIsValid
  DEF EditFile, ConfigInv, PauseHolds, SavedIsInFile, RefusedIsForetold,
      UnstartableIsForetold, Loadable, FromFile, TypeOK
<1>6. ASSUME NEW p \in ProviderIds, SetSecret(p)
      PROVE  ConfigInv'
  BY <1>6, ConfigFrame DEF SetSecret
<1>7. CASE \/ GetSettings \/ LaunchFails \/ CatchUp \/ Tick \/ NewMail \/ End
           \/ DamageKeys \/ RepairKeys
  BY <1>7, ConfigFrame
  DEF GetSettings, LaunchFails, CatchUp, Tick, NewMail, End, DamageKeys, RepairKeys,
      DrainFollowups, history
<1>8. CASE UNCHANGED vars
  BY <1>8, ConfigFrame DEF vars, history
<1>. QED
  BY <1>1, <1>2, <1>3, <1>4, <1>5, <1>6, <1>7, <1>8 DEF Next, Settings

\* HostConfig's invariants hold in every reachable state.
LEMMA ConfigIsInvariant == Spec => [](TypeOK /\ ConfigInv)
<1>. QED BY TypeInit, TypeStep, ConfigInit, ConfigStep, PTL DEF Spec

-----------------------------------------------------------------------------
(* Theorems *)

\* When the file does not load, the user was told of a write that was refused
\* or failed since the last launch and the last settings write that was
\* answered as saved, or the host died in a write, or a person wrote the file:
\* respond_settings_write looks at the whole live copy before it answers that
\* all is saved.
THEOREM UnstartableFilesAreForetold == Spec => []UnstartableIsForetold
<1>1. TypeOK /\ ConfigInv => UnstartableIsForetold
  BY DEF ConfigInv
<1>. QED BY <1>1, ConfigIsInvariant, PTL

\* Only a new mail applies actions, and not while the live copy is paused.
LEMMA AppliedByNewMail ==
  ASSUME Next, applied' # applied
  PROVE  NewMail
<1>1. CASE Settings
  <2>1. ASSUME NEW level, NEW cadence, SetSettings(level, cadence)
        PROVE  applied' = applied
    BY <2>1 DEF SetSettings, Request
  <2>2. ASSUME NEW p, NEW kind, NEW d, SetProvider(p, kind, d)
        PROVE  applied' = applied
    BY <2>2 DEF SetProvider
  <2>3. ASSUME NEW p, RemoveProvider(p) \/ SetSecret(p)
        PROVE  applied' = applied
    BY <2>3 DEF RemoveProvider, SetSecret
  <2>4. ASSUME NEW on, SetPause(on)
        PROVE  applied' = applied
    BY <2>4 DEF SetPause
  <2>. QED BY <1>1, <2>1, <2>2, <2>3, <2>4 DEF Settings, GetSettings
<1>2. CASE \/ CrashInSave \/ Launch \/ LaunchFails \/ CatchUp \/ Tick \/ End
           \/ EditFile(DefaultConfig) \/ DamageKeys \/ RepairKeys
  BY <1>2 DEF CrashInSave, Launch, LaunchFails, CatchUp, Tick, End, EditFile,
              DamageKeys, RepairKeys, DrainFollowups
<1>. QED BY <1>1, <1>2 DEF Next

\* Once the user was told that the host is paused, no action is applied until
\* the user resumes, through settings writes, failed saves, crashes, launches.
THEOREM PauseSurvives == Spec => NoApplyWhilePaused
<1>1. TypeOK /\ ConfigInv /\ [Next]_vars => [applied' # applied => ~pause.on]_vars
  <2>. SUFFICES ASSUME ConfigInv, Next, applied' # applied
                PROVE  ~pause.on
    BY DEF vars
  <2>1. host = "serving" /\ ~live.paused
    BY AppliedByNewMail DEF NewMail, Request
  <2>. QED BY <2>1 DEF ConfigInv, PauseHolds
<1>. QED BY <1>1, ConfigIsInvariant, PTL DEF Spec, NoApplyWhilePaused

\* Only Launch starts a host.
LEMMA StartedByLaunch ==
  ASSUME Next, host = "down", host' \in {"launching", "serving"}
  PROVE  Launch
<1>1. CASE Settings
  <2>1. ASSUME NEW level, NEW cadence, SetSettings(level, cadence)
        PROVE  FALSE
    BY <2>1 DEF SetSettings, Request
  <2>2. ASSUME NEW p, NEW kind, NEW d, SetProvider(p, kind, d)
        PROVE  FALSE
    BY <2>2 DEF SetProvider, Request
  <2>3. ASSUME NEW p, RemoveProvider(p) \/ SetSecret(p)
        PROVE  FALSE
    BY <2>3 DEF RemoveProvider, SetSecret, Request
  <2>4. ASSUME NEW on, SetPause(on)
        PROVE  FALSE
    BY <2>4 DEF SetPause, Request
  <2>. QED BY <1>1, <2>1, <2>2, <2>3, <2>4 DEF Settings, GetSettings
<1>2. CASE \/ CrashInSave \/ LaunchFails \/ CatchUp \/ Tick \/ NewMail \/ End
           \/ EditFile(DefaultConfig) \/ DamageKeys \/ RepairKeys
  BY <1>2 DEF CrashInSave, Request, LaunchFails, CatchUp, Tick, NewMail, End, EditFile,
              DamageKeys, RepairKeys, DrainFollowups
<1>. QED BY <1>1, <1>2 DEF Next

\* A launch works with the configuration that was last answered as saved.
THEOREM SavedSettingsTakeEffect == Spec => RestartTakesEffect
<1>1. TypeOK /\ ConfigInv /\ [Next]_vars
        => [host = "down" /\ host' \in {"launching", "serving"} /\ saved.known
              => running' = saved.config /\ live' = saved.config]_vars
  <2>. SUFFICES ASSUME ConfigInv, Next, host = "down", host' \in {"launching", "serving"},
                       saved.known
                PROVE  running' = saved.config /\ live' = saved.config
    BY DEF vars
  <2>1. Launch
    BY StartedByLaunch
  <2>2. file.state = "whole" /\ file.config = saved.config
    BY DEF ConfigInv, SavedIsInFile
  <2>. QED BY <2>1, <2>2 DEF Launch, FromFile
<1>. QED BY <1>1, ConfigIsInvariant, PTL DEF Spec, RestartTakesEffect

-----------------------------------------------------------------------------
(* The follow-up repositories and their fakes (Stores)                     *)

\* A sequence, whatever of.
IsRow(s) == s \in Seq(R!ToSet(s))

LEMMA RowOf ==
  ASSUME NEW s, NEW S, s \in Seq(S)
  PROVE  IsRow(s)
<1>1. Len(s) \in Nat /\ DOMAIN s = 1 .. Len(s) /\ \A i \in 1 .. Len(s) : s[i] \in S
  OBVIOUS
<1>2. s \in [1 .. Len(s) -> R!ToSet(s)]
  BY <1>1 DEF R!ToSet
<1>. QED BY <1>1, <1>2, SeqDef DEF IsRow

LEMMA RowAppended ==
  ASSUME NEW s, IsRow(s), NEW e
  PROVE  /\ IsRow(Append(s, e))
         /\ Len(s) \in Nat /\ Len(Append(s, e)) = Len(s) + 1
         /\ DOMAIN s = 1 .. Len(s) /\ DOMAIN Append(s, e) = 1 .. Len(s) + 1
         /\ \A i \in DOMAIN s : Append(s, e)[i] = s[i]
         /\ Append(s, e)[Len(s) + 1] = e
<1>. DEFINE U == R!ToSet(s) \cup {e}
<1>1. s \in Seq(U) /\ e \in U
  BY SeqMonotonic DEF IsRow
<1>2. Append(s, e) \in Seq(U)
  BY <1>1
<1>3. Len(s) \in Nat /\ Len(Append(s, e)) = Len(s) + 1 /\ DOMAIN s = 1 .. Len(s)
        /\ DOMAIN Append(s, e) = 1 .. Len(s) + 1
        /\ (\A i \in 1 .. Len(s) : Append(s, e)[i] = s[i]) /\ Append(s, e)[Len(s) + 1] = e
  BY <1>1
<1>. QED BY <1>2, <1>3, RowOf

LEMMA RowMapped ==
  ASSUME NEW s, IsRow(s), NEW t, DOMAIN t = DOMAIN s, t = [i \in DOMAIN t |-> t[i]]
  PROVE  IsRow(t) /\ Len(t) = Len(s)
<1>1. Len(s) \in Nat /\ DOMAIN s = 1 .. Len(s)
  BY DEF IsRow
<1>2. t \in [1 .. Len(s) -> R!ToSet(t)]
  BY <1>1 DEF R!ToSet
<1>3. t \in Seq(R!ToSet(t))
  BY <1>1, <1>2, SeqDef
<1>. QED BY <1>1, <1>2, <1>3 DEF IsRow

\* Nine cases of linear arithmetic.
LEMMA FlooredFacts ==
  ASSUME NEW t \in Nat
  PROVE  /\ R!Floored(t) \in Nat /\ R!Floored(t) <= t /\ t <= R!Floored(t) + PerSecond - 1
         /\ R!Floored(R!Floored(t)) = R!Floored(t)
         /\ R!Text(R!Floored(t)) = R!Floored(t) + PerSecond - 1
<1>1. \A p \in 2 .. 10 :
        /\ (t \div p) * p \in Nat /\ (t \div p) * p <= t /\ t <= (t \div p) * p + p - 1
        /\ ((t \div p) * p) \div p = t \div p
        /\ ((t \div p) * p) % p = 0
  <2>. TAKE p \in 2 .. 10
  <2>1. \/ p = 2 \/ p = 3 \/ p = 4 \/ p = 5 \/ p = 6 \/ p = 7 \/ p = 8 \/ p = 9 \/ p = 10
    OBVIOUS
  <2>. QED BY <2>1
<1>. QED BY <1>1, RepositoriesAssumption DEF R!Floored, R!Second, R!Text

LEMMA FlooredMonotone ==
  ASSUME NEW t \in Nat, NEW u \in Nat, t <= u
  PROVE  R!Floored(t) <= R!Floored(u)
<1>1. \A p \in 2 .. 10 : (t \div p) * p <= (u \div p) * p
  <2>. TAKE p \in 2 .. 10
  <2>1. \/ p = 2 \/ p = 3 \/ p = 4 \/ p = 5 \/ p = 6 \/ p = 7 \/ p = 8 \/ p = 9 \/ p = 10
    OBVIOUS
  <2>. QED BY <2>1
<1>. QED BY <1>1, RepositoriesAssumption DEF R!Floored, R!Second

LEMMA SecondFloored ==
  ASSUME NEW t \in Nat
  PROVE  R!Second(R!Floored(t)) = R!Second(t)
<1>1. \A p \in 2 .. 10 : ((t \div p) * p) \div p = t \div p
  <2>. TAKE p \in 2 .. 10
  <2>1. \/ p = 2 \/ p = 3 \/ p = 4 \/ p = 5 \/ p = 6 \/ p = 7 \/ p = 8 \/ p = 9 \/ p = 10
    OBVIOUS
  <2>. QED BY <2>1
<1>. QED BY <1>1, RepositoriesAssumption DEF R!Floored, R!Second

\* The order of two texts tells that of their seconds, if not that of their
\* fractions.
LEMMA TextFacts ==
  ASSUME NEW t \in Nat, NEW u \in Nat
  PROVE  R!Text(t) \in Int /\ (R!Text(t) <= R!Text(u) => R!Second(t) <= R!Second(u))
<1>1. \A p \in 2 .. 10 : \A x \in Nat :
        /\ x \div p \in Nat /\ x % p \in 0 .. p - 1
        /\ (x \div p) * p + (IF x % p = 0 THEN p - 1 ELSE (x % p) - 1)
             \in (x \div p) * p .. (x \div p) * p + p - 1
  <2>. TAKE p \in 2 .. 10
  <2>1. \/ p = 2 \/ p = 3 \/ p = 4 \/ p = 5 \/ p = 6 \/ p = 7 \/ p = 8 \/ p = 9 \/ p = 10
    OBVIOUS
  <2>. QED BY <2>1
<1>2. \A p \in 2 .. 10 : \A m, n \in Nat : m * p <= n * p + p - 1 => m <= n
  <2>. TAKE p \in 2 .. 10
  <2>1. \/ p = 2 \/ p = 3 \/ p = 4 \/ p = 5 \/ p = 6 \/ p = 7 \/ p = 8 \/ p = 9 \/ p = 10
    OBVIOUS
  <2>. QED BY <2>1
<1>3. \A x \in Nat : /\ R!Second(x) \in Nat
                    /\ R!Text(x) \in R!Second(x) * PerSecond .. R!Second(x) * PerSecond + PerSecond - 1
  BY <1>1, RepositoriesAssumption DEF R!Text, R!Second, R!Floored
<1>4. R!Second(t) * PerSecond \in Int /\ R!Second(u) * PerSecond \in Int /\ PerSecond \in 2 .. 10
  BY <1>3, RepositoriesAssumption
<1>5. R!Text(t) \in Int /\ R!Text(u) \in Int
  BY <1>3, <1>4
<1>6. R!Text(t) <= R!Text(u) =>
        R!Second(t) * PerSecond <= R!Second(u) * PerSecond + PerSecond - 1
  BY <1>3, <1>4, <1>5
<1>. QED BY <1>2, <1>3, <1>4, <1>5, <1>6

LEMMA SameCount ==
  ASSUME NEW S, IsFiniteSet(S)
  PROVE  R!Cardinality(S) = Cardinality(S)
BY DEF R!Cardinality, Cardinality

\* Before orders the rows.
LEMMA BeforeFacts ==
  ASSUME NEW S, S \subseteq Nat, NEW key, \A r \in S : key[r] \in Int
  PROVE  /\ \A r \in S : ~R!Before(key, r, r)
         /\ \A r, s \in S : r = s \/ R!Before(key, r, s) \/ R!Before(key, s, r)
         /\ \A r, s, t \in S : R!Before(key, r, s) /\ R!Before(key, s, t) => R!Before(key, r, t)
<1>1. \A r \in S : r \in Nat /\ key[r] \in Int
  OBVIOUS
<1>. QED BY <1>1 DEF R!Before

Rank(S, key, r) == R!Cardinality({s \in S : R!Before(key, s, r)})

\* Ranks are places, and no two rows have the same.
LEMMA RankFacts ==
  ASSUME NEW S, S \subseteq Nat, IsFiniteSet(S), NEW key, \A r \in S : key[r] \in Int
  PROVE  /\ R!Cardinality(S) \in Nat
         /\ \A r \in S : Rank(S, key, r) \in 0 .. R!Cardinality(S) - 1
         /\ \A r, s \in S : R!Before(key, r, s) => Rank(S, key, r) < Rank(S, key, s)
         /\ \A n \in 1 .. R!Cardinality(S) : \E r \in S : Rank(S, key, r) = n - 1
<1>. DEFINE To(r) == {s \in S : R!Before(key, s, r)}
            rank == [r \in S |-> Cardinality(To(r)) + 1]
<1>2. \A r \in S : IsFiniteSet(To(r)) /\ To(r) \subseteq S /\ r \notin To(r)
                   /\ Cardinality(To(r)) \in Nat
  <2>. TAKE r \in S
  <2>1. To(r) \subseteq S /\ r \notin To(r)
    BY BeforeFacts
  <2>. QED BY <2>1, FS_Subset, FS_CardinalityType
<1>3. Cardinality(S) \in Nat /\ R!Cardinality(S) = Cardinality(S)
        /\ \A r \in S : Rank(S, key, r) = Cardinality(To(r))
  BY <1>2, SameCount, FS_CardinalityType DEF Rank
<1>4. \A r \in S : Cardinality(To(r)) + 1 \in 1 .. Cardinality(S)
  <2>. TAKE r \in S
  <2>1. Cardinality(To(r)) <= Cardinality(S) /\ Cardinality(To(r)) # Cardinality(S)
    BY <1>2, FS_Subset
  <2>. QED BY <1>2, <1>3, <2>1
<1>5. ASSUME NEW r \in S, NEW s \in S, R!Before(key, r, s)
      PROVE  Cardinality(To(r)) < Cardinality(To(s))
  <2>1. r \in To(s) /\ r \notin To(r)
    BY <1>2, <1>5
  <2>2. To(r) \subseteq To(s)
    BY <1>5, BeforeFacts
  <2>3. Cardinality(To(r)) <= Cardinality(To(s)) /\ Cardinality(To(r)) # Cardinality(To(s))
    <3>. HIDE DEF To
    <3>. QED BY <1>2, <2>1, <2>2, FS_Subset
  <2>. QED BY <1>2, <2>3
<1>. HIDE DEF To
<1>6. rank \in Injection(S, 1 .. Cardinality(S))
  <2>1. rank \in [S -> 1 .. Cardinality(S)] /\ \A r \in S : rank[r] = Cardinality(To(r)) + 1
    BY <1>4
  <2>2. ASSUME NEW r \in S, NEW s \in S, r # s PROVE rank[r] # rank[s]
    <3>1. R!Before(key, r, s) \/ R!Before(key, s, r)
      BY <2>2, BeforeFacts
    <3>. QED BY <1>2, <1>5, <2>1, <3>1
  <2>. HIDE DEF rank
  <2>. QED BY <2>1, <2>2 DEF Injection, IsInjective
<1>7. IsFiniteSet(1 .. Cardinality(S)) /\ Cardinality(1 .. Cardinality(S)) = Cardinality(S)
  BY <1>3, FS_Interval
<1>8. rank \in Surjection(S, 1 .. Cardinality(S))
  BY <1>6, <1>7, FS_Injection
<1>9. ASSUME NEW n \in 1 .. Cardinality(S) PROVE \E r \in S : Cardinality(To(r)) = n - 1
  <2>1. PICK r \in S : rank[r] = n
    BY <1>8 DEF Surjection
  <2>2. Cardinality(To(r)) + 1 = n
    BY <2>1
  <2>. QED BY <1>2, <2>2
<1>10. \A r \in S : Rank(S, key, r) \in 0 .. Cardinality(S) - 1
  BY <1>2, <1>3, <1>4
<1>. QED BY <1>3, <1>5, <1>9, <1>10

\* A sorted list has each row once, a smaller key before a greater.
LEMMA SortedFacts ==
  ASSUME NEW S, S \subseteq Nat, IsFiniteSet(S), NEW key, \A r \in S : key[r] \in Int,
         NEW list, list = R!Sorted(S, key)
  PROVE  /\ list \in Seq(S) /\ DOMAIN list = 1 .. Len(list) /\ Len(list) \in Nat
         /\ R!ToSet(list) = S
         /\ \A m, n \in DOMAIN list : m < n => key[list[m]] <= key[list[n]]
<1>. DEFINE size == R!Cardinality(S)
<1>1. /\ size \in Nat
      /\ \A r \in S : Rank(S, key, r) \in 0 .. size - 1
      /\ \A r, s \in S : R!Before(key, r, s) => Rank(S, key, r) < Rank(S, key, s)
      /\ \A n \in 1 .. size : \E r \in S : Rank(S, key, r) = n - 1
  BY RankFacts
<1>2. list = [n \in 1 .. size |-> CHOOSE r \in S : Rank(S, key, r) = n - 1]
  BY DEF R!Sorted, Rank
<1>. HIDE DEF size
<1>3. \A n \in 1 .. size : list[n] \in S /\ Rank(S, key, list[n]) = n - 1
  BY <1>1, <1>2
<1>4. list \in Seq(S) /\ Len(list) = size /\ DOMAIN list = 1 .. size
  <2>1. list \in [1 .. size -> S]
    BY <1>2, <1>3
  <2>. QED BY <1>1, <2>1, SeqDef
<1>5. ASSUME NEW r \in S, NEW s \in S, Rank(S, key, r) = Rank(S, key, s) PROVE r = s
  <2>1. r = s \/ R!Before(key, r, s) \/ R!Before(key, s, r)
    BY BeforeFacts
  <2>2. Rank(S, key, r) \in Nat /\ Rank(S, key, s) \in Nat
    BY <1>1
  <2>3. ~(Rank(S, key, r) < Rank(S, key, s)) /\ ~(Rank(S, key, s) < Rank(S, key, r))
    BY <1>5, <2>2
  <2>. QED BY <1>1, <2>1, <2>3
<1>6. R!ToSet(list) = S
  <2>1. ASSUME NEW r \in S PROVE \E n \in 1 .. size : list[n] = r
    <3>. DEFINE n == Rank(S, key, r) + 1
    <3>1. n \in 1 .. size /\ n - 1 = Rank(S, key, r)
      BY <1>1
    <3>. HIDE DEF n
    <3>2. list[n] \in S /\ Rank(S, key, list[n]) = Rank(S, key, r)
      BY <1>3, <3>1
    <3>. QED BY <1>5, <3>1, <3>2
  <2>. QED BY <1>3, <1>4, <2>1 DEF R!ToSet
<1>7. ASSUME NEW m \in 1 .. size, NEW n \in 1 .. size, m < n
      PROVE  key[list[m]] <= key[list[n]]
  <2>1. list[m] \in S /\ list[n] \in S /\ Rank(S, key, list[m]) < Rank(S, key, list[n])
          /\ Rank(S, key, list[m]) \in Int /\ Rank(S, key, list[n]) \in Int
    BY <1>1, <1>3, <1>7
  <2>2. ~R!Before(key, list[n], list[m])
    <3>1. R!Before(key, list[n], list[m]) => Rank(S, key, list[n]) < Rank(S, key, list[m])
      BY <1>1, <2>1
    <3>. QED BY <2>1, <3>1
  <2>3. \A r \in S : r \in Nat /\ key[r] \in Int
    OBVIOUS
  <2>4. key[list[m]] \in Int /\ key[list[n]] \in Int /\ ~(key[list[n]] < key[list[m]])
    BY <2>1, <2>2, <2>3 DEF R!Before
  <2>. QED BY <2>4
<1>. QED BY <1>1, <1>4, <1>6, <1>7

\* The numbers of a definition's versions.
NumbersOf(versions, d) == {v[2] : v \in {w \in versions : w[1] = d}}

Versioned(versions, d, n) == versions \cup {<<d, n>>}

LEMMA NumbersWith ==
  ASSUME NEW versions, NEW e, NEW n, NEW d
  PROVE  NumbersOf(Versioned(versions, e, n), d)
           = IF e = d THEN NumbersOf(versions, d) \cup {n} ELSE NumbersOf(versions, d)
<1>. DEFINE new == <<e, n>>
<1>1. new[1] = e /\ new[2] = n
  OBVIOUS
<1>0. Versioned(versions, e, n) = versions \cup {new}
  BY DEF Versioned
<1>. HIDE DEF new
<1>2. \A S, x : x \in NumbersOf(S, d) <=> \E w \in S : w[1] = d /\ w[2] = x
  BY Zenon DEF NumbersOf
<1>3. \A x : (\E w \in versions \cup {new} : w[1] = d /\ w[2] = x)
              <=> (\E w \in versions : w[1] = d /\ w[2] = x) \/ (e = d /\ x = n)
  BY <1>1
<1>4. \A x : x \in NumbersOf(versions \cup {new}, d)
              <=> x \in NumbersOf(versions, d) \/ (e = d /\ x = n)
  BY <1>2, <1>3
<1>5. NumbersOf(versions \cup {new}, d)
        = IF e = d THEN NumbersOf(versions, d) \cup {n} ELSE NumbersOf(versions, d)
  BY <1>4
<1>. QED BY <1>0, <1>5

\* While the database has refused nothing, the two hold the same rows, but
\* for the fraction of a second that the database takes off a trigger; and the
\* versions of a definition are numbered from one up to the one it points at.
DbTables == {"defs", "versions", "items", "insts", "rows"}
InstColumns == {"item", "thread", "step", "status", "due"}

SameInstance(a, b) ==
  /\ DOMAIN a = InstColumns /\ DOMAIN b = InstColumns
  /\ a.item = b.item /\ a.thread = b.thread /\ a.step = b.step /\ a.status = b.status
  /\ b.due \in Nat \cup {NULL} /\ a.due = R!Stored(b.due)

SameInsts(a, b) ==
  IsRow(a) /\ IsRow(b) /\ Len(a) = Len(b) /\ \A i \in DOMAIN a : SameInstance(a[i], b[i])

Numbered(defs, versions) ==
  /\ IsRow(defs)
  /\ \A d \in DOMAIN defs :
       /\ DOMAIN defs[d] = {"status", "current"} /\ defs[d].current \in Nat
       /\ NumbersOf(versions, d) = 1 .. defs[d].current
  /\ \A v \in versions : v[1] \in DOMAIN defs

Alike(a, b) ==
  /\ DOMAIN a = DbTables /\ DOMAIN b = DbTables
  /\ a.defs = b.defs /\ a.versions = b.versions /\ a.items = b.items /\ a.rows = b.rows
  /\ SameInsts(a.insts, b.insts)
  /\ Numbered(a.defs, a.versions)

MirrorInv == clock \in Nat /\ (~refused => Alike(sql, fake))

LEMMA MirrorInit == R!StoresInit => MirrorInv
<1>. SUFFICES ASSUME R!StoresInit PROVE MirrorInv
  OBVIOUS
<1>1. sql = R!Seeded /\ fake = R!Seeded /\ clock = 0
  BY DEF R!StoresInit
<1>2. DOMAIN R!Seeded = DbTables /\ R!Seeded.insts = <<>> /\ R!Seeded.defs = <<R!Definition>>
        /\ R!Seeded.versions = {<<1, 1>>}
  BY DEF R!Seeded, DbTables
<1>3. SameInsts(<<>>, <<>>)
  <2>1. <<>> \in Seq({}) /\ DOMAIN <<>> = {} /\ Len(<<>>) = 0
    OBVIOUS
  <2>2. IsRow(<<>>)
    BY <2>1, RowOf
  <2>3. IsRow(<<>>) /\ IsRow(<<>>) /\ \A i \in {} : SameInstance(<<>>[i], <<>>[i])
    BY <2>2
  <2>. QED BY <2>1, <2>3, Zenon DEF SameInsts
<1>4. Numbered(<<R!Definition>>, {<<1, 1>>})
  <2>1. IsRow(<<R!Definition>>)
    <3>1. <<R!Definition>> \in Seq({R!Definition})
      OBVIOUS
    <3>. QED BY <3>1, RowOf
  <2>2. DOMAIN <<R!Definition>> = {1} /\ <<R!Definition>>[1] = R!Definition
    OBVIOUS
  <2>3. DOMAIN R!Definition = {"status", "current"} /\ R!Definition.current = 1
    BY DEF R!Definition
  <2>4. NumbersOf({<<1, 1>>}, 1) = 1 .. 1
    <3>. DEFINE first == {<<1, 1>>}
    <3>1. NumbersOf({}, 1) = {} /\ first = Versioned({}, 1, 1)
      BY DEF NumbersOf, Versioned
    <3>. HIDE DEF first
    <3>2. NumbersOf(first, 1) = NumbersOf({}, 1) \cup {1}
      BY <3>1, NumbersWith
    <3>. QED BY <3>1, <3>2 DEF first
  <2>5. <<1, 1>>[1] = 1
    OBVIOUS
  <2>6. Numbered(<<R!Definition>>, {<<1, 1>>})
          <=> /\ IsRow(<<R!Definition>>)
              /\ \A d \in {1} :
                   /\ DOMAIN R!Definition = {"status", "current"} /\ R!Definition.current \in Nat
                   /\ NumbersOf({<<1, 1>>}, d) = 1 .. R!Definition.current
              /\ \A v \in {<<1, 1>>} : v[1] \in {1}
    BY <2>2 DEF Numbered
  <2>. QED BY <2>1, <2>3, <2>4, <2>5, <2>6
<1>. QED BY <1>1, <1>2, <1>3, <1>4 DEF MirrorInv, Alike

\* A first version of a definition of its own.
LEMMA NewDefinition ==
  ASSUME NEW a, NEW b, Alike(a, b)
  PROVE  Alike(R!WithDefinition(a), R!WithDefinition(b))
<1>. DEFINE n == Len(a.defs) + 1
            defs == Append(a.defs, R!Definition)
            versions == a.versions \cup {<<n, 1>>}
<1>1. DOMAIN a = DbTables /\ DOMAIN b = DbTables /\ Numbered(a.defs, a.versions)
  BY DEF Alike
<1>2. /\ IsRow(defs) /\ Len(a.defs) \in Nat /\ DOMAIN a.defs = 1 .. Len(a.defs)
      /\ DOMAIN defs = 1 .. n /\ defs[n] = R!Definition
      /\ \A d \in DOMAIN a.defs : defs[d] = a.defs[d]
  BY <1>1, RowAppended DEF Numbered
<1>3. R!WithDefinition(a) = [a EXCEPT !.defs = defs, !.versions = versions]
        /\ R!WithDefinition(b) = [b EXCEPT !.defs = defs, !.versions = versions]
  BY DEF R!WithDefinition, Alike
<1>4. n \in Nat /\ n \notin DOMAIN a.defs /\ DOMAIN defs = DOMAIN a.defs \cup {n}
  BY <1>2
<1>5. DOMAIN R!Definition = {"status", "current"} /\ R!Definition.current = 1
  BY DEF R!Definition
<1>6. <<n, 1>>[1] = n
  OBVIOUS
<1>. HIDE DEF defs, n
<1>6a. versions = Versioned(a.versions, n, 1)
  BY DEF Versioned
<1>. HIDE DEF versions
<1>7. \A d : NumbersOf(versions, d)
             = IF n = d THEN NumbersOf(a.versions, d) \cup {1} ELSE NumbersOf(a.versions, d)
  BY <1>6a, NumbersWith
<1>8. NumbersOf(a.versions, n) = {}
  BY <1>1, <1>4 DEF Numbered, NumbersOf
<1>9. \A v \in versions : v[1] \in DOMAIN defs
  BY <1>1, <1>4, <1>6, <1>6a DEF Numbered, Versioned
<1>10. ASSUME NEW d \in DOMAIN defs
       PROVE  /\ DOMAIN defs[d] = {"status", "current"} /\ defs[d].current \in Nat
              /\ NumbersOf(versions, d) = 1 .. defs[d].current
  <2>1. CASE d = n
    <3>1. NumbersOf(versions, n) = {1} /\ 1 .. 1 = {1}
      BY <1>7, <1>8
    <3>. QED BY <1>2, <1>5, <2>1, <3>1
  <2>2. CASE d # n
    BY <1>1, <1>2, <1>4, <1>7, <2>2 DEF Numbered
  <2>. QED BY <2>1, <2>2
<1>11. Numbered(defs, versions)
  BY <1>2, <1>9, <1>10 DEF Numbered
<1>. QED BY <1>1, <1>3, <1>11 DEF Alike, DbTables

\* The next number is the one after the definition's own.
LEMMA NextNumber ==
  ASSUME NEW a, NEW b, Alike(a, b), NEW d \in DOMAIN a.defs
  PROVE  /\ R!Numbers(a, d) = 0 .. a.defs[d].current
         /\ R!Max(R!Numbers(a, d)) = a.defs[d].current
<1>1. a.defs[d].current \in Nat /\ NumbersOf(a.versions, d) = 1 .. a.defs[d].current
  BY DEF Alike, Numbered
<1>2. R!Numbers(a, d) = NumbersOf(a.versions, d) \cup {0}
  BY DEF R!Numbers, NumbersOf
<1>3. R!Numbers(a, d) = 0 .. a.defs[d].current
  BY <1>1, <1>2
<1>4. ASSUME NEW n \in Nat PROVE R!Max(0 .. n) = n
  <2>1. \E x \in 0 .. n : \A y \in 0 .. n : x >= y
    OBVIOUS
  <2>. QED BY <2>1 DEF R!Max
<1>. QED BY <1>1, <1>3, <1>4

LEMMA NewVersion ==
  ASSUME NEW a, NEW b, Alike(a, b), NEW d \in DOMAIN a.defs
  PROVE  Alike(R!WithVersion(a, d), R!WithVersion(b, d))
<1>. DEFINE n == a.defs[d].current + 1
            defs == [k \in DOMAIN a.defs |-> IF k = d THEN [a.defs[k] EXCEPT !.current = n]
                                                     ELSE a.defs[k]]
            versions == a.versions \cup {<<d, n>>}
<1>1. DOMAIN a = DbTables /\ DOMAIN b = DbTables /\ Numbered(a.defs, a.versions)
  BY DEF Alike
<1>2. IsRow(a.defs) /\ DOMAIN a.defs[d] = {"status", "current"} /\ a.defs[d].current \in Nat
  BY <1>1 DEF Numbered
<1>3. R!Max(R!Numbers(a, d)) = a.defs[d].current /\ R!Numbers(b, d) = R!Numbers(a, d)
  BY NextNumber DEF R!Numbers, Alike
<1>4. R!WithVersion(a, d) = [a EXCEPT !.versions = versions, !.defs = defs]
        /\ R!WithVersion(b, d) = [b EXCEPT !.versions = versions, !.defs = defs]
  BY <1>1, <1>3 DEF R!WithVersion, Alike, DbTables
<1>5. IsRow(defs) /\ DOMAIN defs = DOMAIN a.defs
  BY <1>2, RowMapped
<1>6. <<d, n>>[1] = d
  OBVIOUS
<1>6a. versions = Versioned(a.versions, d, n)
  BY DEF Versioned
<1>. HIDE DEF versions
<1>7. \A k : NumbersOf(versions, k)
             = IF d = k THEN NumbersOf(a.versions, k) \cup {n} ELSE NumbersOf(a.versions, k)
  BY <1>6a, NumbersWith
<1>8. \A v \in versions : v[1] \in DOMAIN defs
  BY <1>1, <1>5, <1>6, <1>6a DEF Numbered, Versioned
<1>9. defs[d].current = n /\ DOMAIN defs[d] = {"status", "current"} /\ n \in Nat
        /\ 1 .. n = (1 .. a.defs[d].current) \cup {n}
  BY <1>2
<1>10. \A k \in DOMAIN a.defs : k # d => defs[k] = a.defs[k]
  OBVIOUS
<1>. HIDE DEF defs, versions, n
<1>11. ASSUME NEW k \in DOMAIN defs
       PROVE  /\ DOMAIN defs[k] = {"status", "current"} /\ defs[k].current \in Nat
              /\ NumbersOf(versions, k) = 1 .. defs[k].current
  <2>1. CASE k = d
    BY <1>1, <1>7, <1>9, <2>1 DEF Numbered
  <2>2. CASE k # d
    BY <1>1, <1>5, <1>7, <1>10, <2>2 DEF Numbered
  <2>. QED BY <2>1, <2>2
<1>12. Numbered(defs, versions)
  BY <1>5, <1>8, <1>11 DEF Numbered
<1>. QED BY <1>1, <1>4, <1>12 DEF Alike, DbTables

\* One row of a sequence changes, the others stay.
LEMMA RowSet ==
  ASSUME NEW s, IsRow(s), NEW i, NEW e
  PROVE  /\ IsRow([s EXCEPT ![i] = e]) /\ Len([s EXCEPT ![i] = e]) = Len(s)
         /\ DOMAIN [s EXCEPT ![i] = e] = DOMAIN s
         /\ \A k \in DOMAIN s : [s EXCEPT ![i] = e][k] = IF k = i THEN e ELSE s[k]
<1>1. s = [k \in DOMAIN s |-> s[k]]
  BY DEF IsRow
<1>. DEFINE t == [s EXCEPT ![i] = e]
<1>2. DOMAIN t = DOMAIN s /\ t = [k \in DOMAIN t |-> t[k]]
        /\ \A k \in DOMAIN s : t[k] = IF k = i THEN e ELSE s[k]
  BY <1>1
<1>. HIDE DEF t
<1>3. IsRow(t) /\ Len(t) = Len(s)
  BY <1>2, RowMapped
<1>. QED BY <1>2, <1>3 DEF t

LEMMA StoredFacts ==
  ASSUME NEW due \in Nat \cup {NULL}
  PROVE  /\ R!Stored(due) \in Nat \cup {NULL} /\ (R!Stored(due) = NULL <=> due = NULL)
<1>1. CASE due = NULL
  BY <1>1 DEF R!Stored
<1>2. CASE due # NULL
  BY <1>2, FlooredFacts, RepositoriesAssumption DEF R!Stored
<1>. QED BY <1>1, <1>2

LEMMA NewInstance ==
  ASSUME NEW a, NEW b, Alike(a, b), NEW item, NEW due \in Nat \cup {NULL}
  PROVE  Alike(R!WithInstance(a, item, R!Stored(due)), R!WithInstance(b, item, due))
<1>. DEFINE row(to) == [item |-> item, thread |-> a.items[item].thread, step |-> 0,
                        status |-> IF to = NULL THEN "completed" ELSE "active", due |-> to]
            p == Append(a.insts, row(R!Stored(due)))
            q == Append(b.insts, row(due))
<1>1. DOMAIN a = DbTables /\ DOMAIN b = DbTables /\ SameInsts(a.insts, b.insts) /\ a.items = b.items
  BY DEF Alike
<1>2. R!WithInstance(a, item, R!Stored(due)) = [a EXCEPT !.insts = p]
        /\ R!WithInstance(b, item, due) = [b EXCEPT !.insts = q]
  BY <1>1 DEF R!WithInstance
<1>3. SameInstance(row(R!Stored(due)), row(due))
  BY StoredFacts DEF SameInstance, InstColumns
<1>. HIDE DEF row
<1>4. /\ IsRow(p) /\ Len(a.insts) \in Nat /\ Len(p) = Len(a.insts) + 1
      /\ DOMAIN a.insts = 1 .. Len(a.insts) /\ DOMAIN p = 1 .. Len(a.insts) + 1
      /\ \A i \in DOMAIN a.insts : p[i] = a.insts[i]
      /\ p[Len(a.insts) + 1] = row(R!Stored(due))
  BY <1>1, RowAppended DEF SameInsts
<1>5. /\ IsRow(q) /\ Len(b.insts) \in Nat /\ Len(q) = Len(b.insts) + 1
      /\ DOMAIN b.insts = 1 .. Len(b.insts) /\ DOMAIN q = 1 .. Len(b.insts) + 1
      /\ \A i \in DOMAIN b.insts : q[i] = b.insts[i]
      /\ q[Len(b.insts) + 1] = row(due)
  BY <1>1, RowAppended DEF SameInsts
<1>. HIDE DEF p, q
<1>6. Len(a.insts) = Len(b.insts) /\ \A i \in DOMAIN a.insts : SameInstance(a.insts[i], b.insts[i])
  BY <1>1 DEF SameInsts
<1>7. ASSUME NEW i \in DOMAIN p PROVE SameInstance(p[i], q[i])
  <2>1. CASE i = Len(a.insts) + 1
    BY <1>3, <1>4, <1>5, <1>6, <2>1
  <2>2. CASE i # Len(a.insts) + 1
    <3>1. i \in DOMAIN a.insts /\ i \in DOMAIN b.insts
      BY <1>4, <1>5, <1>6, <2>2
    <3>. QED BY <1>4, <1>5, <1>6, <3>1
  <2>. QED BY <2>1, <2>2
<1>8. SameInsts(p, q)
  BY <1>4, <1>5, <1>6, <1>7 DEF SameInsts
<1>. QED BY <1>1, <1>2, <1>8 DEF Alike, DbTables

Rewritten(row, status, step, due) == [row EXCEPT !.status = status, !.step = step, !.due = due]
InstSet(insts, i, row) == [insts EXCEPT ![i] = row]
InstsSet(db, insts) == [db EXCEPT !.insts = insts]

LEMMA StateSet ==
  ASSUME NEW db, NEW i, NEW status, NEW step, NEW due,
         DOMAIN db = DbTables, IsRow(db.insts), i \in DOMAIN db.insts
  PROVE  R!WithState(db, i, status, step, due)
           = InstsSet(db, InstSet(db.insts, i, Rewritten(db.insts[i], status, step, due)))
<1>. DEFINE p == [db.insts EXCEPT ![i] = [db.insts[i] EXCEPT !.status = status]]
            q == [p EXCEPT ![i] = [p[i] EXCEPT !.step = step]]
            r == [q EXCEPT ![i] = [q[i] EXCEPT !.due = due]]
            d1 == [db EXCEPT !.insts = p]
            d2 == [d1 EXCEPT !.insts = q]
<1>1. /\ \A k \in DOMAIN db.insts : p[k] = IF k = i THEN [db.insts[i] EXCEPT !.status = status]
                                             ELSE db.insts[k]
      /\ IsRow(p) /\ DOMAIN p = DOMAIN db.insts
  BY RowSet
<1>2. d1.insts = p /\ DOMAIN d1 = DbTables
  BY DEF DbTables
<1>. HIDE DEF p
<1>3. /\ \A k \in DOMAIN p : q[k] = IF k = i THEN [p[i] EXCEPT !.step = step] ELSE p[k]
      /\ IsRow(q) /\ DOMAIN q = DOMAIN p
  BY <1>1, RowSet
<1>4. d2.insts = q /\ DOMAIN d2 = DbTables
  BY <1>2 DEF DbTables
<1>. HIDE DEF q
<1>5. \A k \in DOMAIN q : r[k] = IF k = i THEN [q[i] EXCEPT !.due = due] ELSE q[k]
  BY <1>3, RowSet
<1>6. r = InstSet(db.insts, i, Rewritten(db.insts[i], status, step, due))
  BY <1>1, <1>3, <1>5 DEF InstSet, Rewritten
<1>7. R!WithState(db, i, status, step, due) = [d2 EXCEPT !.insts[i].due = due]
  BY DEF R!WithState, d1, d2, p, q
<1>8. [d2 EXCEPT !.insts[i].due = due] = [d2 EXCEPT !.insts = r]
  BY <1>4
<1>9. [d2 EXCEPT !.insts = r] = InstsSet(db, r)
  BY <1>2, <1>4 DEF InstsSet
<1>. QED BY <1>6, <1>7, <1>8, <1>9

LEMMA NewState ==
  ASSUME NEW a, NEW b, Alike(a, b), NEW i \in DOMAIN a.insts, NEW status, NEW step,
         NEW due \in Nat \cup {NULL}
  PROVE  Alike(R!WithState(a, i, status, step, R!Stored(due)), R!WithState(b, i, status, step, due))
<1>. DEFINE x == Rewritten(a.insts[i], status, step, R!Stored(due))
            y == Rewritten(b.insts[i], status, step, due)
            p == InstSet(a.insts, i, x)
            q == InstSet(b.insts, i, y)
<1>1. DOMAIN a = DbTables /\ DOMAIN b = DbTables /\ SameInsts(a.insts, b.insts)
  BY DEF Alike
<1>2. IsRow(a.insts) /\ IsRow(b.insts) /\ Len(a.insts) = Len(b.insts)
        /\ DOMAIN a.insts = 1 .. Len(a.insts) /\ DOMAIN b.insts = 1 .. Len(b.insts)
        /\ \A k \in DOMAIN a.insts : SameInstance(a.insts[k], b.insts[k])
  BY <1>1 DEF SameInsts, IsRow
<1>3. R!WithState(a, i, status, step, R!Stored(due)) = InstsSet(a, p)
  BY <1>1, <1>2, StateSet
<1>4. R!WithState(b, i, status, step, due) = InstsSet(b, q)
  BY <1>1, <1>2, StateSet
<1>5. SameInstance(x, y)
  BY <1>2 DEF SameInstance, InstColumns, Rewritten
<1>. HIDE DEF x, y
<1>6. /\ IsRow(p) /\ Len(p) = Len(a.insts) /\ DOMAIN p = DOMAIN a.insts
      /\ \A k \in DOMAIN a.insts : p[k] = IF k = i THEN x ELSE a.insts[k]
  BY <1>2, RowSet DEF InstSet
<1>7. /\ IsRow(q) /\ Len(q) = Len(b.insts) /\ DOMAIN q = DOMAIN b.insts
      /\ \A k \in DOMAIN b.insts : q[k] = IF k = i THEN y ELSE b.insts[k]
  BY <1>2, RowSet DEF InstSet
<1>. HIDE DEF p, q
<1>8. ASSUME NEW k \in DOMAIN p PROVE SameInstance(p[k], q[k])
  BY <1>2, <1>5, <1>6, <1>7
<1>9. SameInsts(p, q)
  BY <1>2, <1>6, <1>7, <1>8 DEF SameInsts
<1>. QED BY <1>1, <1>3, <1>4, <1>9 DEF Alike, DbTables, InstsSet

\* The tables that hold no time are written alike.
LEMMA NewItem ==
  ASSUME NEW a, NEW b, Alike(a, b), NEW thread
  PROVE  Alike(R!WithItem(a, thread), R!WithItem(b, thread))
BY DEF Alike, R!WithItem, DbTables

LEMMA NewRow ==
  ASSUME NEW a, NEW b, Alike(a, b), NEW table, NEW key
  PROVE  Alike(R!WithRow(a, table, key), R!WithRow(b, table, key))
BY DEF Alike, R!WithRow, DbTables

LEMMA NewStage ==
  ASSUME NEW a, NEW b, Alike(a, b), NEW i, NEW stage
  PROVE  Alike(R!WithStage(a, i, stage), R!WithStage(b, i, stage))
<1>. DEFINE e == [a.items EXCEPT ![i] = [@ EXCEPT !.stage = stage, !.touched = clock]]
<1>. QED BY DEF Alike, R!WithStage, DbTables

LEMMA NewResolved ==
  ASSUME NEW a, NEW b, Alike(a, b), NEW r
  PROVE  Alike(R!WithResolved(a, r), R!WithResolved(b, r))
BY DEF Alike, R!WithResolved, DbTables

LEMMA NewStatus ==
  ASSUME NEW a, NEW b, Alike(a, b), NEW d \in DOMAIN a.defs, NEW status
  PROVE  Alike([a EXCEPT !.defs[d].status = status], [b EXCEPT !.defs[d].status = status])
<1>. DEFINE defs == [a.defs EXCEPT ![d] = [@ EXCEPT !.status = status]]
<1>1. DOMAIN a = DbTables /\ DOMAIN b = DbTables /\ Numbered(a.defs, a.versions) /\ a.defs = b.defs
  BY DEF Alike
<1>2. [a EXCEPT !.defs[d].status = status] = [a EXCEPT !.defs = defs]
        /\ [b EXCEPT !.defs[d].status = status] = [b EXCEPT !.defs = defs]
  BY <1>1
<1>3. /\ IsRow(defs) /\ DOMAIN defs = DOMAIN a.defs
      /\ \A k \in DOMAIN a.defs :
           defs[k] = IF k = d THEN [a.defs[d] EXCEPT !.status = status] ELSE a.defs[k]
  BY <1>1, RowSet DEF Numbered
<1>. HIDE DEF defs
<1>4. Numbered(defs, a.versions)
  BY <1>1, <1>3 DEF Numbered
<1>. QED BY <1>1, <1>2, <1>4 DEF Alike, DbTables

\* The ticks of the clock aside, every write keeps the two alike, or is refused
\* by the one.
LEMMA MirrorStep == MirrorInv /\ R!StoresNext => MirrorInv'
<1>. SUFFICES ASSUME MirrorInv, R!StoresNext PROVE MirrorInv'
  OBVIOUS
<1>. USE DEF R!Calls, R!Accepted
<1>1. ASSUME NEW duplicate \in BOOLEAN, R!SaveDefinitionDraft(duplicate) PROVE MirrorInv'
  <2>1. CASE duplicate
    BY <1>1, <2>1 DEF R!SaveDefinitionDraft, MirrorInv
  <2>2. CASE ~duplicate
    BY <1>1, <2>2, NewDefinition DEF R!SaveDefinitionDraft, MirrorInv
  <2>. QED BY <2>1, <2>2
<1>2. ASSUME NEW d, R!CreateVersion(d) PROVE MirrorInv'
  <2>1. CASE d \in DOMAIN sql.defs
    BY <1>2, <2>1, NewVersion DEF R!CreateVersion, MirrorInv
  <2>2. CASE d \notin DOMAIN sql.defs
    BY <1>2, <2>2 DEF R!CreateVersion, MirrorInv
  <2>. QED BY <2>1, <2>2
<1>3. ASSUME NEW d \in DOMAIN sql.defs, NEW status, R!UpdateStatus(d, status) PROVE MirrorInv'
  BY <1>3, NewStatus DEF R!UpdateStatus, MirrorInv
<1>4. ASSUME NEW item, NEW due \in 0 .. MaxTime + 1 \cup {NULL}, R!Arm(item, due) PROVE MirrorInv'
  <2>1. due \in Nat \cup {NULL}
    BY RepositoriesAssumption
  <2>. QED BY <1>4, <2>1, NewInstance DEF R!Arm, MirrorInv
<1>5. ASSUME NEW i \in DOMAIN sql.insts, NEW a \in R!Armings, NEW step,
             R!UpdateState(i, a[1], step, a[2])
      PROVE  MirrorInv'
  <2>1. a[2] \in Nat \cup {NULL}
    BY RepositoriesAssumption DEF R!Armings
  <2>. QED BY <1>5, <2>1, NewState DEF R!UpdateState, MirrorInv
<1>6. ASSUME NEW thread, R!InsertItem(thread) PROVE MirrorInv'
  BY <1>6, NewItem DEF R!InsertItem, MirrorInv
<1>7. ASSUME NEW i, NEW stage, R!UpdateStage(i, stage) PROVE MirrorInv'
  BY <1>7, NewStage DEF R!UpdateStage, MirrorInv
<1>8. ASSUME NEW table, NEW key, R!AppendRow(table, key) PROVE MirrorInv'
  BY <1>8, NewRow DEF R!AppendRow, MirrorInv
<1>9. ASSUME NEW r, R!ResolveConflict(r) PROVE MirrorInv'
  BY <1>9, NewResolved DEF R!ResolveConflict, MirrorInv
<1>10. ASSUME R!Tick PROVE MirrorInv'
  BY <1>10 DEF R!Tick, MirrorInv
<1>. QED BY <1>1, <1>2, <1>3, <1>4, <1>5, <1>6, <1>7, <1>8, <1>9, <1>10 DEF R!StoresNext

\* A write to the other tables leaves these alone.
LEMMA Elsewhere ==
  ASSUME NEW family, R!RecordsNext(family)
  PROVE  /\ UNCHANGED <<sql, fake, refused>>
         /\ clock' = clock \/ clock' = clock + 1
<1>1. ASSUME NEW k, NEW t, R!Written(k, t)
      PROVE  UNCHANGED <<sql, fake, refused, clock>>
  BY <1>1 DEF R!Written
<1>2. CASE R!Passes
  BY <1>2 DEF R!Passes
<1>3. ASSUME NEW table, NEW row, NEW refers, R!Insert(table, row, refers)
      PROVE  UNCHANGED <<sql, fake, refused, clock>>
  BY <1>3 DEF R!Insert, R!Written
<1>4. ASSUME NEW table, NEW row, NEW word, NEW refers, R!InsertTold(table, row, word, refers)
      PROVE  UNCHANGED <<sql, fake, refused, clock>>
  BY <1>4 DEF R!InsertTold, R!Written
<1>5. ASSUME NEW table, NEW place, NEW row, NEW word, R!Update(table, place, row, word)
      PROVE  UNCHANGED <<sql, fake, refused, clock>>
  BY <1>5 DEF R!Update, R!Written
<1>6. CASE \/ R!InsertThread
           \/ \E t \in R!Ids("threads"), seen \in {0, clock} : R!RecordMessageSeen(t, seen)
           \/ \E new \in R!NewMessages : R!InsertMessage(new)
           \/ \E m \in R!Ids("messages"), status \in R!ClassificationStatuses :
                R!SetClassificationStatus(m, status)
           \/ \E m \in R!Ids("messages"), names \in {R!SetToSeq(Keys)} : \E done \in 0 .. Len(names) :
                R!AddFeatures(m, names, done)
           \/ \E message \in R!Opt(R!Ids("messages")), thread \in R!Opt(R!Ids("threads")) :
                R!InsertDraft(message, thread)
           \/ \E d \in R!Ids("drafts"), status \in R!DraftStatuses : R!SetDraftStatus(d, status)
  BY <1>1, <1>3, <1>4, <1>5, <1>6, Zenon
     DEF R!InsertThread, R!RecordMessageSeen, R!InsertMessage, R!SetClassificationStatus,
         R!AddFeatures, R!InsertDraft, R!SetDraftStatus
<1>7. CASE \/ \E email \in Keys : R!InsertSender(email)
           \/ \E s \in R!Ids("senders"), trust \in R!TrustLevels : R!SetTrustLevel(s, trust)
  BY <1>4, <1>5, <1>7, Zenon DEF R!InsertSender, R!SetTrustLevel
<1>8. CASE \/ \E status \in {"draft", "pending_review"}, n \in 0 .. R!Cardinality(Keys),
                fails \in BOOLEAN : R!SaveProposal(status, [k \in 1 .. n |-> R!SetToSeq(Keys)[k]], fails)
           \/ \E p \in R!Ids("proposals"), status \in R!ProposalStatuses, reviewed \in {NULL, clock} :
                R!SetProposalStatus(p, status, reviewed)
           \/ R!AppendConflict
           \/ \E c \in R!Ids("conflicts"), status \in R!ConflictStatuses, resolved \in {NULL, clock} :
                R!SetConflictStatus(c, status, resolved)
  BY <1>1, <1>4, <1>5, <1>8
     DEF R!SaveProposal, R!SetProposalStatus, R!AppendConflict, R!SetConflictStatus
<1>9. CASE \/ \E kind \in R!FeedbackKinds, subject, verdict \in Keys :
                R!AppendFeedback(kind, subject, verdict)
           \/ \E proposal \in Keys : R!AppendDecision(proposal)
           \/ \E rule \in Keys : R!AppendShadow(rule)
  BY <1>3, <1>9, Zenon DEF R!AppendFeedback, R!AppendDecision, R!AppendShadow
<1>10. CASE \/ R!AppendDataset
            \/ \E dataset \in R!Opt(R!Ids("datasets")) : R!AppendAdapter(dataset)
            \/ \E a \in R!Ids("adapters"), status \in R!AdapterStatuses : R!SetAdapterStatus(a, status)
            \/ \E a \in R!Ids("adapters"), d \in R!Ids("datasets"), approved \in BOOLEAN :
                 R!AppendRun(a, d, approved)
  BY <1>3, <1>4, <1>5, <1>10, Zenon
     DEF R!AppendDataset, R!AppendAdapter, R!SetAdapterStatus, R!AppendRun
<1>. QED BY <1>2, <1>6, <1>7, <1>8, <1>9, <1>10, Zenon DEF R!RecordsNext

LEMMA Mirrored == MCSpec => []MirrorInv
<1>1. MCInit => MirrorInv
  BY MirrorInit DEF MCInit, R!RecordsInit
<1>2. MirrorInv /\ [MCNext]_allVars => MirrorInv'
  <2>. SUFFICES ASSUME MirrorInv, [MCNext]_allVars PROVE MirrorInv'
    OBVIOUS
  <2>1. CASE R!StoresNext
    BY <2>1, MirrorStep
  <2>2. ASSUME NEW family, R!RecordsNext(family) PROVE MirrorInv'
    BY <2>2, Elsewhere DEF MirrorInv
  <2>3. CASE UNCHANGED recordsVars
    BY <2>3 DEF recordsVars, storesVars, MirrorInv
  <2>. QED BY <2>1, <2>2, <2>3 DEF MCNext, allVars
<1>. QED BY <1>1, <1>2, PTL DEF MCSpec

\* Every query of the fakes but the drain answers as the database does, and a
\* definition points at the highest of its versions, which have no gap, for
\* as long as the database refused no call (mailmate-storage/src/repositories
\* and mailmate-test-support/src/fakes.rs).
THEOREM FakesMirrorTheTables == MCSpec => []R!TablesAgree
<1>1. MirrorInv => R!TablesAgree
  <2>. SUFFICES ASSUME Alike(sql, fake) PROVE R!TablesAgree
    BY DEF MirrorInv, R!TablesAgree
  <2>1. sql.defs = fake.defs /\ sql.items = fake.items /\ sql.rows = fake.rows
          /\ SameInsts(sql.insts, fake.insts)
    BY DEF Alike
  <2>2. DOMAIN sql.insts = DOMAIN fake.insts
          /\ \A i \in DOMAIN sql.insts : SameInstance(sql.insts[i], fake.insts[i])
    BY <2>1 DEF SameInsts, IsRow
  <2>3. \A d \in DOMAIN sql.defs :
          /\ sql.defs[d].current = R!Max(R!Numbers(sql, d))
          /\ R!Numbers(sql, d) = 0 .. sql.defs[d].current
    BY NextNumber
  <2>4. \A thread : R!SqlActive(thread) = R!FakeActive(thread)
    BY <2>2 DEF R!SqlActive, R!FakeActive, R!Terminal, SameInstance
  <2>5. \A item : R!SqlByItem(item) = R!FakeByItem(item)
    BY <2>2 DEF R!SqlByItem, R!FakeByItem, SameInstance
  <2>6. /\ \A status : R!SqlByStatus(status) = R!FakeByStatus(status)
        /\ \A thread : R!SqlOfThread(thread) = R!FakeOfThread(thread)
        /\ \A stages : R!SqlAtStage(stages) = R!FakeAtStage(stages)
        /\ \A table, ks : R!SqlRows(table, ks) = R!FakeRows(table, ks)
    BY <2>1 DEF R!SqlByStatus, R!FakeByStatus, R!SqlOfThread, R!FakeOfThread, R!SqlAtStage,
                R!FakeAtStage, R!SqlRows, R!FakeRows
  <2>. QED BY <2>1, <2>3, <2>4, <2>5, <2>6 DEF R!TablesAgree
<1>. QED BY <1>1, Mirrored, PTL

\* A trigger that is set: what the table has of it, and the text of that.
LEMMA TriggerFacts ==
  ASSUME Alike(sql, fake), NEW i \in DOMAIN fake.insts, fake.insts[i].due # NULL
  PROVE  /\ fake.insts[i].due \in Nat /\ sql.insts[i].due = R!Floored(fake.insts[i].due)
         /\ sql.insts[i].due # NULL /\ sql.insts[i].status = fake.insts[i].status
         /\ R!Text(sql.insts[i].due) = R!Floored(fake.insts[i].due) + PerSecond - 1
         /\ R!Floored(fake.insts[i].due) \in Nat
         /\ fake.insts[i].due <= R!Floored(fake.insts[i].due) + PerSecond - 1
<1>1. SameInstance(sql.insts[i], fake.insts[i])
  BY DEF Alike, SameInsts, IsRow
<1>2. fake.insts[i].due \in Nat /\ sql.insts[i].due = R!Floored(fake.insts[i].due)
        /\ sql.insts[i].status = fake.insts[i].status
  BY <1>1 DEF SameInstance, R!Stored
<1>. QED BY <1>2, FlooredFacts, RepositoriesAssumption

\* What the drain lists, of whatever time.
LEMMA DrainRows ==
  ASSUME Alike(sql, fake), NEW now \in Nat
  PROVE  /\ DOMAIN sql.insts = DOMAIN fake.insts
         /\ R!FakeDueRows(now) \subseteq R!SqlDueRows(now)
         /\ R!SqlDueRows(now) \subseteq R!FakeDueRows(R!Floored(now) + PerSecond - 1)
<1>1. /\ DOMAIN sql.insts = DOMAIN fake.insts
      /\ \A i \in DOMAIN sql.insts : SameInstance(sql.insts[i], fake.insts[i])
  BY DEF Alike, SameInsts, IsRow
<1>2. /\ R!Floored(now) \in Nat /\ R!Text(R!Floored(now)) = R!Floored(now) + PerSecond - 1
      /\ PerSecond \in Nat
  BY FlooredFacts, RepositoriesAssumption
<1>3. ASSUME NEW i \in R!FakeDueRows(now) PROVE i \in R!SqlDueRows(now)
  <2>1. i \in DOMAIN fake.insts /\ fake.insts[i].due # NULL /\ fake.insts[i].due <= now
          /\ fake.insts[i].status \in R!Selectable
    BY DEF R!FakeDueRows
  <2>2. R!Floored(fake.insts[i].due) <= R!Floored(now)
    BY TriggerFacts, <2>1, FlooredMonotone
  <2>3. R!Text(sql.insts[i].due) <= R!Text(R!Floored(now))
    BY <1>2, TriggerFacts, <2>1, <2>2
  <2>. QED BY <1>1, TriggerFacts, <2>1, <2>3 DEF R!SqlDueRows
<1>4. ASSUME NEW i \in R!SqlDueRows(now)
      PROVE  i \in R!FakeDueRows(R!Floored(now) + PerSecond - 1)
  <2>1. i \in DOMAIN fake.insts /\ sql.insts[i].due # NULL
          /\ sql.insts[i].status \in R!Selectable
          /\ R!Text(sql.insts[i].due) <= R!Text(R!Floored(now))
    BY <1>1 DEF R!SqlDueRows
  <2>2. fake.insts[i].due # NULL
    BY <1>1, <2>1 DEF SameInstance, R!Stored
  <2>3. fake.insts[i].due <= R!Floored(now) + PerSecond - 1
    BY <1>2, TriggerFacts, <2>1, <2>2
  <2>. QED BY TriggerFacts, <2>1, <2>2, <2>3 DEF R!FakeDueRows
<1>. QED BY <1>1, <1>3, <1>4

\* A list of due rows, each once and in the order of their triggers.
LEMMA DueLists ==
  ASSUME Alike(sql, fake), NEW now \in Nat
  PROVE  /\ R!ToSet(R!FakeDue(now)) = R!FakeDueRows(now)
         /\ R!ToSet(R!SqlDue(now)) = R!SqlDueRows(now)
         /\ R!SqlDue(now) \in Seq(R!SqlDueRows(now))
         /\ \A m, n \in DOMAIN R!SqlDue(now) :
              m < n => R!Text(sql.insts[R!SqlDue(now)[m]].due)
                         <= R!Text(sql.insts[R!SqlDue(now)[n]].due)
<1>1. /\ DOMAIN sql.insts = DOMAIN fake.insts /\ DOMAIN fake.insts \subseteq Nat
      /\ IsFiniteSet(DOMAIN fake.insts)
  <2>1. Len(fake.insts) \in Nat /\ DOMAIN fake.insts = 1 .. Len(fake.insts)
    BY DEF Alike, SameInsts, IsRow
  <2>. QED BY <2>1, DrainRows, FS_Interval
<1>2. \A i \in R!FakeDueRows(now) : fake.insts[i].due # NULL /\ i \in DOMAIN fake.insts
  BY DEF R!FakeDueRows
<1>3. \A i \in R!SqlDueRows(now) : sql.insts[i].due # NULL /\ i \in DOMAIN fake.insts
  BY <1>1 DEF R!SqlDueRows
<1>4. \A i \in R!SqlDueRows(now) : fake.insts[i].due # NULL
  BY <1>3 DEF Alike, SameInsts, SameInstance, IsRow, R!Stored
<1>5. /\ \A i \in R!FakeDueRows(now) : fake.insts[i].due \in Int
      /\ \A i \in R!SqlDueRows(now) : R!Text(sql.insts[i].due) \in Int
  <2>1. \A i \in R!FakeDueRows(now) : fake.insts[i].due \in Int
    BY <1>2, TriggerFacts
  <2>2. \A i \in R!SqlDueRows(now) : R!Text(sql.insts[i].due) \in Int
    BY <1>3, <1>4, TriggerFacts, RepositoriesAssumption
  <2>. QED BY <2>1, <2>2
<1>6. /\ R!FakeDueRows(now) \subseteq Nat /\ IsFiniteSet(R!FakeDueRows(now))
      /\ R!SqlDueRows(now) \subseteq Nat /\ IsFiniteSet(R!SqlDueRows(now))
  BY <1>1, <1>2, <1>3, FS_Subset
<1>7. R!ToSet(R!FakeDue(now)) = R!FakeDueRows(now)
  <2>. DEFINE key == [i \in R!FakeDueRows(now) |-> fake.insts[i].due]
  <2>1. R!FakeDue(now) = R!Sorted(R!FakeDueRows(now), key)
    BY DEF R!FakeDue
  <2>2. \A i \in R!FakeDueRows(now) : key[i] \in Int
    BY <1>5
  <2>. HIDE DEF key
  <2>. QED BY <1>6, <2>1, <2>2, SortedFacts
<1>8. /\ R!ToSet(R!SqlDue(now)) = R!SqlDueRows(now)
      /\ R!SqlDue(now) \in Seq(R!SqlDueRows(now))
      /\ \A m, n \in DOMAIN R!SqlDue(now) :
           m < n => R!Text(sql.insts[R!SqlDue(now)[m]].due)
                      <= R!Text(sql.insts[R!SqlDue(now)[n]].due)
  <2>. DEFINE key == [i \in R!SqlDueRows(now) |-> R!Text(sql.insts[i].due)]
  <2>1. R!SqlDue(now) = R!Sorted(R!SqlDueRows(now), key)
    BY DEF R!SqlDue
  <2>2. \A i \in R!SqlDueRows(now) : key[i] \in Int /\ key[i] = R!Text(sql.insts[i].due)
    BY <1>5
  <2>. HIDE DEF key
  <2>3. /\ R!ToSet(R!SqlDue(now)) = R!SqlDueRows(now)
        /\ R!SqlDue(now) \in Seq(R!SqlDueRows(now))
        /\ \A m, n \in DOMAIN R!SqlDue(now) :
             m < n => key[R!SqlDue(now)[m]] <= key[R!SqlDue(now)[n]]
    BY <1>6, <2>1, <2>2, SortedFacts
  <2>4. \A n \in DOMAIN R!SqlDue(now) : R!SqlDue(now)[n] \in R!SqlDueRows(now)
    BY <2>3
  <2>. QED BY <2>2, <2>3, <2>4
<1>. QED BY <1>7, <1>8

LEMMA Drained == MirrorInv => R!DueToTheSecond
<1>. SUFFICES ASSUME clock \in Nat, Alike(sql, fake) PROVE R!DueToTheSecond
  BY DEF MirrorInv, R!DueToTheSecond
<1>. DEFINE listed == R!SqlDue(clock)
            asked  == [n \in DOMAIN listed |-> fake.insts[listed[n]].due]
            last   == R!Floored(clock) + PerSecond - 1
<1>1. last \in Nat
  BY FlooredFacts, RepositoriesAssumption
<1>2. /\ R!ToSet(R!FakeDue(clock)) \subseteq R!ToSet(listed)
      /\ R!ToSet(listed) \subseteq R!ToSet(R!FakeDue(last))
  <2>1. /\ R!ToSet(R!FakeDue(clock)) = R!FakeDueRows(clock)
        /\ R!ToSet(R!FakeDue(last)) = R!FakeDueRows(last)
        /\ R!ToSet(listed) = R!SqlDueRows(clock)
    BY <1>1, DueLists
  <2>. QED BY <2>1, DrainRows
<1>3. ASSUME NEW m \in DOMAIN listed, NEW n \in DOMAIN listed, m < n
      PROVE  R!Second(asked[m]) <= R!Second(asked[n])
  <2>1. listed[m] \in R!SqlDueRows(clock) /\ listed[n] \in R!SqlDueRows(clock)
          /\ R!Text(sql.insts[listed[m]].due) <= R!Text(sql.insts[listed[n]].due)
    <3>. HIDE DEF listed
    <3>1. listed \in Seq(R!SqlDueRows(clock))
            /\ \A i, j \in DOMAIN listed :
                 i < j => R!Text(sql.insts[listed[i]].due) <= R!Text(sql.insts[listed[j]].due)
      BY DueLists DEF listed
    <3>. QED BY <1>3, <3>1
  <2>2. \A i \in R!SqlDueRows(clock) : i \in DOMAIN fake.insts /\ fake.insts[i].due # NULL
    BY DrainRows DEF R!FakeDueRows
  <2>3. asked[m] = fake.insts[listed[m]].due /\ asked[n] = fake.insts[listed[n]].due
    OBVIOUS
  <2>. HIDE DEF asked, listed
  <2>4. /\ asked[m] \in Nat /\ asked[n] \in Nat
        /\ sql.insts[listed[m]].due = R!Floored(asked[m])
        /\ sql.insts[listed[n]].due = R!Floored(asked[n])
    BY <2>1, <2>2, <2>3, TriggerFacts
  <2>5. R!Second(R!Floored(asked[m])) <= R!Second(R!Floored(asked[n]))
    BY <2>1, <2>4, FlooredFacts, TextFacts
  <2>. QED BY <2>4, <2>5, SecondFloored
<1>4. \A m, n \in DOMAIN asked : m < n => R!Second(asked[m]) <= R!Second(asked[n])
  BY <1>3
<1>. QED BY <1>2, <1>4 DEF R!DueToTheSecond

\* The drain of the database lists no sequence that comes due after the second
\* the clock is in, every one that is due, and the earlier of two seconds
\* first, although what it compares are texts and what it keeps has lost its
\* fraction (SqliteWorkflowInstanceRepository::arm, list_due).
THEOREM DrainIsToTheSecond == MCSpec => []R!DueToTheSecond
BY Drained, Mirrored, PTL

-----------------------------------------------------------------------------
(* The repositories without a fake (Records)                               *)

KeptTables == {"threads", "messages", "features", "senders", "drafts", "proposals", "evidence",
               "feedback", "decisions", "shadow", "conflicts", "datasets", "adapters", "runs"}
\* The tables with a row for each row that a caller was told of.
Twinned    == {"messages", "senders", "drafts", "proposals", "conflicts", "adapters"}
ToldTables == Twinned \cup {"features"}

Whole ==
  /\ DOMAIN kept = KeptTables /\ DOMAIN told = ToldTables
  /\ \A t \in KeptTables : IsRow(kept[t])
  /\ \A t \in ToldTables : IsRow(told[t])

\* A row x says what its caller was last told, y.
SameRow(t, x, y) ==
  /\ t = "messages" =>
       /\ DOMAIN x = {"thread", "status", "retained", "body", "at"}
       /\ DOMAIN y = {"status", "retention"}
       /\ x.status = y.status
       /\ x.body => R!RetainsBody(y.retention)
       /\ x.retained <=> R!RetainsBody(y.retention)
  /\ t = "senders" => DOMAIN x = {"email", "trust", "at"} /\ x = y
  /\ t = "proposals" =>
       /\ DOMAIN x = {"json", "status", "reviewed", "at"} /\ DOMAIN x.json = {"status", "reviewed"}
       /\ DOMAIN y = {"status", "reviewed", "evidence"}
       /\ x.status = y.status /\ x.reviewed = y.reviewed
  /\ t \in {"drafts", "conflicts", "adapters"} =>
       "status" \in DOMAIN x /\ "status" \in DOMAIN y /\ x.status = y.status

TwinInv ==
  \A t \in Twinned :
    /\ Len(kept[t]) = Len(told[t])
    /\ \A i \in DOMAIN kept[t] : SameRow(t, kept[t][i], told[t][i])

\* A row points at rows that are there in k.
There(k, t, place) == place = NULL \/ place \in DOMAIN k[t]

Linked(k, t, row) ==
  /\ t = "messages" => "thread" \in DOMAIN row /\ There(k, "threads", row.thread)
  /\ t = "features" => There(k, "messages", row.message)
  /\ t = "drafts" => /\ {"message", "thread"} \subseteq DOMAIN row
                     /\ There(k, "messages", row.message) /\ There(k, "threads", row.thread)
  /\ t = "evidence" => row.proposal \in DOMAIN k["proposals"]
  /\ t = "adapters" => "dataset" \in DOMAIN row /\ There(k, "datasets", row.dataset)
  /\ t = "runs" => There(k, "adapters", row.adapter) /\ There(k, "datasets", row.dataset)

LinkInv == \A t \in KeptTables : \A i \in DOMAIN kept[t] : Linked(kept, t, kept[t][i])

\* The sources of a proposal's evidence.
SourcesIn(evidence, p) == {evidence[e].source : e \in {x \in DOMAIN evidence : evidence[x].proposal = p}}

SourceInv ==
  \A p \in DOMAIN told.proposals : SourcesIn(kept.evidence, p) = R!ToSet(told.proposals[p].evidence)

FeatureInv ==
  \A f \in DOMAIN told.features :
    \E g \in DOMAIN kept.features :
      /\ kept.features[g].message = told.features[f].message
      /\ kept.features[g].name = told.features[f].name

RecordsInv == Whole /\ TwinInv /\ LinkInv /\ SourceInv /\ FeatureInv

LEMMA RowJoined ==
  ASSUME NEW s, IsRow(s), NEW r, IsRow(r)
  PROVE  /\ IsRow(s \o r) /\ Len(s) \in Nat /\ Len(r) \in Nat
         /\ Len(s \o r) = Len(s) + Len(r)
         /\ DOMAIN s = 1 .. Len(s) /\ DOMAIN r = 1 .. Len(r)
         /\ DOMAIN (s \o r) = 1 .. Len(s) + Len(r)
         /\ \A i \in 1 .. Len(s) + Len(r) :
              (s \o r)[i] = IF i <= Len(s) THEN s[i] ELSE r[i - Len(s)]
<1>. DEFINE U == R!ToSet(s) \cup R!ToSet(r)
<1>1. s \in Seq(U) /\ r \in Seq(U)
  BY SeqMonotonic DEF IsRow
<1>2. s \o r \in Seq(U)
  BY <1>1
<1>3. Len(s) \in Nat /\ Len(r) \in Nat /\ Len(s \o r) = Len(s) + Len(r)
        /\ DOMAIN s = 1 .. Len(s) /\ DOMAIN r = 1 .. Len(r)
        /\ DOMAIN (s \o r) = 1 .. Len(s) + Len(r)
        /\ \A i \in 1 .. Len(s) + Len(r) :
              (s \o r)[i] = IF i <= Len(s) THEN s[i] ELSE r[i - Len(s)]
  BY <1>1
<1>. QED BY <1>2, <1>3, RowOf

LEMMA FreshRow ==
  ASSUME NEW n \in Nat, NEW r, DOMAIN r = 1 .. n, r = [k \in 1 .. n |-> r[k]]
  PROVE  IsRow(r) /\ Len(r) = n
<1>1. r \in [1 .. n -> R!ToSet(r)]
  BY DEF R!ToSet
<1>2. r \in Seq(R!ToSet(r))
  BY <1>1, SeqDef
<1>. QED BY <1>1, <1>2 DEF IsRow

LEMMA RecordsStart == R!RecordsInit => RecordsInv
<1>. SUFFICES ASSUME R!RecordsInit PROVE RecordsInv
  OBVIOUS
<1>0. <<>> \in Seq({}) /\ DOMAIN <<>> = {} /\ Len(<<>>) = 0
  OBVIOUS
<1>00. IsRow(<<>>)
  BY <1>0, RowOf
<1>1. DOMAIN kept = KeptTables /\ \A t \in KeptTables : kept[t] = <<>>
  BY DEF R!RecordsInit, R!Empty, KeptTables
<1>2. DOMAIN told = ToldTables /\ \A t \in ToldTables : told[t] = <<>>
  BY DEF R!RecordsInit, R!Empty, ToldTables, Twinned
<1>3. Whole
  BY <1>00, <1>1, <1>2 DEF Whole
<1>4. TwinInv
  BY <1>0, <1>1, <1>2 DEF TwinInv, Twinned, KeptTables, ToldTables
<1>5. LinkInv
  BY <1>0, <1>1 DEF LinkInv
<1>6. SourceInv /\ FeatureInv
  BY <1>0, <1>2 DEF SourceInv, FeatureInv, ToldTables, Twinned
<1>. QED BY <1>3, <1>4, <1>5, <1>6 DEF RecordsInv

\* A row keeps pointing at rows as long as none goes.
LEMMA LinksStay ==
  ASSUME NEW k, NEW l, \A t \in KeptTables : DOMAIN k[t] \subseteq DOMAIN l[t],
         NEW t, NEW row, Linked(k, t, row)
  PROVE  Linked(l, t, row)
<1>1. /\ DOMAIN k["threads"] \subseteq DOMAIN l["threads"]
      /\ DOMAIN k["messages"] \subseteq DOMAIN l["messages"]
      /\ DOMAIN k["proposals"] \subseteq DOMAIN l["proposals"]
      /\ DOMAIN k["adapters"] \subseteq DOMAIN l["adapters"]
      /\ DOMAIN k["datasets"] \subseteq DOMAIN l["datasets"]
  BY DEF KeptTables
<1>. QED BY <1>1 DEF Linked, There

\* One more row in a table.
Grown(db, t, row) == [db EXCEPT ![t] = Append(@, row)]

LEMMA Added ==
  ASSUME NEW T, NEW db, DOMAIN db = T, \A u \in T : IsRow(db[u]),
         NEW t \in T, NEW row, NEW k, k = Grown(db, t, row)
  PROVE  /\ DOMAIN k = T
         /\ \A u \in T : IsRow(k[u]) /\ (u # t => k[u] = db[u])
         /\ k[t] = Append(db[t], row)
         /\ Len(k[t]) = Len(db[t]) + 1 /\ Len(db[t]) \in Nat
         /\ DOMAIN db[t] = 1 .. Len(db[t]) /\ DOMAIN k[t] = 1 .. Len(db[t]) + 1
         /\ \A i \in DOMAIN db[t] : k[t][i] = db[t][i]
         /\ k[t][Len(db[t]) + 1] = row
         /\ \A u \in T : DOMAIN db[u] \subseteq DOMAIN k[u]
<1>2. k[t] = Append(db[t], row) /\ DOMAIN k = T /\ \A u \in T : u # t => k[u] = db[u]
  BY DEF Grown
<1>3. /\ IsRow(k[t]) /\ Len(db[t]) \in Nat /\ Len(k[t]) = Len(db[t]) + 1
      /\ DOMAIN db[t] = 1 .. Len(db[t]) /\ DOMAIN k[t] = 1 .. Len(db[t]) + 1
      /\ \A i \in DOMAIN db[t] : k[t][i] = db[t][i]
      /\ k[t][Len(db[t]) + 1] = row
  BY <1>2, RowAppended
<1>4. \A u \in T : DOMAIN db[u] \subseteq DOMAIN k[u]
  <2>. TAKE u \in T
  <2>1. CASE u = t
    BY <1>3, <2>1
  <2>2. CASE u # t
    BY <1>2, <2>2
  <2>. QED BY <2>1, <2>2
<1>5. \A u \in T : IsRow(k[u])
  BY <1>2, <1>3
<1>. QED BY <1>2, <1>3, <1>4, <1>5

Linkage(k) == \A t \in KeptTables : \A i \in DOMAIN k[t] : Linked(k, t, k[t][i])

LEMMA LinksWith ==
  ASSUME Whole, LinkInv, NEW t \in KeptTables, NEW row, Linked(kept, t, row),
         NEW k, k = Grown(kept, t, row)
  PROVE  Linkage(k)
<1>1. /\ k[t][Len(kept[t]) + 1] = row /\ DOMAIN k[t] = 1 .. Len(kept[t]) + 1
      /\ DOMAIN kept[t] = 1 .. Len(kept[t]) /\ Len(kept[t]) \in Nat
      /\ \A i \in DOMAIN kept[t] : k[t][i] = kept[t][i]
      /\ \A u \in KeptTables : u # t => k[u] = kept[u]
      /\ \A u \in KeptTables : DOMAIN kept[u] \subseteq DOMAIN k[u]
  BY Added DEF Whole
<1>2. ASSUME NEW u \in KeptTables, NEW i \in DOMAIN k[u] PROVE Linked(kept, u, k[u][i])
  <2>1. CASE u = t /\ i = Len(kept[t]) + 1
    BY <1>1, <2>1
  <2>2. CASE u = t /\ i # Len(kept[t]) + 1
    <3>1. i \in DOMAIN kept[t]
      BY <1>1, <2>2
    <3>. QED BY <1>1, <2>2, <3>1 DEF LinkInv
  <2>3. CASE u # t
    BY <1>1, <2>3 DEF LinkInv
  <2>. QED BY <2>1, <2>2, <2>3
<1>3. ASSUME NEW u \in KeptTables, NEW i \in DOMAIN k[u] PROVE Linked(k, u, k[u][i])
  BY <1>1, <1>2, LinksStay
<1>. QED BY <1>3 DEF Linkage

\* A row that its caller is not told of.
LEMMA Inserts ==
  ASSUME RecordsInv, NEW t \in KeptTables \ (Twinned \cup {"features", "evidence"}),
         NEW row, NEW refers, refers => Linked(kept, t, row), R!Insert(t, row, refers)
  PROVE  RecordsInv'
<1>1. kept' = (IF refers THEN [kept EXCEPT ![t] = Append(@, row)] ELSE kept) /\ told' = told
  BY DEF R!Insert, R!Written
<1>2. CASE ~refers
  BY <1>1, <1>2 DEF RecordsInv, Whole, TwinInv, LinkInv, SourceInv, FeatureInv
<1>3. CASE refers
  <2>1. kept' = Grown(kept, t, row)
    BY <1>1, <1>3 DEF Grown
  <2>2. /\ DOMAIN kept' = KeptTables
        /\ \A u \in KeptTables : IsRow(kept'[u]) /\ (u # t => kept'[u] = kept[u])
    <3>. HIDE DEF KeptTables
    <3>. QED BY <2>1, Added DEF RecordsInv, Whole
  <2>3. Whole'
    BY <1>1, <2>2 DEF RecordsInv, Whole
  <2>4. LinkInv'
    <3>1. Linkage(kept')
      BY <1>3, <2>1, LinksWith DEF RecordsInv
    <3>. QED BY <3>1 DEF LinkInv, Linkage
  <2>5. \A u \in Twinned \cup {"features", "evidence"} : kept'[u] = kept[u]
    BY <2>2 DEF Twinned, KeptTables
  <2>6. TwinInv'
    BY <1>1, <2>5 DEF RecordsInv, TwinInv
  <2>7. kept'["evidence"] = kept["evidence"] /\ kept'["features"] = kept["features"]
    BY <2>5
  <2>8. SourceInv' /\ FeatureInv'
    BY <1>1, <2>7 DEF RecordsInv, SourceInv, FeatureInv
  <2>. QED BY <2>3, <2>4, <2>6, <2>8 DEF RecordsInv
<1>. QED BY <1>2, <1>3

\* One that it is told of.
LEMMA InsertsTold ==
  ASSUME RecordsInv, NEW t \in Twinned \ {"proposals"}, NEW row, NEW word, NEW refers,
         SameRow(t, row, word), refers => Linked(kept, t, row), R!InsertTold(t, row, word, refers)
  PROVE  RecordsInv'
<1>1. kept' = (IF refers THEN [kept EXCEPT ![t] = Append(@, row)] ELSE kept)
        /\ told' = (IF refers THEN [told EXCEPT ![t] = Append(@, word)] ELSE told)
  BY DEF R!InsertTold, R!Written
<1>2. CASE ~refers
  BY <1>1, <1>2 DEF RecordsInv, Whole, TwinInv, LinkInv, SourceInv, FeatureInv
<1>3. CASE refers
  <2>1. kept' = Grown(kept, t, row) /\ told' = Grown(told, t, word)
    BY <1>1, <1>3 DEF Grown
  <2>2. t \in KeptTables /\ t \in ToldTables
    BY DEF KeptTables, ToldTables, Twinned
  <2>3. /\ DOMAIN kept' = KeptTables
        /\ \A u \in KeptTables : IsRow(kept'[u]) /\ (u # t => kept'[u] = kept[u])
        /\ Len(kept'[t]) = Len(kept[t]) + 1 /\ Len(kept[t]) \in Nat
        /\ DOMAIN kept[t] = 1 .. Len(kept[t]) /\ DOMAIN kept'[t] = 1 .. Len(kept[t]) + 1
        /\ \A i \in DOMAIN kept[t] : kept'[t][i] = kept[t][i]
        /\ kept'[t][Len(kept[t]) + 1] = row
    <3>. HIDE DEF KeptTables
    <3>. QED BY <2>1, <2>2, Added DEF RecordsInv, Whole
  <2>4. /\ DOMAIN told' = ToldTables
        /\ \A u \in ToldTables : IsRow(told'[u]) /\ (u # t => told'[u] = told[u])
        /\ Len(told'[t]) = Len(told[t]) + 1
        /\ DOMAIN told[t] = 1 .. Len(told[t])
        /\ \A i \in DOMAIN told[t] : told'[t][i] = told[t][i]
        /\ told'[t][Len(told[t]) + 1] = word
    <3>. HIDE DEF ToldTables
    <3>. QED BY <2>1, <2>2, Added DEF RecordsInv, Whole
  <2>5. Whole'
    BY <2>3, <2>4 DEF Whole
  <2>6. LinkInv'
    <3>1. Linkage(kept')
      BY <1>3, <2>1, <2>2, LinksWith DEF RecordsInv
    <3>. QED BY <3>1 DEF LinkInv, Linkage
  <2>7. TwinInv'
    <3>. SUFFICES ASSUME NEW u \in Twinned
                  PROVE  /\ Len(kept'[u]) = Len(told'[u])
                         /\ \A i \in DOMAIN kept'[u] : SameRow(u, kept'[u][i], told'[u][i])
      BY DEF TwinInv
    <3>1. Len(kept[u]) = Len(told[u]) /\ \A i \in DOMAIN kept[u] : SameRow(u, kept[u][i], told[u][i])
      BY DEF RecordsInv, TwinInv
    <3>2. CASE u # t
      <4>1. kept'[u] = kept[u] /\ told'[u] = told[u]
        BY <2>3, <2>4, <3>2 DEF Twinned, KeptTables, ToldTables
      <4>. QED BY <3>1, <4>1
    <3>3. CASE u = t
      <4>1. ASSUME NEW i \in DOMAIN kept'[t] PROVE SameRow(t, kept'[t][i], told'[t][i])
        <5>1. CASE i = Len(kept[t]) + 1
          BY <2>3, <2>4, <3>1, <3>3, <5>1
        <5>2. CASE i # Len(kept[t]) + 1
          <6>1. i \in DOMAIN kept[t] /\ i \in DOMAIN told[t]
            BY <2>3, <2>4, <3>1, <3>3, <5>2
          <6>. QED BY <2>3, <2>4, <3>1, <3>3, <6>1
        <5>. QED BY <5>1, <5>2
      <4>. QED BY <2>3, <2>4, <3>1, <3>3, <4>1
    <3>. QED BY <3>2, <3>3
  <2>8. /\ kept'["evidence"] = kept["evidence"] /\ kept'["features"] = kept["features"]
        /\ told'["proposals"] = told["proposals"] /\ told'["features"] = told["features"]
    BY <2>3, <2>4 DEF Twinned, KeptTables, ToldTables
  <2>9. SourceInv' /\ FeatureInv'
    BY <2>8 DEF RecordsInv, SourceInv, FeatureInv
  <2>. QED BY <2>5, <2>6, <2>7, <2>9 DEF RecordsInv
<1>. QED BY <1>2, <1>3

\* Columns of one row are set, in the table and in what its caller was told.
SetIn(db, t, place, set) == [db EXCEPT ![t] = R!OverAt(@, place, set)]

LEMMA Changed ==
  ASSUME NEW T, NEW db, DOMAIN db = T, \A u \in T : IsRow(db[u]),
         NEW t \in T, NEW place, NEW set, NEW k, k = SetIn(db, t, place, set)
  PROVE  /\ DOMAIN k = T
         /\ \A u \in T : IsRow(k[u]) /\ (u # t => k[u] = db[u]) /\ DOMAIN k[u] = DOMAIN db[u]
                         /\ Len(k[u]) = Len(db[u])
         /\ \A i \in DOMAIN db[t] : k[t][i] = IF i = place THEN R!Over(set, db[t][i]) ELSE db[t][i]
<1>1. k[t] = R!OverAt(db[t], place, set) /\ DOMAIN k = T /\ \A u \in T : u # t => k[u] = db[u]
  BY DEF SetIn
<1>2. /\ DOMAIN k[t] = DOMAIN db[t]
      /\ k[t] = [i \in DOMAIN k[t] |-> k[t][i]]
      /\ \A i \in DOMAIN db[t] : k[t][i] = IF i = place THEN R!Over(set, db[t][i]) ELSE db[t][i]
  BY <1>1 DEF R!OverAt
<1>3. IsRow(k[t]) /\ Len(k[t]) = Len(db[t])
  BY <1>2, RowMapped
<1>. QED BY <1>1, <1>2, <1>3

\* The columns set are none of those that point at a row.
LEMMA LinkStays ==
  ASSUME NEW k, NEW t, NEW row, NEW set,
         DOMAIN set \cap {"thread", "message", "dataset"} = {}, t \in Twinned, Linked(k, t, row)
  PROVE  Linked(k, t, R!Over(set, row))
<1>1. DOMAIN R!Over(set, row) = DOMAIN row
        /\ \A c \in {"thread", "message", "dataset"} :
             c \in DOMAIN row => R!Over(set, row)[c] = row[c]
  BY DEF R!Over
<1>. QED BY <1>1 DEF Linked, Twinned

LEMMA Updates ==
  ASSUME RecordsInv, NEW t \in Twinned, NEW place, NEW set, NEW word,
         DOMAIN set \cap {"thread", "message", "dataset"} = {}, "evidence" \notin DOMAIN word,
         \A x, y : SameRow(t, x, y) => SameRow(t, R!Over(set, x), R!Over(word, y)),
         R!Update(t, place, set, word)
  PROVE  RecordsInv'
<1>1. kept' = SetIn(kept, t, place, set) /\ told' = SetIn(told, t, place, word)
  BY DEF R!Update, R!Written, SetIn
<1>2. t \in KeptTables /\ t \in ToldTables
  BY DEF KeptTables, ToldTables, Twinned
<1>3. /\ DOMAIN kept' = KeptTables
      /\ \A u \in KeptTables : IsRow(kept'[u]) /\ (u # t => kept'[u] = kept[u])
                               /\ DOMAIN kept'[u] = DOMAIN kept[u] /\ Len(kept'[u]) = Len(kept[u])
      /\ \A i \in DOMAIN kept[t] :
           kept'[t][i] = IF i = place THEN R!Over(set, kept[t][i]) ELSE kept[t][i]
  <2>. HIDE DEF KeptTables
  <2>. QED BY <1>1, <1>2, Changed DEF RecordsInv, Whole
<1>4. /\ DOMAIN told' = ToldTables
      /\ \A u \in ToldTables : IsRow(told'[u]) /\ (u # t => told'[u] = told[u])
                               /\ DOMAIN told'[u] = DOMAIN told[u] /\ Len(told'[u]) = Len(told[u])
      /\ \A i \in DOMAIN told[t] :
           told'[t][i] = IF i = place THEN R!Over(word, told[t][i]) ELSE told[t][i]
  <2>. HIDE DEF ToldTables
  <2>. QED BY <1>1, <1>2, Changed DEF RecordsInv, Whole
<1>5. Whole'
  BY <1>3, <1>4 DEF Whole
<1>6. TwinInv'
  <2>. SUFFICES ASSUME NEW u \in Twinned
                PROVE  /\ Len(kept'[u]) = Len(told'[u])
                       /\ \A i \in DOMAIN kept'[u] : SameRow(u, kept'[u][i], told'[u][i])
    BY DEF TwinInv
  <2>1. /\ Len(kept[u]) = Len(told[u]) /\ DOMAIN kept[u] = DOMAIN told[u]
        /\ \A i \in DOMAIN kept[u] : SameRow(u, kept[u][i], told[u][i])
    <3>1. IsRow(kept[u]) /\ IsRow(told[u])
      BY DEF RecordsInv, Whole, Twinned, KeptTables, ToldTables
    <3>2. Len(kept[u]) = Len(told[u]) /\ \A i \in DOMAIN kept[u] : SameRow(u, kept[u][i], told[u][i])
      BY DEF RecordsInv, TwinInv
    <3>. QED BY <3>1, <3>2 DEF IsRow
  <2>2. u \in KeptTables /\ u \in ToldTables
    BY DEF KeptTables, ToldTables, Twinned
  <2>. HIDE DEF KeptTables, ToldTables
  <2>3. CASE u # t
    BY <1>3, <1>4, <2>1, <2>2, <2>3
  <2>4. CASE u = t
    BY <1>3, <1>4, <2>1, <2>2, <2>4
  <2>. QED BY <2>3, <2>4
<1>7. LinkInv'
  <2>. SUFFICES ASSUME NEW u \in KeptTables, NEW i \in DOMAIN kept'[u]
                PROVE  Linked(kept', u, kept'[u][i])
    BY DEF LinkInv
  <2>1. i \in DOMAIN kept[u] /\ Linked(kept, u, kept[u][i])
    BY <1>3 DEF RecordsInv, LinkInv
  <2>2. Linked(kept, u, kept'[u][i])
    <3>1. CASE u = t /\ i = place
      BY <1>3, <2>1, <3>1, LinkStays
    <3>2. CASE u = t /\ i # place
      BY <1>3, <2>1, <3>2
    <3>3. CASE u # t
      BY <1>3, <2>1, <3>3
    <3>. QED BY <3>1, <3>2, <3>3
  <2>3. \A v \in KeptTables : DOMAIN kept[v] \subseteq DOMAIN kept'[v]
    BY <1>3
  <2>. QED BY <2>2, <2>3, LinksStay
<1>8. kept'["evidence"] = kept["evidence"] /\ kept'["features"] = kept["features"]
        /\ told'["features"] = told["features"]
  BY <1>3, <1>4 DEF Twinned, KeptTables, ToldTables
<1>9. FeatureInv'
  BY <1>8 DEF RecordsInv, FeatureInv
<1>10. SourceInv'
  <2>1. DOMAIN told'["proposals"] = DOMAIN told["proposals"]
    BY <1>4 DEF ToldTables, Twinned
  <2>2. ASSUME NEW p \in DOMAIN told["proposals"]
        PROVE  told'["proposals"][p].evidence = told["proposals"][p].evidence
    <3>1. CASE t # "proposals"
      BY <1>4, <3>1 DEF ToldTables, Twinned
    <3>2. CASE t = "proposals"
      <4>1. "evidence" \in DOMAIN told["proposals"][p]
        <5>1. IsRow(kept["proposals"]) /\ IsRow(told["proposals"])
                /\ Len(kept["proposals"]) = Len(told["proposals"])
          BY DEF RecordsInv, Whole, TwinInv, Twinned, KeptTables, ToldTables
        <5>2. p \in DOMAIN kept["proposals"]
          BY <5>1 DEF IsRow
        <5>3. SameRow("proposals", kept["proposals"][p], told["proposals"][p])
          BY <5>2 DEF RecordsInv, TwinInv, Twinned
        <5>. QED BY <5>3 DEF SameRow
      <4>2. R!Over(word, told["proposals"][p]).evidence = told["proposals"][p].evidence
        BY <4>1 DEF R!Over
      <4>. QED BY <1>4, <3>2, <4>2
    <3>. QED BY <3>1, <3>2
  <2>. QED BY <1>8, <2>1, <2>2 DEF RecordsInv, SourceInv
<1>. QED BY <1>5, <1>6, <1>7, <1>9, <1>10 DEF RecordsInv

LEMMA SeenStays == \A t, seen : RecordsInv /\ R!RecordMessageSeen(t, seen) => RecordsInv'
<1>. SUFFICES ASSUME NEW t, NEW seen, RecordsInv, R!RecordMessageSeen(t, seen) PROVE RecordsInv'
  OBVIOUS
<1>. DEFINE rows == [p \in DOMAIN kept["threads"] |->
                       IF p = t THEN [count |-> kept["threads"][p].count + 1, at |-> seen]
                                ELSE kept["threads"][p]]
<1>1. DOMAIN kept = KeptTables /\ DOMAIN told = ToldTables /\ told' = told
        /\ kept' = [kept EXCEPT !["threads"] = rows]
  BY DEF R!RecordMessageSeen, R!Written, RecordsInv, Whole
<1>2. IsRow(rows) /\ DOMAIN rows = DOMAIN kept["threads"]
  <2>1. IsRow(kept["threads"])
    BY DEF RecordsInv, Whole, KeptTables
  <2>. QED BY <2>1, RowMapped
<1>. HIDE DEF rows
<1>3. DOMAIN kept' = KeptTables /\ kept'["threads"] = rows
        /\ \A u \in KeptTables : u # "threads" => kept'[u] = kept[u]
  BY <1>1 DEF KeptTables
<1>4. Whole'
  BY <1>1, <1>2, <1>3 DEF RecordsInv, Whole
<1>5. \A u \in Twinned \cup {"evidence", "features"} : kept'[u] = kept[u]
  BY <1>3 DEF Twinned, KeptTables
<1>6. TwinInv'
  BY <1>1, <1>5 DEF RecordsInv, TwinInv
<1>7. kept'["evidence"] = kept["evidence"] /\ kept'["features"] = kept["features"]
  BY <1>5
<1>8. SourceInv' /\ FeatureInv'
  BY <1>1, <1>7 DEF RecordsInv, SourceInv, FeatureInv
<1>9. LinkInv'
  <2>1. \A u \in KeptTables : DOMAIN kept[u] \subseteq DOMAIN kept'[u]
    BY <1>2, <1>3
  <2>2. ASSUME NEW u \in KeptTables, NEW i \in DOMAIN kept'[u] PROVE Linked(kept', u, kept'[u][i])
    <3>1. CASE u = "threads"
      BY <3>1 DEF Linked
    <3>2. CASE u # "threads"
      <4>1. Linked(kept, u, kept'[u][i])
        BY <1>3, <3>2 DEF RecordsInv, LinkInv
      <4>. QED BY <2>1, <4>1, LinksStay
    <3>. QED BY <3>1, <3>2
  <2>. QED BY <2>2 DEF LinkInv
<1>. QED BY <1>4, <1>6, <1>8, <1>9 DEF RecordsInv

\* Rows at the end of a table, each pointing at rows that are there afterwards.
Extended(db, t, rows) == [db EXCEPT ![t] = @ \o rows]

Joint(T, db, t, rows, k) ==
  /\ DOMAIN k = T
  /\ \A u \in T : IsRow(k[u]) /\ (u # t => k[u] = db[u])
  /\ Len(db[t]) \in Nat /\ Len(rows) \in Nat /\ DOMAIN db[t] = 1 .. Len(db[t])
  /\ DOMAIN rows = 1 .. Len(rows)
  /\ DOMAIN k[t] = 1 .. Len(db[t]) + Len(rows)
  /\ \A i \in DOMAIN db[t] : k[t][i] = db[t][i]
  /\ \A i \in DOMAIN rows : k[t][Len(db[t]) + i] = rows[i]
  /\ \A i \in DOMAIN k[t] : i \notin DOMAIN db[t] =>
       i - Len(db[t]) \in DOMAIN rows /\ k[t][i] = rows[i - Len(db[t])]
  /\ \A u \in T : DOMAIN db[u] \subseteq DOMAIN k[u]

LEMMA Joins ==
  ASSUME NEW T, NEW db, DOMAIN db = T, \A u \in T : IsRow(db[u]),
         NEW t \in T, NEW rows, IsRow(rows), NEW k, k = Extended(db, t, rows)
  PROVE  Joint(T, db, t, rows, k)
<1>1. k[t] = db[t] \o rows /\ DOMAIN k = T /\ \A u \in T : u # t => k[u] = db[u]
  BY DEF Extended
<1>2. /\ IsRow(k[t]) /\ Len(db[t]) \in Nat /\ Len(rows) \in Nat
      /\ DOMAIN db[t] = 1 .. Len(db[t]) /\ DOMAIN rows = 1 .. Len(rows)
      /\ DOMAIN k[t] = 1 .. Len(db[t]) + Len(rows)
      /\ \A i \in 1 .. Len(db[t]) + Len(rows) :
           k[t][i] = IF i <= Len(db[t]) THEN db[t][i] ELSE rows[i - Len(db[t])]
  BY <1>1, RowJoined
<1>3. \A i \in DOMAIN db[t] : k[t][i] = db[t][i]
  BY <1>2
<1>4. \A i \in DOMAIN rows : k[t][Len(db[t]) + i] = rows[i]
  BY <1>2
<1>5. \A i \in DOMAIN k[t] : i \notin DOMAIN db[t] =>
              i - Len(db[t]) \in DOMAIN rows /\ k[t][i] = rows[i - Len(db[t])]
  BY <1>2
<1>6. \A u \in T : DOMAIN db[u] \subseteq DOMAIN k[u]
  <2>. TAKE u \in T
  <2>1. CASE u = t
    BY <1>2, <2>1
  <2>2. CASE u # t
    BY <1>1, <2>2
  <2>. QED BY <2>1, <2>2
<1>7. \A u \in T : IsRow(k[u])
  BY <1>1, <1>2
<1>. QED BY <1>1, <1>2, <1>3, <1>4, <1>5, <1>6, <1>7 DEF Joint

FeatureRowsOf(m, names, n) == [k \in 1 .. n |-> [message |-> m, name |-> names[k]]]

LEMMA FeaturesStay ==
  ASSUME RecordsInv, NEW m, NEW names, NEW done \in Nat, R!AddFeatures(m, names, done)
  PROVE  RecordsInv'
<1>. DEFINE rows == FeatureRowsOf(m, names, done)
<1>1. /\ kept' = IF R!Refers("messages", m) THEN Extended(kept, "features", rows) ELSE kept
      /\ told' = IF R!Refers("messages", m) /\ done = Len(names)
                   THEN Extended(told, "features", rows) ELSE told
  BY DEF R!AddFeatures, R!Written, Extended, FeatureRowsOf
<1>2. IsRow(rows) /\ DOMAIN rows = 1 .. done /\ \A k \in 1 .. done : rows[k].message = m
  <2>1. DOMAIN rows = 1 .. done /\ rows = [k \in 1 .. done |-> rows[k]]
          /\ \A k \in 1 .. done : rows[k].message = m
    BY DEF FeatureRowsOf
  <2>. HIDE DEF rows
  <2>. QED BY <2>1, FreshRow
<1>. HIDE DEF rows
<1>3. CASE ~R!Refers("messages", m)
  BY <1>1, <1>3 DEF RecordsInv, Whole, TwinInv, LinkInv, SourceInv, FeatureInv
<1>4. CASE R!Refers("messages", m)
  <2>1. kept' = Extended(kept, "features", rows)
    BY <1>1, <1>4
  <2>2. "features" \in KeptTables /\ "features" \in ToldTables
    BY DEF KeptTables, ToldTables
  <2>3. /\ DOMAIN kept' = KeptTables
        /\ \A u \in KeptTables : IsRow(kept'[u]) /\ (u # "features" => kept'[u] = kept[u])
        /\ Len(kept["features"]) \in Nat /\ DOMAIN kept["features"] = 1 .. Len(kept["features"])
        /\ DOMAIN kept'["features"] = 1 .. Len(kept["features"]) + Len(rows) /\ Len(rows) \in Nat
        /\ DOMAIN rows = 1 .. Len(rows)
        /\ \A i \in DOMAIN kept["features"] : kept'["features"][i] = kept["features"][i]
        /\ \A i \in DOMAIN rows : kept'["features"][Len(kept["features"]) + i] = rows[i]
        /\ \A i \in DOMAIN kept'["features"] : i \notin DOMAIN kept["features"] =>
             i - Len(kept["features"]) \in DOMAIN rows
               /\ kept'["features"][i] = rows[i - Len(kept["features"])]
        /\ \A u \in KeptTables : DOMAIN kept[u] \subseteq DOMAIN kept'[u]
    <3>. HIDE DEF KeptTables
    <3>1. Joint(KeptTables, kept, "features", rows, kept')
      BY <1>2, <2>1, <2>2, Joins DEF RecordsInv, Whole
    <3>. QED BY <3>1 DEF Joint
  <2>4. \A u \in Twinned \cup {"evidence"} : u \in KeptTables /\ kept'[u] = kept[u]
    BY <2>3 DEF Twinned, KeptTables
  <2>5. LinkInv'
    <3>1. ASSUME NEW u \in KeptTables, NEW i \in DOMAIN kept'[u] PROVE Linked(kept, u, kept'[u][i])
      <4>1. CASE u = "features" /\ i \notin DOMAIN kept["features"]
        <5>1. kept'[u][i].message = m
          BY <1>2, <2>3, <4>1
        <5>. QED BY <1>4, <4>1, <5>1 DEF Linked, There, R!Refers
      <4>2. CASE u = "features" /\ i \in DOMAIN kept["features"]
        BY <2>3, <4>2 DEF RecordsInv, LinkInv
      <4>3. CASE u # "features"
        BY <2>3, <4>3 DEF RecordsInv, LinkInv
      <4>. QED BY <4>1, <4>2, <4>3
    <3>2. ASSUME NEW u \in KeptTables, NEW i \in DOMAIN kept'[u] PROVE Linked(kept', u, kept'[u][i])
      BY <2>3, <3>1, LinksStay
    <3>. QED BY <3>2 DEF LinkInv
  <2>6. /\ DOMAIN told' = ToldTables
        /\ \A u \in ToldTables : IsRow(told'[u]) /\ (u # "features" => told'[u] = told[u])
        /\ \A f \in DOMAIN told'["features"] :
             \/ f \in DOMAIN told["features"] /\ told'["features"][f] = told["features"][f]
             \/ \E k \in DOMAIN rows : told'["features"][f] = rows[k]
    <3>1. CASE told' = told
      BY <3>1 DEF RecordsInv, Whole
    <3>2. CASE told' = Extended(told, "features", rows)
      <4>. HIDE DEF ToldTables
      <4>1. /\ DOMAIN told' = ToldTables
            /\ \A u \in ToldTables : IsRow(told'[u]) /\ (u # "features" => told'[u] = told[u])
            /\ \A i \in DOMAIN told["features"] : told'["features"][i] = told["features"][i]
            /\ \A i \in DOMAIN told'["features"] : i \notin DOMAIN told["features"] =>
                 i - Len(told["features"]) \in DOMAIN rows
                   /\ told'["features"][i] = rows[i - Len(told["features"])]
        <5>1. Joint(ToldTables, told, "features", rows, told')
          BY <1>2, <2>2, <3>2, Joins DEF RecordsInv, Whole
        <5>. QED BY <5>1 DEF Joint
      <4>. QED BY <4>1
    <3>. QED BY <1>1, <3>1, <3>2
  <2>7. Whole'
    BY <2>3, <2>6 DEF Whole
  <2>8. \A u \in Twinned : told'[u] = told[u]
    BY <2>6 DEF Twinned, ToldTables
  <2>9. TwinInv'
    BY <2>4, <2>8 DEF RecordsInv, TwinInv
  <2>10. SourceInv'
    <3>1. kept'["evidence"] = kept["evidence"] /\ told'["proposals"] = told["proposals"]
      BY <2>4, <2>8 DEF Twinned
    <3>. QED BY <3>1 DEF RecordsInv, SourceInv
  <2>11. FeatureInv'
    <3>. SUFFICES ASSUME NEW f \in DOMAIN told'["features"]
                  PROVE  \E g \in DOMAIN kept'["features"] :
                           /\ kept'["features"][g].message = told'["features"][f].message
                           /\ kept'["features"][g].name = told'["features"][f].name
      BY DEF FeatureInv
    <3>1. CASE f \in DOMAIN told["features"] /\ told'["features"][f] = told["features"][f]
      <4>1. PICK g \in DOMAIN kept["features"] :
              /\ kept["features"][g].message = told["features"][f].message
              /\ kept["features"][g].name = told["features"][f].name
        BY <3>1 DEF RecordsInv, FeatureInv
      <4>. QED BY <2>2, <2>3, <3>1, <4>1
    <3>2. CASE \E k \in DOMAIN rows : told'["features"][f] = rows[k]
      <4>1. PICK k \in DOMAIN rows : told'["features"][f] = rows[k]
        BY <3>2
      <4>2. Len(kept["features"]) + k \in DOMAIN kept'["features"]
        BY <2>3
      <4>. QED BY <2>3, <4>1, <4>2
    <3>. QED BY <2>6, <3>1, <3>2
  <2>. QED BY <2>5, <2>7, <2>9, <2>10, <2>11 DEF RecordsInv
<1>. QED BY <1>3, <1>4

\* What Added says, as one fact.
Adds(T, db, t, row, k) ==
  /\ DOMAIN k = T
  /\ \A u \in T : IsRow(k[u]) /\ (u # t => k[u] = db[u])
  /\ Len(k[t]) = Len(db[t]) + 1 /\ Len(db[t]) \in Nat
  /\ DOMAIN db[t] = 1 .. Len(db[t]) /\ DOMAIN k[t] = 1 .. Len(db[t]) + 1
  /\ \A i \in DOMAIN db[t] : k[t][i] = db[t][i]
  /\ k[t][Len(db[t]) + 1] = row
  /\ \A u \in T : DOMAIN db[u] \subseteq DOMAIN k[u]

LEMMA ProposalStays ==
  ASSUME RecordsInv, NEW status, NEW n \in Nat, NEW sources, DOMAIN sources = 1 .. n,
         NEW fails, R!SaveProposal(status, sources, fails)
  PROVE  RecordsInv'
<1>. DEFINE said  == [status |-> status, reviewed |-> NULL]
            row   == [json |-> said, status |-> status, reviewed |-> NULL, at |-> clock]
            word  == [status |-> status, reviewed |-> NULL, evidence |-> sources]
            new   == Len(kept["proposals"]) + 1
            links == [k \in 1 .. n |-> [proposal |-> new, source |-> sources[k], at |-> clock]]
            mid   == Grown(kept, "proposals", row)
<1>1. CASE fails
  BY <1>1 DEF R!SaveProposal, R!Written, RecordsInv, Whole, TwinInv, LinkInv, SourceInv, FeatureInv
<1>2. CASE ~fails
  <2>1. told' = Grown(told, "proposals", word)
    BY <1>2 DEF R!SaveProposal, R!Written, Grown
  <2>2. kept' = [kept EXCEPT !.proposals = Append(@, row), !.evidence = @ \o links]
    BY <1>2 DEF R!SaveProposal, R!Written, R!Links
  <2>3. DOMAIN kept = KeptTables /\ DOMAIN told = ToldTables
          /\ (\A u \in KeptTables : IsRow(kept[u])) /\ (\A u \in ToldTables : IsRow(told[u]))
          /\ "proposals" \in KeptTables /\ "evidence" \in KeptTables /\ "proposals" \in ToldTables
    BY DEF RecordsInv, Whole, KeptTables, ToldTables, Twinned
  <2>4. kept' = Extended(mid, "evidence", links)
    BY <2>2, <2>3 DEF Grown, Extended
  <2>5. /\ DOMAIN links = 1 .. n /\ IsRow(links)
        /\ \A k \in 1 .. n : links[k].proposal = new /\ links[k].source = sources[k]
    <3>1. DOMAIN links = 1 .. n /\ links = [k \in 1 .. n |-> links[k]]
            /\ \A k \in 1 .. n : links[k].proposal = new /\ links[k].source = sources[k]
      OBVIOUS
    <3>. HIDE DEF links
    <3>. QED BY <3>1, FreshRow
  <2>6. SameRow("proposals", row, word)
    BY DEF SameRow
  <2>7. word.evidence = sources
    OBVIOUS
  <2>. HIDE DEF links, row, word, KeptTables, ToldTables, mid
  <2>8. Adds(KeptTables, kept, "proposals", row, mid)
    BY <2>3, Added DEF Adds, mid
  <2>9. Adds(ToldTables, told, "proposals", word, told')
    BY <2>1, <2>3, Added DEF Adds
  <2>10. Joint(KeptTables, mid, "evidence", links, kept')
    <3>1. DOMAIN mid = KeptTables /\ \A u \in KeptTables : IsRow(mid[u])
      BY <2>8 DEF Adds
    <3>. QED BY <2>3, <2>4, <2>5, <3>1, Joins
  <2>11. /\ mid["evidence"] = kept["evidence"] /\ kept'["proposals"] = mid["proposals"]
         /\ kept'["features"] = kept["features"]
         /\ \A u \in KeptTables : u \notin {"proposals", "evidence"} => kept'[u] = kept[u]
         /\ \A u \in KeptTables : DOMAIN kept[u] \subseteq DOMAIN kept'[u]
         /\ new \in Nat /\ new \in DOMAIN kept'["proposals"]
    <3>1. "features" \in KeptTables
      BY DEF KeptTables
    <3>2. new \in DOMAIN mid["proposals"] /\ new \in Nat
      BY <2>8 DEF Adds
    <3>3. kept'["proposals"] = mid["proposals"] /\ mid["evidence"] = kept["evidence"]
      BY <2>3, <2>8, <2>10 DEF Adds, Joint
    <3>4. \A u \in KeptTables : u \notin {"proposals", "evidence"} => kept'[u] = kept[u]
      BY <2>8, <2>10 DEF Adds, Joint
    <3>5. \A u \in KeptTables : DOMAIN kept[u] \subseteq DOMAIN kept'[u]
      <4>1. \A u \in KeptTables : DOMAIN kept[u] \subseteq DOMAIN mid[u]
        BY <2>8 DEF Adds
      <4>2. \A u \in KeptTables : DOMAIN mid[u] \subseteq DOMAIN kept'[u]
        BY <2>10 DEF Joint
      <4>. QED BY <4>1, <4>2
    <3>. QED BY <3>1, <3>2, <3>3, <3>4, <3>5
  <2>. HIDE DEF new
  <2>12. Whole'
    BY <2>9, <2>10 DEF Whole, Adds, Joint
  <2>13. /\ Len(kept["proposals"]) = Len(told["proposals"])
         /\ \A i \in DOMAIN kept["proposals"] :
              SameRow("proposals", kept["proposals"][i], told["proposals"][i])
    BY DEF RecordsInv, TwinInv, Twinned
  <2>14. /\ kept'["proposals"][new] = row /\ told'["proposals"][new] = word
         /\ DOMAIN kept'["proposals"] = DOMAIN kept["proposals"] \cup {new}
         /\ DOMAIN told'["proposals"] = DOMAIN told["proposals"] \cup {new}
         /\ DOMAIN told["proposals"] = DOMAIN kept["proposals"]
         /\ new \notin DOMAIN kept["proposals"]
         /\ Len(kept'["proposals"]) = Len(told'["proposals"])
         /\ \A i \in DOMAIN kept["proposals"] :
              kept'["proposals"][i] = kept["proposals"][i] /\ told'["proposals"][i] = told["proposals"][i]
    BY <2>8, <2>9, <2>11, <2>13, SMTT(30) DEF Adds, new
  <2>15. TwinInv'
    <3>. SUFFICES ASSUME NEW u \in Twinned
                  PROVE  /\ Len(kept'[u]) = Len(told'[u])
                         /\ \A i \in DOMAIN kept'[u] : SameRow(u, kept'[u][i], told'[u][i])
      BY DEF TwinInv
    <3>1. CASE u = "proposals"
      BY <2>6, <2>13, <2>14, <3>1
    <3>2. CASE u # "proposals"
      <4>1. kept'[u] = kept[u]
        BY <2>11, <3>2 DEF Twinned, KeptTables
      <4>2. told'[u] = told[u]
        BY <2>9, <3>2 DEF Adds, Twinned, ToldTables
      <4>. QED BY <4>1, <4>2 DEF RecordsInv, TwinInv
    <3>. QED BY <3>1, <3>2
  <2>16. ASSUME NEW e \in DOMAIN kept'["evidence"]
         PROVE  \/ e \in DOMAIN kept["evidence"] /\ kept'["evidence"][e] = kept["evidence"][e]
                \/ \E k \in 1 .. n : kept'["evidence"][e] = links[k]
    BY <2>5, <2>10, <2>11 DEF Joint
  <2>17. LinkInv'
    <3>. SUFFICES ASSUME NEW u \in KeptTables, NEW i \in DOMAIN kept'[u]
                  PROVE  Linked(kept', u, kept'[u][i])
      BY DEF LinkInv
    <3>1. CASE u = "proposals"
      BY <3>1 DEF Linked
    <3>2. CASE u = "evidence" /\ \E k \in 1 .. n : kept'["evidence"][i] = links[k]
      BY <2>5, <2>11, <3>2 DEF Linked
    <3>3. CASE u # "proposals" /\ i \in DOMAIN kept[u] /\ kept'[u][i] = kept[u][i]
      <4>1. Linked(kept, u, kept'[u][i])
        BY <3>3 DEF RecordsInv, LinkInv
      <4>. QED BY <2>11, <4>1, LinksStay
    <3>. QED BY <2>11, <2>16, <3>1, <3>2, <3>3
  <2>18. FeatureInv'
    <3>1. told'["features"] = told["features"]
      BY <2>9 DEF Adds, ToldTables
    <3>. QED BY <2>11, <3>1 DEF RecordsInv, FeatureInv
  <2>19. \A e \in DOMAIN kept["evidence"] :
           e \in DOMAIN kept'["evidence"] /\ kept'["evidence"][e] = kept["evidence"][e]
             /\ kept["evidence"][e].proposal \in DOMAIN kept["proposals"]
    <3>1. \A e \in DOMAIN kept["evidence"] : kept["evidence"][e].proposal \in DOMAIN kept["proposals"]
      <4>. TAKE e \in DOMAIN kept["evidence"]
      <4>1. Linked(kept, "evidence", kept["evidence"][e])
        BY <2>3 DEF RecordsInv, LinkInv
      <4>. QED BY <4>1 DEF Linked
    <3>2. \A e \in DOMAIN mid["evidence"] : kept'["evidence"][e] = mid["evidence"][e]
      BY <2>10 DEF Joint
    <3>3. DOMAIN kept["evidence"] \subseteq DOMAIN kept'["evidence"]
      BY <2>3, <2>11
    <3>4. mid["evidence"] = kept["evidence"]
      BY <2>11
    <3>. QED BY <3>1, <3>2, <3>3, <3>4
  <2>20. \A k \in 1 .. n : \E e \in DOMAIN kept'["evidence"] : kept'["evidence"][e] = links[k]
    <3>. TAKE k \in 1 .. n
    <3>1. k \in DOMAIN links
      BY <2>5
    <3>2. kept'["evidence"][Len(mid["evidence"]) + k] = links[k]
      BY <2>10, <3>1 DEF Joint
    <3>3. Len(mid["evidence"]) + k \in DOMAIN kept'["evidence"]
      BY <2>10, <3>1 DEF Joint
    <3>. QED BY <3>2, <3>3
  <2>21. \A E, p, x : x \in SourcesIn(E, p) <=> \E e \in DOMAIN E : E[e].proposal = p /\ E[e].source = x
    BY DEF SourcesIn
  <2>22. ASSUME NEW p \in DOMAIN told["proposals"]
         PROVE  SourcesIn(kept'["evidence"], p) = SourcesIn(kept["evidence"], p)
    <3>1. p # new
      BY <2>14
    <3>2. \A x : (\E e \in DOMAIN kept'["evidence"] :
                    kept'["evidence"][e].proposal = p /\ kept'["evidence"][e].source = x)
             <=> (\E e \in DOMAIN kept["evidence"] :
                    kept["evidence"][e].proposal = p /\ kept["evidence"][e].source = x)
      BY <2>5, <2>16, <2>19, <3>1
    <3>3. \A x : x \in SourcesIn(kept'["evidence"], p) <=> x \in SourcesIn(kept["evidence"], p)
      BY <2>21, <3>2
    <3>. QED BY <3>3
  <2>23. SourcesIn(kept'["evidence"], new) = R!ToSet(sources)
    <3>1. \A x : (\E e \in DOMAIN kept'["evidence"] :
                    kept'["evidence"][e].proposal = new /\ kept'["evidence"][e].source = x)
             <=> (\E k \in 1 .. n : sources[k] = x)
      BY <2>5, <2>14, <2>16, <2>19, <2>20
    <3>2. \A x : x \in R!ToSet(sources) <=> \E k \in 1 .. n : sources[k] = x
      BY DEF R!ToSet
    <3>3. \A x : x \in SourcesIn(kept'["evidence"], new) <=> x \in R!ToSet(sources)
      BY <2>21, <3>1, <3>2
    <3>. QED BY <3>3
  <2>24. SourceInv'
    <3>. SUFFICES ASSUME NEW p \in DOMAIN told'["proposals"]
                  PROVE  SourcesIn(kept'["evidence"], p) = R!ToSet(told'["proposals"][p].evidence)
      BY DEF SourceInv
    <3>1. CASE p = new
      BY <2>7, <2>14, <2>23, <3>1
    <3>2. CASE p # new
      <4>1. p \in DOMAIN told["proposals"] /\ told'["proposals"][p] = told["proposals"][p]
        BY <2>14, <3>2
      <4>2. SourcesIn(kept["evidence"], p) = R!ToSet(told["proposals"][p].evidence)
        BY <4>1 DEF RecordsInv, SourceInv
      <4>. QED BY <2>22, <4>1, <4>2
    <3>. QED BY <3>1, <3>2
  <2>. QED BY <2>12, <2>15, <2>17, <2>18, <2>24 DEF RecordsInv
<1>. QED BY <1>1, <1>2

\* What Update and Insert ask of each call.
LEMMA Rewordings ==
  /\ \A status, x, y : SameRow("messages", x, y) =>
       SameRow("messages", R!Over([status |-> status], x), R!Over([status |-> status], y))
  /\ \A trust, at, x, y : SameRow("senders", x, y) =>
       SameRow("senders", R!Over([trust |-> trust, at |-> at], x), R!Over([trust |-> trust, at |-> at], y))
  /\ \A status, reviewed, x, y : SameRow("proposals", x, y) =>
       SameRow("proposals", R!Over([status |-> status, reviewed |-> reviewed], x),
                            R!Over([status |-> status, reviewed |-> reviewed], y))
  /\ \A t \in {"drafts", "conflicts", "adapters"} : \A set, status, x, y :
       SameRow(t, x, y) /\ "status" \in DOMAIN set /\ set.status = status =>
         SameRow(t, R!Over(set, x), R!Over([status |-> status], y))
<1>1. ASSUME NEW status, NEW x, NEW y, SameRow("messages", x, y)
      PROVE  SameRow("messages", R!Over([status |-> status], x), R!Over([status |-> status], y))
  BY <1>1 DEF SameRow, R!Over
<1>2. ASSUME NEW trust, NEW at, NEW x, NEW y, SameRow("senders", x, y)
      PROVE  SameRow("senders", R!Over([trust |-> trust, at |-> at], x),
                                R!Over([trust |-> trust, at |-> at], y))
  BY <1>2 DEF SameRow, R!Over
<1>3. ASSUME NEW status, NEW reviewed, NEW x, NEW y, SameRow("proposals", x, y)
      PROVE  SameRow("proposals", R!Over([status |-> status, reviewed |-> reviewed], x),
                                  R!Over([status |-> status, reviewed |-> reviewed], y))
  BY <1>3 DEF SameRow, R!Over
<1>4. ASSUME NEW t \in {"drafts", "conflicts", "adapters"}, NEW set, NEW status, NEW x, NEW y,
             SameRow(t, x, y), "status" \in DOMAIN set, set.status = status
      PROVE  SameRow(t, R!Over(set, x), R!Over([status |-> status], y))
  BY <1>4 DEF SameRow, R!Over
<1>. QED BY <1>1, <1>2, <1>3, <1>4

LEMMA MailStays ==
  ASSUME RecordsInv,
         \/ R!InsertThread
         \/ \E m \in R!Ids("messages"), status \in R!ClassificationStatuses :
              R!SetClassificationStatus(m, status)
         \/ \E new \in R!NewMessages : R!InsertMessage(new)
         \/ \E message \in R!Opt(R!Ids("messages")), thread \in R!Opt(R!Ids("threads")) :
              R!InsertDraft(message, thread)
         \/ \E d \in R!Ids("drafts"), status \in R!DraftStatuses : R!SetDraftStatus(d, status)
  PROVE  RecordsInv'
<1>1. CASE R!InsertThread
  <2>1. Linked(kept, "threads", [count |-> 1, at |-> clock])
          /\ "threads" \in KeptTables \ (Twinned \cup {"features", "evidence"})
    BY DEF Linked, KeptTables, Twinned
  <2>. QED BY <1>1, <2>1, Inserts DEF R!InsertThread
<1>2. ASSUME NEW m, NEW status, R!SetClassificationStatus(m, status) PROVE RecordsInv'
  <2>. DEFINE set == [status |-> status]
  <2>1. DOMAIN set = {"status"} /\ R!Update("messages", m, set, set) /\ "messages" \in Twinned
    BY <1>2 DEF R!SetClassificationStatus, Twinned
  <2>2. \A x, y : SameRow("messages", x, y) => SameRow("messages", R!Over(set, x), R!Over(set, y))
    BY Rewordings
  <2>. HIDE DEF set
  <2>. QED BY <2>1, <2>2, Updates
<1>3. ASSUME NEW new \in R!NewMessages, R!InsertMessage(new) PROVE RecordsInv'
  <2>. DEFINE word == [status |-> "pending", retention |-> new.retention]
              refers == R!Refers("threads", new.thread)
  <2>1. R!InsertTold("messages", R!Gated(new), word, refers) /\ "messages" \in Twinned \ {"proposals"}
    BY <1>3 DEF R!InsertMessage, Twinned
  <2>2. SameRow("messages", R!Gated(new), word)
    BY DEF SameRow, R!Gated
  <2>3. refers => Linked(kept, "messages", R!Gated(new))
    BY DEF Linked, R!Gated, There, R!Refers
  <2>. HIDE DEF word, refers
  <2>. QED BY <2>1, <2>2, <2>3, InsertsTold
<1>4. ASSUME NEW message, NEW thread, R!InsertDraft(message, thread) PROVE RecordsInv'
  <2>. DEFINE row == [message |-> message, thread |-> thread, review |-> TRUE,
                      status |-> "generated", at |-> clock]
              word == [status |-> "generated"]
              refers == R!Refers("messages", message) /\ R!Refers("threads", thread)
  <2>1. R!InsertTold("drafts", row, word, refers) /\ "drafts" \in Twinned \ {"proposals"}
    BY <1>4 DEF R!InsertDraft, Twinned
  <2>2. SameRow("drafts", row, word)
    BY DEF SameRow
  <2>3. refers => Linked(kept, "drafts", row)
    BY DEF Linked, There, R!Refers
  <2>. HIDE DEF row, word, refers
  <2>. QED BY <2>1, <2>2, <2>3, InsertsTold
<1>5. ASSUME NEW d, NEW status, R!SetDraftStatus(d, status) PROVE RecordsInv'
  <2>. DEFINE set == [status |-> status, at |-> clock]
              word == [status |-> status]
  <2>1. DOMAIN set = {"status", "at"} /\ DOMAIN word = {"status"} /\ R!Update("drafts", d, set, word)
          /\ "drafts" \in Twinned
    BY <1>5 DEF R!SetDraftStatus, Twinned
  <2>2. \A x, y : SameRow("drafts", x, y) => SameRow("drafts", R!Over(set, x), R!Over(word, y))
    BY Rewordings
  <2>. HIDE DEF set, word
  <2>. QED BY <2>1, <2>2, Updates
<1>. QED BY <1>1, <1>2, <1>3, <1>4, <1>5

LEMMA SendersStay ==
  ASSUME RecordsInv,
         \/ \E email \in Keys : R!InsertSender(email)
         \/ \E s \in R!Ids("senders"), trust \in R!TrustLevels : R!SetTrustLevel(s, trust)
  PROVE  RecordsInv'
<1>1. ASSUME NEW email, R!InsertSender(email) PROVE RecordsInv'
  <2>. DEFINE row == [email |-> email, trust |-> "unknown", at |-> clock]
  <2>1. R!InsertTold("senders", row, row, TRUE) /\ "senders" \in Twinned \ {"proposals"}
    BY <1>1 DEF R!InsertSender, Twinned
  <2>2. SameRow("senders", row, row) /\ Linked(kept, "senders", row)
    BY DEF SameRow, Linked
  <2>. HIDE DEF row
  <2>. QED BY <2>1, <2>2, InsertsTold
<1>2. ASSUME NEW s, NEW trust, R!SetTrustLevel(s, trust) PROVE RecordsInv'
  <2>. DEFINE set == [trust |-> trust, at |-> clock]
  <2>1. DOMAIN set = {"trust", "at"} /\ R!Update("senders", s, set, set) /\ "senders" \in Twinned
    BY <1>2 DEF R!SetTrustLevel, Twinned
  <2>2. \A x, y : SameRow("senders", x, y) => SameRow("senders", R!Over(set, x), R!Over(set, y))
    BY Rewordings
  <2>. HIDE DEF set
  <2>. QED BY <2>1, <2>2, Updates
<1>. QED BY <1>1, <1>2

LEMMA ProposalsStay ==
  ASSUME RecordsInv,
         \/ \E status \in {"draft", "pending_review"}, n \in 0 .. R!Cardinality(Keys),
               fails \in BOOLEAN :
              R!SaveProposal(status, [k \in 1 .. n |-> R!SetToSeq(Keys)[k]], fails)
         \/ \E p \in R!Ids("proposals"), status \in R!ProposalStatuses, reviewed \in {NULL, clock} :
              R!SetProposalStatus(p, status, reviewed)
         \/ R!AppendConflict
         \/ \E c \in R!Ids("conflicts"), status \in R!ConflictStatuses, resolved \in {NULL, clock} :
              R!SetConflictStatus(c, status, resolved)
  PROVE  RecordsInv'
<1>1. ASSUME NEW status, NEW n \in 0 .. R!Cardinality(Keys), NEW fails,
             R!SaveProposal(status, [k \in 1 .. n |-> R!SetToSeq(Keys)[k]], fails)
      PROVE  RecordsInv'
  <2>. DEFINE sources == [k \in 1 .. n |-> R!SetToSeq(Keys)[k]]
  <2>1. n \in Nat /\ DOMAIN sources = 1 .. n /\ R!SaveProposal(status, sources, fails)
    BY <1>1
  <2>. HIDE DEF sources
  <2>. QED BY <2>1, ProposalStays
<1>2. ASSUME NEW p, NEW status, NEW reviewed, R!SetProposalStatus(p, status, reviewed)
      PROVE  RecordsInv'
  <2>. DEFINE set == [status |-> status, reviewed |-> reviewed]
  <2>1. DOMAIN set = {"status", "reviewed"} /\ R!Update("proposals", p, set, set)
          /\ "proposals" \in Twinned
    BY <1>2 DEF R!SetProposalStatus, Twinned
  <2>2. \A x, y : SameRow("proposals", x, y) => SameRow("proposals", R!Over(set, x), R!Over(set, y))
    BY Rewordings
  <2>. HIDE DEF set
  <2>. QED BY <2>1, <2>2, Updates
<1>3. CASE R!AppendConflict
  <2>. DEFINE row == [status |-> "open", resolved |-> NULL, at |-> clock]
              word == [status |-> "open"]
  <2>1. R!InsertTold("conflicts", row, word, TRUE) /\ "conflicts" \in Twinned \ {"proposals"}
    BY <1>3 DEF R!AppendConflict, Twinned
  <2>2. SameRow("conflicts", row, word) /\ Linked(kept, "conflicts", row)
    BY DEF SameRow, Linked
  <2>. HIDE DEF row, word
  <2>. QED BY <2>1, <2>2, InsertsTold
<1>4. ASSUME NEW c, NEW status, NEW resolved, R!SetConflictStatus(c, status, resolved)
      PROVE  RecordsInv'
  <2>. DEFINE set == [status |-> status, resolved |-> resolved]
              word == [status |-> status]
  <2>1. DOMAIN set = {"status", "resolved"} /\ DOMAIN word = {"status"} /\ set.status = status
          /\ R!Update("conflicts", c, set, word) /\ "conflicts" \in Twinned
    BY <1>4 DEF R!SetConflictStatus, Twinned
  <2>2. \A x, y : SameRow("conflicts", x, y) => SameRow("conflicts", R!Over(set, x), R!Over(word, y))
    BY Rewordings
  <2>. HIDE DEF set, word
  <2>. QED BY <2>1, <2>2, Updates
<1>. QED BY <1>1, <1>2, <1>3, <1>4

LEMMA FeedbackStays ==
  ASSUME RecordsInv,
         \/ \E kind \in R!FeedbackKinds, subject, verdict \in Keys :
              R!AppendFeedback(kind, subject, verdict)
         \/ \E proposal \in Keys : R!AppendDecision(proposal)
         \/ \E rule \in Keys : R!AppendShadow(rule)
  PROVE  RecordsInv'
<1>1. \A t \in {"feedback", "decisions", "shadow"} :
        /\ t \in KeptTables \ (Twinned \cup {"features", "evidence"})
        /\ \A row : Linked(kept, t, row)
  BY DEF Linked, KeptTables, Twinned
<1>2. ASSUME NEW t \in {"feedback", "decisions", "shadow"}, NEW row, R!Insert(t, row, TRUE)
      PROVE  RecordsInv'
  BY <1>1, <1>2, Inserts
<1>. QED BY <1>2 DEF R!AppendFeedback, R!AppendDecision, R!AppendShadow

LEMMA TrainingStays ==
  ASSUME RecordsInv,
         \/ R!AppendDataset
         \/ \E dataset \in R!Opt(R!Ids("datasets")) : R!AppendAdapter(dataset)
         \/ \E a \in R!Ids("adapters"), status \in R!AdapterStatuses : R!SetAdapterStatus(a, status)
         \/ \E a \in R!Ids("adapters"), d \in R!Ids("datasets"), approved \in BOOLEAN :
              R!AppendRun(a, d, approved)
  PROVE  RecordsInv'
<1>1. CASE R!AppendDataset
  <2>1. Linked(kept, "datasets", [at |-> clock])
          /\ "datasets" \in KeptTables \ (Twinned \cup {"features", "evidence"})
    BY DEF Linked, KeptTables, Twinned
  <2>. QED BY <1>1, <2>1, Inserts DEF R!AppendDataset
<1>2. ASSUME NEW dataset, R!AppendAdapter(dataset) PROVE RecordsInv'
  <2>. DEFINE row == [dataset |-> dataset, status |-> "candidate", at |-> clock]
              word == [status |-> "candidate"]
              refers == R!Refers("datasets", dataset)
  <2>1. R!InsertTold("adapters", row, word, refers) /\ "adapters" \in Twinned \ {"proposals"}
    BY <1>2 DEF R!AppendAdapter, Twinned
  <2>2. SameRow("adapters", row, word)
    BY DEF SameRow
  <2>3. refers => Linked(kept, "adapters", row)
    BY DEF Linked, There, R!Refers
  <2>. HIDE DEF row, word, refers
  <2>. QED BY <2>1, <2>2, <2>3, InsertsTold
<1>3. ASSUME NEW a, NEW status, R!SetAdapterStatus(a, status) PROVE RecordsInv'
  <2>. DEFINE set == [status |-> status]
  <2>1. DOMAIN set = {"status"} /\ set.status = status
          /\ R!Update("adapters", a, set, set) /\ "adapters" \in Twinned
    BY <1>3 DEF R!SetAdapterStatus, Twinned
  <2>2. \A x, y : SameRow("adapters", x, y) => SameRow("adapters", R!Over(set, x), R!Over(set, y))
    BY Rewordings
  <2>. HIDE DEF set
  <2>. QED BY <2>1, <2>2, Updates
<1>4. ASSUME NEW a, NEW d, NEW approved, R!AppendRun(a, d, approved) PROVE RecordsInv'
  <2>. DEFINE row == [adapter |-> a, dataset |-> d, approved |-> approved, at |-> clock]
              refers == R!Refers("adapters", a) /\ R!Refers("datasets", d)
  <2>1. R!Insert("runs", row, refers) /\ "runs" \in KeptTables \ (Twinned \cup {"features", "evidence"})
    BY <1>4 DEF R!AppendRun, KeptTables, Twinned
  <2>2. refers => Linked(kept, "runs", row)
    BY DEF Linked, There, R!Refers
  <2>. HIDE DEF row, refers
  <2>. QED BY <2>1, <2>2, Inserts
<1>. QED BY <1>1, <1>2, <1>3, <1>4

LEMMA RecordsKept == MCSpec => []RecordsInv
<1>1. MCInit => RecordsInv
  BY RecordsStart DEF MCInit
<1>2. RecordsInv /\ [MCNext]_allVars => RecordsInv'
  <2>. SUFFICES ASSUME RecordsInv, [MCNext]_allVars PROVE RecordsInv'
    OBVIOUS
  <2>1. CASE UNCHANGED <<kept, told>>
    BY <2>1 DEF RecordsInv, Whole, TwinInv, LinkInv, SourceInv, FeatureInv
  <2>2. ASSUME NEW family, R!RecordsNext(family) PROVE RecordsInv'
    <3>1. ASSUME NEW m, NEW names \in {R!SetToSeq(Keys)}, NEW done \in 0 .. Len(names),
                 R!AddFeatures(m, names, done)
          PROVE  RecordsInv'
      <4>1. done \in Nat
        OBVIOUS
      <4>. QED BY <3>1, <4>1, FeaturesStay
    <3>2. CASE R!Passes
      BY <2>1, <3>2 DEF R!Passes
    <3>. QED BY <2>2, <3>1, <3>2, SeenStays, MailStays, SendersStay, ProposalsStay, FeedbackStays,
                TrainingStays, Zenon DEF R!RecordsNext
  <2>. QED BY <2>1, <2>2 DEF MCNext, allVars, recordsVars
<1>. QED BY <1>1, <1>2, PTL DEF MCSpec

\* No body is on disk that the retention in force at its message's arrival did
\* not allow, and body_retained says so (the gate of SqliteMessageRepository::
\* insert).
THEOREM NoBodyWithoutConsent == MCSpec => []R!BodiesByConsent
<1>1. RecordsInv => R!BodiesByConsent
  <2>. SUFFICES ASSUME RecordsInv, NEW m \in DOMAIN kept["messages"]
                PROVE  /\ kept["messages"][m].body => R!RetainsBody(told["messages"][m].retention)
                       /\ kept["messages"][m].retained
                            <=> R!RetainsBody(told["messages"][m].retention)
    BY DEF R!BodiesByConsent
  <2>1. SameRow("messages", kept["messages"][m], told["messages"][m])
    BY DEF RecordsInv, TwinInv, Twinned
  <2>. QED BY <2>1 DEF SameRow
<1>. QED BY <1>1, RecordsKept, PTL

\* No row names a row of another table that is not there, and no evidence is
\* there without its proposal (the foreign keys of the schema, the
\* transaction of SqliteProposalRepository::save).
THEOREM NothingIsOrphaned ==
  MCSpec => [](/\ R!NothingDangles
               /\ \A e \in DOMAIN kept.evidence :
                    kept.evidence[e].proposal \in DOMAIN kept.proposals)
<1>1. RecordsInv => /\ R!NothingDangles
                    /\ \A e \in DOMAIN kept.evidence :
                         kept.evidence[e].proposal \in DOMAIN kept.proposals
  <2>. SUFFICES ASSUME RecordsInv
                PROVE  /\ R!NothingDangles
                       /\ \A e \in DOMAIN kept["evidence"] :
                            kept["evidence"][e].proposal \in DOMAIN kept["proposals"]
    OBVIOUS
  <2>1. \A t \in KeptTables : \A i \in DOMAIN kept[t] : Linked(kept, t, kept[t][i])
    BY DEF RecordsInv, LinkInv
  <2>2. \A t : R!Refers(t, NULL) /\ \A place : There(kept, t, place) => R!Refers(t, place)
    BY DEF R!Refers, There
  <2>3. \A m \in DOMAIN kept["messages"] : R!Refers("threads", kept["messages"][m].thread)
    BY <2>1, <2>2 DEF Linked, KeptTables
  <2>4. \A f \in DOMAIN kept["features"] : R!Refers("messages", kept["features"][f].message)
    BY <2>1, <2>2 DEF Linked, KeptTables
  <2>5. \A d \in DOMAIN kept["drafts"] :
          R!Refers("messages", kept["drafts"][d].message) /\ R!Refers("threads", kept["drafts"][d].thread)
    BY <2>1, <2>2 DEF Linked, KeptTables
  <2>6. \A a \in DOMAIN kept["adapters"] : R!Refers("datasets", kept["adapters"][a].dataset)
    BY <2>1, <2>2 DEF Linked, KeptTables
  <2>7. \A r \in DOMAIN kept["runs"] :
          R!Refers("adapters", kept["runs"][r].adapter) /\ R!Refers("datasets", kept["runs"][r].dataset)
    BY <2>1, <2>2 DEF Linked, KeptTables
  <2>8. \A e \in DOMAIN kept["evidence"] : kept["evidence"][e].proposal \in DOMAIN kept["proposals"]
    BY <2>1 DEF Linked, KeptTables
  <2>. QED BY <2>3, <2>4, <2>5, <2>6, <2>7, <2>8 DEF R!NothingDangles
<1>. QED BY <1>1, RecordsKept, PTL

\* A row says what the last caller to write it was told it wrote: whichever
\* columns an update sets, however often, and although a proposal's JSON stays
\* as it was saved.  A feature that was told is stored.
WordsAreKept ==
  /\ \A t \in Twinned : DOMAIN kept[t] = DOMAIN told[t]
  /\ \A m \in DOMAIN told.messages : kept.messages[m].status = told.messages[m].status
  /\ \A s \in DOMAIN told.senders : kept.senders[s] = told.senders[s]
  /\ \A d \in DOMAIN told.drafts : kept.drafts[d].status = told.drafts[d].status
  /\ \A p \in DOMAIN told.proposals, column \in {"status", "reviewed"} :
       R!ReadProposal(p)[column] = told.proposals[p][column]
  /\ \A c \in DOMAIN told.conflicts : kept.conflicts[c].status = told.conflicts[c].status
  /\ \A a \in DOMAIN told.adapters : kept.adapters[a].status = told.adapters[a].status
  /\ \A f \in DOMAIN told.features :
       \E g \in DOMAIN kept.features : /\ kept.features[g].message = told.features[f].message
                                       /\ kept.features[g].name = told.features[f].name

LEMMA WordsKept == MCSpec => []WordsAreKept
<1>1. RecordsInv => WordsAreKept
  <2>. SUFFICES ASSUME RecordsInv PROVE WordsAreKept
    OBVIOUS
  <2>1. \A t \in Twinned : DOMAIN kept[t] = DOMAIN told[t]
    <3>. TAKE t \in Twinned
    <3>1. IsRow(kept[t]) /\ IsRow(told[t])
      BY DEF RecordsInv, Whole, Twinned, KeptTables, ToldTables
    <3>. QED BY <3>1 DEF IsRow, RecordsInv, TwinInv
  <2>2. \A t \in Twinned : \A i \in DOMAIN told[t] : SameRow(t, kept[t][i], told[t][i])
    BY <2>1 DEF RecordsInv, TwinInv
  <2>3. \A m \in DOMAIN told["messages"] : kept["messages"][m].status = told["messages"][m].status
    BY <2>2 DEF SameRow, Twinned
  <2>4. \A s \in DOMAIN told["senders"] : kept["senders"][s] = told["senders"][s]
    BY <2>2 DEF SameRow, Twinned
  <2>5. \A d \in DOMAIN told["drafts"] : kept["drafts"][d].status = told["drafts"][d].status
    BY <2>2 DEF SameRow, Twinned
  <2>6. ASSUME NEW p \in DOMAIN told["proposals"], NEW column \in {"status", "reviewed"}
        PROVE  R!ReadProposal(p)[column] = told["proposals"][p][column]
    <3>1. SameRow("proposals", kept["proposals"][p], told["proposals"][p])
      BY <2>2 DEF Twinned
    <3>2. DOMAIN kept["proposals"][p].json = {"status", "reviewed"}
            /\ kept["proposals"][p].status = told["proposals"][p].status
            /\ kept["proposals"][p].reviewed = told["proposals"][p].reviewed
      BY <3>1 DEF SameRow
    <3>. QED BY <3>2 DEF R!ReadProposal, R!Over
  <2>7. \A c \in DOMAIN told["conflicts"] : kept["conflicts"][c].status = told["conflicts"][c].status
    BY <2>2 DEF SameRow, Twinned
  <2>8. \A a \in DOMAIN told["adapters"] : kept["adapters"][a].status = told["adapters"][a].status
    BY <2>2 DEF SameRow, Twinned
  <2>. QED BY <2>1, <2>3, <2>4, <2>5, <2>6, <2>7, <2>8 DEF WordsAreKept, RecordsInv, FeatureInv
<1>. QED BY <1>1, RecordsKept, PTL

LEMMA EvidenceKept ==
  MCSpec => []\A p \in DOMAIN kept.proposals :
                {kept.evidence[e].source :
                   e \in {x \in DOMAIN kept.evidence : kept.evidence[x].proposal = p}}
                  = R!ToSet(told.proposals[p].evidence)
<1>1. RecordsInv => \A p \in DOMAIN kept.proposals :
        {kept.evidence[e].source :
           e \in {x \in DOMAIN kept.evidence : kept.evidence[x].proposal = p}}
          = R!ToSet(told.proposals[p].evidence)
  <2>. SUFFICES ASSUME RecordsInv, NEW p \in DOMAIN kept["proposals"]
                PROVE  SourcesIn(kept["evidence"], p) = R!ToSet(told["proposals"][p].evidence)
    BY DEF SourcesIn
  <2>1. IsRow(kept["proposals"]) /\ IsRow(told["proposals"])
          /\ Len(kept["proposals"]) = Len(told["proposals"])
    BY DEF RecordsInv, Whole, TwinInv, Twinned, KeptTables, ToldTables
  <2>2. p \in DOMAIN told["proposals"]
    BY <2>1 DEF IsRow
  <2>. QED BY <2>2 DEF RecordsInv, SourceInv
<1>. QED BY <1>1, RecordsKept, PTL

-----------------------------------------------------------------------------
(* The columns of the same tables, and the order of their lists            *)

Columns ==
  [threads |-> R!ThreadRows, messages |-> R!MessageRows, features |-> R!FeatureRows,
   senders |-> R!SenderRows, drafts |-> R!DraftRows, proposals |-> R!ProposalRows,
   evidence |-> R!EvidenceRows, feedback |-> R!FeedbackRows, decisions |-> R!DecisionRows,
   shadow |-> R!ShadowRows, conflicts |-> R!ConflictRows, datasets |-> R!DatasetRows,
   adapters |-> R!AdapterRows, runs |-> R!RunRows]

Typed(k) ==
  /\ k = [t \in KeptTables |-> k[t]]
  /\ \A t \in KeptTables : IsRow(k[t]) /\ \A i \in DOMAIN k[t] : k[t][i] \in Columns[t]

TypedInv == clock \in 0 .. MaxTime /\ Typed(kept)

\* A table more that is a sequence of its rows.
LEMMA TypedWith ==
  ASSUME NEW k, Typed(k), NEW t \in KeptTables, NEW rows, IsRow(rows),
         \A i \in DOMAIN rows : rows[i] \in Columns[t]
  PROVE  Typed([k EXCEPT ![t] = rows])
<1>1. DOMAIN k = KeptTables
  BY DEF Typed
<1>. HIDE DEF KeptTables
<1>. QED BY <1>1 DEF Typed

LEMMA TypedAdded ==
  ASSUME NEW k, Typed(k), NEW t \in KeptTables, NEW row \in Columns[t]
  PROVE  Typed([k EXCEPT ![t] = Append(@, row)])
<1>. DEFINE rows == Append(k[t], row)
<1>1. /\ IsRow(rows) /\ Len(k[t]) \in Nat /\ DOMAIN k[t] = 1 .. Len(k[t])
      /\ DOMAIN rows = 1 .. Len(k[t]) + 1 /\ rows[Len(k[t]) + 1] = row
      /\ \A i \in DOMAIN k[t] : rows[i] = k[t][i]
  BY RowAppended DEF Typed
<1>2. [k EXCEPT ![t] = Append(@, row)] = [k EXCEPT ![t] = rows]
  OBVIOUS
<1>. HIDE DEF rows
<1>3. ASSUME NEW i \in DOMAIN rows PROVE rows[i] \in Columns[t]
  <2>1. i = Len(k[t]) + 1 \/ i \in DOMAIN k[t]
    BY <1>1
  <2>. QED BY <1>1, <2>1 DEF Typed
<1>. QED BY <1>1, <1>2, <1>3, TypedWith

LEMMA TypedExtended ==
  ASSUME NEW k, Typed(k), NEW t \in KeptTables, NEW more, IsRow(more),
         \A i \in DOMAIN more : more[i] \in Columns[t]
  PROVE  Typed([k EXCEPT ![t] = @ \o more])
<1>. DEFINE rows == k[t] \o more
<1>1. /\ IsRow(rows) /\ Len(k[t]) \in Nat /\ Len(more) \in Nat
      /\ DOMAIN k[t] = 1 .. Len(k[t]) /\ DOMAIN more = 1 .. Len(more)
      /\ DOMAIN rows = 1 .. Len(k[t]) + Len(more)
      /\ \A i \in 1 .. Len(k[t]) + Len(more) :
           rows[i] = IF i <= Len(k[t]) THEN k[t][i] ELSE more[i - Len(k[t])]
  BY RowJoined DEF Typed
<1>2. [k EXCEPT ![t] = @ \o more] = [k EXCEPT ![t] = rows]
  OBVIOUS
<1>. HIDE DEF rows
<1>3. ASSUME NEW i \in DOMAIN rows PROVE rows[i] \in Columns[t]
  <2>1. i \in DOMAIN k[t] \/ i - Len(k[t]) \in DOMAIN more
    BY <1>1
  <2>. QED BY <1>1, <2>1 DEF Typed
<1>. QED BY <1>1, <1>2, <1>3, TypedWith

LEMMA TypedChanged ==
  ASSUME NEW k, Typed(k), NEW t \in KeptTables, NEW place, NEW set,
         \A x \in Columns[t] : R!Over(set, x) \in Columns[t]
  PROVE  Typed([k EXCEPT ![t] = R!OverAt(@, place, set)])
<1>. DEFINE rows == R!OverAt(k[t], place, set)
<1>1. /\ DOMAIN rows = DOMAIN k[t] /\ rows = [i \in DOMAIN rows |-> rows[i]]
      /\ \A i \in DOMAIN k[t] : rows[i] = IF i = place THEN R!Over(set, k[t][i]) ELSE k[t][i]
  BY DEF R!OverAt
<1>2. [k EXCEPT ![t] = R!OverAt(@, place, set)] = [k EXCEPT ![t] = rows]
  OBVIOUS
<1>. HIDE DEF rows
<1>3. IsRow(rows)
  BY <1>1, RowMapped DEF Typed
<1>. QED BY <1>1, <1>2, <1>3, TypedWith DEF Typed

\* What each kind of write does to the columns.
LEMMA TypedWrites ==
  ASSUME TypedInv, NEW t \in KeptTables
  PROVE  /\ \A row, refers :
              R!Insert(t, row, refers) /\ (refers => row \in Columns[t]) => TypedInv'
         /\ \A row, word, refers :
              R!InsertTold(t, row, word, refers) /\ (refers => row \in Columns[t]) => TypedInv'
         /\ \A place, set, word :
              /\ R!Update(t, place, set, word)
              /\ \A x \in Columns[t] : R!Over(set, x) \in Columns[t]
              => TypedInv'
<1>1. ASSUME NEW row, NEW refers, refers => row \in Columns[t],
             kept' = (IF refers THEN [kept EXCEPT ![t] = Append(@, row)] ELSE kept), clock' = clock
      PROVE  TypedInv'
  <2>1. CASE refers
    <3>1. Typed([kept EXCEPT ![t] = Append(@, row)])
      BY <1>1, <2>1, TypedAdded DEF TypedInv
    <3>. QED BY <1>1, <2>1, <3>1 DEF TypedInv, Typed
  <2>2. CASE ~refers
    BY <1>1, <2>2 DEF TypedInv, Typed
  <2>. QED BY <2>1, <2>2
<1>2. ASSUME NEW place, NEW set, \A x \in Columns[t] : R!Over(set, x) \in Columns[t],
             kept' = [kept EXCEPT ![t] = R!OverAt(@, place, set)], clock' = clock
      PROVE  TypedInv'
  <2>1. Typed([kept EXCEPT ![t] = R!OverAt(@, place, set)])
    BY <1>2, TypedChanged DEF TypedInv
  <2>. QED BY <1>2, <2>1 DEF TypedInv, Typed
<1>3. ASSUME NEW row, NEW refers, R!Insert(t, row, refers), refers => row \in Columns[t]
      PROVE  TypedInv'
  BY <1>1, <1>3 DEF R!Insert, R!Written
<1>4. ASSUME NEW row, NEW word, NEW refers, R!InsertTold(t, row, word, refers),
             refers => row \in Columns[t]
      PROVE  TypedInv'
  BY <1>1, <1>4 DEF R!InsertTold, R!Written
<1>5. ASSUME NEW place, NEW set, NEW word, R!Update(t, place, set, word),
             \A x \in Columns[t] : R!Over(set, x) \in Columns[t]
      PROVE  TypedInv'
  BY <1>2, <1>5 DEF R!Update, R!Written
<1>. QED BY <1>3, <1>4, <1>5

LEMMA TypedStart == R!RecordsInit => TypedInv
<1>. SUFFICES ASSUME R!RecordsInit PROVE TypedInv
  OBVIOUS
<1>1. clock = 0 /\ kept = [t \in KeptTables |-> <<>>]
  BY DEF R!RecordsInit, R!StoresInit, R!Empty, KeptTables
<1>2. <<>> \in Seq({}) /\ DOMAIN <<>> = {}
  OBVIOUS
<1>3. IsRow(<<>>)
  BY <1>2, RowOf
<1>4. clock \in 0 .. MaxTime
  BY <1>1, RepositoriesAssumption
<1>. HIDE DEF KeptTables
<1>5. kept = [t \in KeptTables |-> kept[t]] /\ \A t \in KeptTables : kept[t] = <<>>
  BY <1>1
<1>. QED BY <1>2, <1>3, <1>4, <1>5 DEF TypedInv, Typed

LEMMA PlacesFacts ==
  ASSUME TypedInv, NEW t \in KeptTables
  PROVE  /\ R!Ids(t) \subseteq R!Places
         /\ R!Opt(R!Ids(t)) \subseteq R!Opt(R!Places)
         /\ NULL \notin R!Places
<1>1. Len(kept[t]) \in Nat
  BY DEF TypedInv, Typed, IsRow
<1>. QED BY <1>1, RepositoriesAssumption DEF R!Ids, R!Places, R!Opt

LEMMA MailIsTyped ==
  ASSUME TypedInv,
         \/ R!InsertThread
         \/ \E m \in R!Ids("messages"), status \in R!ClassificationStatuses :
              R!SetClassificationStatus(m, status)
         \/ \E new \in R!NewMessages : R!InsertMessage(new)
         \/ \E message \in R!Opt(R!Ids("messages")), thread \in R!Opt(R!Ids("threads")) :
              R!InsertDraft(message, thread)
         \/ \E d \in R!Ids("drafts"), status \in R!DraftStatuses : R!SetDraftStatus(d, status)
  PROVE  TypedInv'
<1>0. {"threads", "messages", "drafts"} \subseteq KeptTables /\ clock \in R!Times
  BY DEF KeptTables, TypedInv, R!Times
<1>1. CASE R!InsertThread
  <2>1. [count |-> 1, at |-> clock] \in Columns["threads"]
    BY <1>0 DEF Columns, R!ThreadRows
  <2>. QED BY <1>0, <1>1, <2>1, TypedWrites DEF R!InsertThread
<1>2. ASSUME NEW m, NEW status \in R!ClassificationStatuses, R!SetClassificationStatus(m, status)
      PROVE  TypedInv'
  <2>1. \A x \in Columns["messages"] : R!Over([status |-> status], x) \in Columns["messages"]
    BY DEF Columns, R!MessageRows, R!Over
  <2>. QED BY <1>0, <1>2, <2>1, TypedWrites DEF R!SetClassificationStatus
<1>3. ASSUME NEW new \in R!NewMessages, R!InsertMessage(new) PROVE TypedInv'
  <2>1. new.thread \in R!Opt(R!Places) /\ new.received \in R!Times
          /\ R!RetainsBody(new.retention) \in BOOLEAN
    <3>1. new.thread \in R!Opt(R!Ids("threads")) /\ new.received \in {0, clock}
      BY DEF R!NewMessages
    <3>2. new.thread \in R!Opt(R!Places)
      BY <1>0, <3>1, PlacesFacts
    <3>3. 0 \in R!Times
      BY RepositoriesAssumption DEF R!Times
    <3>4. R!RetainsBody(new.retention) \in BOOLEAN
      BY DEF R!RetainsBody
    <3>. QED BY <1>0, <3>1, <3>2, <3>3, <3>4
  <2>2. R!Gated(new) \in Columns["messages"]
    BY <2>1 DEF Columns, R!MessageRows, R!Gated, R!ClassificationStatuses
  <2>. QED BY <1>0, <1>3, <2>2, TypedWrites DEF R!InsertMessage
<1>4. ASSUME NEW message \in R!Opt(R!Ids("messages")), NEW thread \in R!Opt(R!Ids("threads")),
             R!InsertDraft(message, thread)
      PROVE  TypedInv'
  <2>1. message \in R!Opt(R!Places) /\ thread \in R!Opt(R!Places)
    BY <1>0, PlacesFacts
  <2>2. [message |-> message, thread |-> thread, review |-> TRUE, status |-> "generated",
         at |-> clock] \in Columns["drafts"]
    BY <1>0, <2>1 DEF Columns, R!DraftRows, R!DraftStatuses
  <2>. QED BY <1>0, <1>4, <2>2, TypedWrites DEF R!InsertDraft
<1>5. ASSUME NEW d, NEW status \in R!DraftStatuses, R!SetDraftStatus(d, status) PROVE TypedInv'
  <2>1. \A x \in Columns["drafts"] :
          R!Over([status |-> status, at |-> clock], x) \in Columns["drafts"]
    BY <1>0 DEF Columns, R!DraftRows, R!Over
  <2>. QED BY <1>0, <1>5, <2>1, TypedWrites DEF R!SetDraftStatus
<1>. QED BY <1>1, <1>2, <1>3, <1>4, <1>5

LEMMA SeenIsTyped ==
  ASSUME TypedInv, NEW t, NEW seen \in {0, clock}, R!RecordMessageSeen(t, seen)
  PROVE  TypedInv'
<1>. DEFINE rows == [p \in DOMAIN kept["threads"] |->
                       IF p = t THEN [count |-> kept["threads"][p].count + 1, at |-> seen]
                                ELSE kept["threads"][p]]
<1>1. "threads" \in KeptTables /\ seen \in R!Times
  BY RepositoriesAssumption DEF KeptTables, TypedInv, R!Times
<1>2. kept' = [kept EXCEPT !["threads"] = rows] /\ clock' = clock
  BY DEF R!RecordMessageSeen, R!Written
<1>3. DOMAIN rows = DOMAIN kept["threads"] /\ rows = [p \in DOMAIN rows |-> rows[p]]
        /\ IsRow(kept["threads"]) /\ \A p \in DOMAIN kept["threads"] : kept["threads"][p] \in R!ThreadRows
  BY <1>1 DEF TypedInv, Typed, Columns
<1>4. \A p \in DOMAIN rows : rows[p] \in R!ThreadRows
  BY <1>1, <1>3 DEF R!ThreadRows
<1>. HIDE DEF rows
<1>5. IsRow(rows) /\ \A p \in DOMAIN rows : rows[p] \in Columns["threads"]
  BY <1>3, <1>4, RowMapped DEF Columns
<1>6. Typed([kept EXCEPT !["threads"] = rows])
  BY <1>1, <1>5, TypedWith DEF TypedInv
<1>. QED BY <1>2, <1>6 DEF TypedInv, Typed

\* The sequence of all keys.
LEMMA KeysInSequence ==
  /\ R!SetToSeq(Keys) \in [1 .. R!Cardinality(Keys) -> Keys] /\ R!Cardinality(Keys) \in Nat
  /\ Len(R!SetToSeq(Keys)) = R!Cardinality(Keys)
<1>1. IsFiniteSet(Keys) /\ R!Cardinality(Keys) = Cardinality(Keys) /\ Cardinality(Keys) \in Nat
  BY RepositoriesAssumption, SameCount, FS_CardinalityType
<1>2. PICK f \in Bijection(1 .. Cardinality(Keys), Keys) : TRUE
  BY <1>1, FS_CardinalityType DEF ExistsBijection
<1>3. f \in [1 .. Cardinality(Keys) -> Keys] /\ R!IsInjective(f)
  BY <1>2 DEF Bijection, Injection, IsInjective, R!IsInjective
<1>4. R!SetToSeq(Keys) \in [1 .. R!Cardinality(Keys) -> Keys]
  BY <1>1, <1>3, Zenon DEF R!SetToSeq
<1>. QED BY <1>1, <1>4, SeqDef

LEMMA FeaturesAreTyped ==
  ASSUME TypedInv, NEW m \in R!Ids("messages"), NEW done \in 0 .. Len(R!SetToSeq(Keys)),
         R!AddFeatures(m, R!SetToSeq(Keys), done)
  PROVE  TypedInv'
<1>. DEFINE names == R!SetToSeq(Keys)
            rows  == FeatureRowsOf(m, names, done)
<1>0. {"features", "messages"} \subseteq KeptTables
  BY DEF KeptTables
<1>1. m \in R!Places /\ done \in Nat /\ \A k \in 1 .. done : names[k] \in Keys
  BY <1>0, PlacesFacts, KeysInSequence
<1>2. /\ kept' = IF R!Refers("messages", m) THEN [kept EXCEPT !["features"] = @ \o rows] ELSE kept
      /\ clock' = clock
  BY DEF R!AddFeatures, R!Written, FeatureRowsOf
<1>3. DOMAIN rows = 1 .. done /\ rows = [k \in 1 .. done |-> rows[k]]
        /\ \A k \in 1 .. done : rows[k] = [message |-> m, name |-> names[k]]
  BY DEF FeatureRowsOf
<1>. HIDE DEF rows, names
<1>4. IsRow(rows) /\ \A k \in DOMAIN rows : rows[k] \in Columns["features"]
  BY <1>1, <1>3, FreshRow DEF Columns, R!FeatureRows
<1>5. Typed([kept EXCEPT !["features"] = @ \o rows])
  BY <1>0, <1>4, TypedExtended DEF TypedInv
<1>. QED BY <1>2, <1>5 DEF TypedInv, Typed

LEMMA SendersAreTyped ==
  ASSUME TypedInv,
         \/ \E email \in Keys : R!InsertSender(email)
         \/ \E s \in R!Ids("senders"), trust \in R!TrustLevels : R!SetTrustLevel(s, trust)
  PROVE  TypedInv'
<1>0. "senders" \in KeptTables /\ clock \in R!Times
  BY DEF KeptTables, TypedInv, R!Times
<1>1. ASSUME NEW email \in Keys, R!InsertSender(email) PROVE TypedInv'
  <2>1. [email |-> email, trust |-> "unknown", at |-> clock] \in Columns["senders"]
    BY <1>0 DEF Columns, R!SenderRows, R!TrustLevels
  <2>. QED BY <1>0, <1>1, <2>1, TypedWrites DEF R!InsertSender
<1>2. ASSUME NEW s, NEW trust \in R!TrustLevels, R!SetTrustLevel(s, trust) PROVE TypedInv'
  <2>1. \A x \in Columns["senders"] :
          R!Over([trust |-> trust, at |-> clock], x) \in Columns["senders"]
    BY <1>0 DEF Columns, R!SenderRows, R!Over
  <2>. QED BY <1>0, <1>2, <2>1, TypedWrites DEF R!SetTrustLevel
<1>. QED BY <1>1, <1>2

\* A proposal goes into two tables.
LEMMA ProposalIsTyped ==
  ASSUME TypedInv, NEW status \in {"draft", "pending_review"}, NEW n \in Nat,
         NEW sources, DOMAIN sources = 1 .. n, \A k \in 1 .. n : sources[k] \in Keys,
         NEW fails, R!SaveProposal(status, sources, fails)
  PROVE  TypedInv'
<1>. DEFINE said  == [status |-> status, reviewed |-> NULL]
            row   == [json |-> said, status |-> status, reviewed |-> NULL, at |-> clock]
            new   == Len(kept["proposals"]) + 1
            links == R!Links(new, sources)
            mid   == [kept EXCEPT !["proposals"] = Append(@, row)]
            done  == [mid EXCEPT !["evidence"] = @ \o links]
<1>0. {"proposals", "evidence"} \subseteq KeptTables /\ clock \in R!Times
        /\ DOMAIN kept = KeptTables
  BY DEF KeptTables, TypedInv, Typed, R!Times
<1>1. clock' = clock /\ (kept' = kept \/ kept' = done)
  <2>1. CASE fails
    BY <2>1 DEF R!SaveProposal, R!Written
  <2>2. CASE ~fails
    <3>1. kept' = [kept EXCEPT !.proposals = Append(@, row), !.evidence = @ \o links]
            /\ clock' = clock
      BY <2>2 DEF R!SaveProposal, R!Written
    <3>. HIDE DEF row, links
    <3>2. kept' = done
      BY <1>0, <3>1
    <3>. QED BY <3>1, <3>2
  <2>. QED BY <2>1, <2>2
<1>2. row \in Columns["proposals"]
  BY <1>0 DEF Columns, R!ProposalRows, R!Reviews, R!ProposalStatuses, R!Opt
<1>3. new \in R!Places
  <2>1. Len(kept["proposals"]) \in Nat
    BY <1>0 DEF TypedInv, Typed, IsRow
  <2>. QED BY <2>1 DEF R!Places
<1>4. DOMAIN links = 1 .. n /\ links = [k \in 1 .. n |-> links[k]]
        /\ \A k \in 1 .. n : links[k] = [proposal |-> new, source |-> sources[k], at |-> clock]
  BY DEF R!Links
<1>. HIDE DEF links, new
<1>5. IsRow(links) /\ \A k \in DOMAIN links : links[k] \in Columns["evidence"]
  BY <1>0, <1>3, <1>4, FreshRow DEF Columns, R!EvidenceRows
<1>6. Typed(mid)
  BY <1>0, <1>2, TypedAdded DEF TypedInv
<1>. HIDE DEF mid
<1>7. Typed(done)
  BY <1>0, <1>5, <1>6, TypedExtended
<1>. QED BY <1>1, <1>7 DEF TypedInv, Typed

LEMMA ProposalsAreTyped ==
  ASSUME TypedInv,
         \/ \E status \in {"draft", "pending_review"}, n \in 0 .. R!Cardinality(Keys),
               fails \in BOOLEAN :
              R!SaveProposal(status, [k \in 1 .. n |-> R!SetToSeq(Keys)[k]], fails)
         \/ \E p \in R!Ids("proposals"), status \in R!ProposalStatuses, reviewed \in {NULL, clock} :
              R!SetProposalStatus(p, status, reviewed)
         \/ R!AppendConflict
         \/ \E c \in R!Ids("conflicts"), status \in R!ConflictStatuses, resolved \in {NULL, clock} :
              R!SetConflictStatus(c, status, resolved)
  PROVE  TypedInv'
<1>0. /\ {"proposals", "conflicts"} \subseteq KeptTables /\ clock \in R!Times
      /\ NULL \in R!Opt(R!Times) /\ {NULL, clock} \subseteq R!Opt(R!Times)
  BY DEF KeptTables, TypedInv, R!Times, R!Opt
<1>1. ASSUME NEW status \in {"draft", "pending_review"}, NEW n \in 0 .. R!Cardinality(Keys),
             NEW fails, R!SaveProposal(status, [k \in 1 .. n |-> R!SetToSeq(Keys)[k]], fails)
      PROVE  TypedInv'
  <2>. DEFINE sources == [k \in 1 .. n |-> R!SetToSeq(Keys)[k]]
  <2>1. n \in Nat /\ DOMAIN sources = 1 .. n /\ \A k \in 1 .. n : sources[k] \in Keys
    BY KeysInSequence
  <2>2. R!SaveProposal(status, sources, fails)
    BY <1>1
  <2>. HIDE DEF sources
  <2>. QED BY <2>1, <2>2, ProposalIsTyped
<1>2. ASSUME NEW p, NEW status \in R!ProposalStatuses, NEW reviewed \in {NULL, clock},
             R!SetProposalStatus(p, status, reviewed)
      PROVE  TypedInv'
  <2>1. \A x \in Columns["proposals"] :
          R!Over([status |-> status, reviewed |-> reviewed], x) \in Columns["proposals"]
    BY <1>0 DEF Columns, R!ProposalRows, R!Over
  <2>. QED BY <1>0, <1>2, <2>1, TypedWrites DEF R!SetProposalStatus
<1>3. CASE R!AppendConflict
  <2>1. [status |-> "open", resolved |-> NULL, at |-> clock] \in Columns["conflicts"]
    BY <1>0 DEF Columns, R!ConflictRows, R!ConflictStatuses
  <2>. QED BY <1>0, <1>3, <2>1, TypedWrites DEF R!AppendConflict
<1>4. ASSUME NEW c, NEW status \in R!ConflictStatuses, NEW resolved \in {NULL, clock},
             R!SetConflictStatus(c, status, resolved)
      PROVE  TypedInv'
  <2>1. \A x \in Columns["conflicts"] :
          R!Over([status |-> status, resolved |-> resolved], x) \in Columns["conflicts"]
    BY <1>0 DEF Columns, R!ConflictRows, R!Over
  <2>. QED BY <1>0, <1>4, <2>1, TypedWrites DEF R!SetConflictStatus
<1>. QED BY <1>1, <1>2, <1>3, <1>4

LEMMA FeedbackIsTyped ==
  ASSUME TypedInv,
         \/ \E kind \in R!FeedbackKinds, subject, verdict \in Keys :
              R!AppendFeedback(kind, subject, verdict)
         \/ \E proposal \in Keys : R!AppendDecision(proposal)
         \/ \E rule \in Keys : R!AppendShadow(rule)
  PROVE  TypedInv'
<1>0. {"feedback", "decisions", "shadow"} \subseteq KeptTables /\ clock \in R!Times
  BY DEF KeptTables, TypedInv, R!Times
<1>1. ASSUME NEW kind \in R!FeedbackKinds, NEW subject \in Keys, NEW verdict \in Keys
      PROVE  [kind |-> kind, subject |-> subject, verdict |-> verdict, at |-> clock]
                \in Columns["feedback"]
  BY <1>0 DEF Columns, R!FeedbackRows
<1>2. \A proposal \in Keys : [proposal |-> proposal, at |-> clock] \in Columns["decisions"]
  BY <1>0 DEF Columns, R!DecisionRows
<1>3. \A rule \in Keys : [rule |-> rule, at |-> clock] \in Columns["shadow"]
  BY <1>0 DEF Columns, R!ShadowRows
<1>. QED BY <1>0, <1>1, <1>2, <1>3, TypedWrites
         DEF R!AppendFeedback, R!AppendDecision, R!AppendShadow

LEMMA TrainingIsTyped ==
  ASSUME TypedInv,
         \/ R!AppendDataset
         \/ \E dataset \in R!Opt(R!Ids("datasets")) : R!AppendAdapter(dataset)
         \/ \E a \in R!Ids("adapters"), status \in R!AdapterStatuses : R!SetAdapterStatus(a, status)
         \/ \E a \in R!Ids("adapters"), d \in R!Ids("datasets"), approved \in BOOLEAN :
              R!AppendRun(a, d, approved)
  PROVE  TypedInv'
<1>0. {"datasets", "adapters", "runs"} \subseteq KeptTables /\ clock \in R!Times
  BY DEF KeptTables, TypedInv, R!Times
<1>1. CASE R!AppendDataset
  <2>1. [at |-> clock] \in Columns["datasets"]
    BY <1>0 DEF Columns, R!DatasetRows
  <2>. QED BY <1>0, <1>1, <2>1, TypedWrites DEF R!AppendDataset
<1>2. ASSUME NEW dataset \in R!Opt(R!Ids("datasets")), R!AppendAdapter(dataset) PROVE TypedInv'
  <2>1. dataset \in R!Opt(R!Places)
    BY <1>0, PlacesFacts
  <2>2. [dataset |-> dataset, status |-> "candidate", at |-> clock] \in Columns["adapters"]
    BY <1>0, <2>1 DEF Columns, R!AdapterRows, R!AdapterStatuses
  <2>. QED BY <1>0, <1>2, <2>2, TypedWrites DEF R!AppendAdapter
<1>3. ASSUME NEW a, NEW status \in R!AdapterStatuses, R!SetAdapterStatus(a, status) PROVE TypedInv'
  <2>1. \A x \in Columns["adapters"] : R!Over([status |-> status], x) \in Columns["adapters"]
    BY DEF Columns, R!AdapterRows, R!Over
  <2>. QED BY <1>0, <1>3, <2>1, TypedWrites DEF R!SetAdapterStatus
<1>4. ASSUME NEW a \in R!Ids("adapters"), NEW d \in R!Ids("datasets"), NEW approved \in BOOLEAN,
             R!AppendRun(a, d, approved)
      PROVE  TypedInv'
  <2>1. a \in R!Places /\ d \in R!Places
    BY <1>0, PlacesFacts
  <2>2. [adapter |-> a, dataset |-> d, approved |-> approved, at |-> clock] \in Columns["runs"]
    BY <1>0, <2>1 DEF Columns, R!RunRows
  <2>. QED BY <1>0, <1>4, <2>2, TypedWrites DEF R!AppendRun
<1>. QED BY <1>1, <1>2, <1>3, <1>4

\* Of the calls of Stores only the tick moves the clock.
LEMMA ClockMoves == R!StoresNext => clock' = clock \/ R!Tick
<1>1. ASSUME NEW s, NEW f, R!Accepted(s, f) PROVE clock' = clock
  BY <1>1 DEF R!Accepted
<1>2. ASSUME NEW duplicate, R!SaveDefinitionDraft(duplicate) PROVE clock' = clock
  BY <1>2 DEF R!SaveDefinitionDraft
<1>3. ASSUME NEW d, R!CreateVersion(d) PROVE clock' = clock
  BY <1>3 DEF R!CreateVersion
<1>. QED BY <1>1, <1>2, <1>3, Zenon
         DEF R!StoresNext, R!UpdateStatus, R!Arm, R!UpdateState, R!InsertItem, R!UpdateStage,
             R!AppendRow, R!ResolveConflict

LEMMA TypedKept == MCSpec => []TypedInv
<1>1. MCInit => TypedInv
  BY TypedStart DEF MCInit
<1>2. TypedInv /\ [MCNext]_allVars => TypedInv'
  <2>. SUFFICES ASSUME TypedInv, [MCNext]_allVars PROVE TypedInv'
    OBVIOUS
  <2>1. CASE UNCHANGED kept /\ (clock' = clock \/ R!Tick \/ R!Passes)
    BY <2>1, RepositoriesAssumption DEF TypedInv, Typed, R!Tick, R!Passes
  <2>2. CASE R!StoresNext /\ UNCHANGED kept
    BY <2>1, <2>2, ClockMoves
  <2>3. ASSUME NEW family, R!RecordsNext(family) PROVE TypedInv'
    <3>1. ASSUME NEW m \in R!Ids("messages"), NEW names \in {R!SetToSeq(Keys)},
                 NEW done \in 0 .. Len(names), R!AddFeatures(m, names, done)
          PROVE  TypedInv'
      BY <3>1, FeaturesAreTyped
    <3>2. CASE R!Passes
      BY <2>1, <3>2 DEF R!Passes
    <3>3. ASSUME NEW t, NEW seen \in {0, clock}, R!RecordMessageSeen(t, seen) PROVE TypedInv'
      BY <3>3, SeenIsTyped
    <3>. QED BY <2>3, <3>1, <3>2, <3>3, MailIsTyped, SendersAreTyped, ProposalsAreTyped,
                FeedbackIsTyped, TrainingIsTyped, Zenon DEF R!RecordsNext
  <2>. QED BY <2>1, <2>2, <2>3 DEF MCNext, allVars, recordsVars, storesVars
<1>. QED BY <1>1, <1>2, PTL DEF MCSpec

\* The columns of every table are what the schema says of them, whatever was
\* inserted and set (mailmate-storage/src/repositories).
THEOREM ColumnsKeepTheirTypes == MCSpec => []R!RecordsTypeOK
<1>1. TypedInv => R!RecordsTypeOK
  <2>. SUFFICES ASSUME TypedInv PROVE R!RecordsTypeOK
    OBVIOUS
  <2>1. ASSUME NEW t \in KeptTables PROVE kept[t] \in Seq(Columns[t])
    <3>1. IsRow(kept[t]) /\ \A i \in DOMAIN kept[t] : kept[t][i] \in Columns[t]
      BY DEF TypedInv, Typed
    <3>2. kept[t] \in [1 .. Len(kept[t]) -> Columns[t]] /\ Len(kept[t]) \in Nat
      BY <3>1 DEF IsRow
    <3>. QED BY <3>2, SeqDef
  <2>2. kept = [t \in KeptTables |-> kept[t]]
    BY DEF TypedInv, Typed
  <2>. QED BY <2>1, <2>2 DEF R!RecordsTypeOK, KeptTables, Columns
<1>. QED BY <1>1, TypedKept, PTL

\* Every table but the features' says when a row was written.
LEMMA RowTimes ==
  ASSUME NEW t \in KeptTables \ {"features"}
  PROVE  \A x \in Columns[t] : x.at \in R!Times
<1>1. \A x \in R!ThreadRows \cup R!MessageRows \cup R!SenderRows : x.at \in R!Times
  BY DEF R!ThreadRows, R!MessageRows, R!SenderRows
<1>2. \A x \in R!DraftRows \cup R!ProposalRows \cup R!EvidenceRows : x.at \in R!Times
  BY DEF R!DraftRows, R!ProposalRows, R!EvidenceRows
<1>3. \A x \in R!FeedbackRows \cup R!DecisionRows \cup R!ShadowRows : x.at \in R!Times
  BY DEF R!FeedbackRows, R!DecisionRows, R!ShadowRows
<1>4. \A x \in R!ConflictRows \cup R!DatasetRows \cup R!AdapterRows \cup R!RunRows :
        x.at \in R!Times
  BY DEF R!ConflictRows, R!DatasetRows, R!AdapterRows, R!RunRows
<1>. QED BY <1>1, <1>2, <1>3, <1>4 DEF KeptTables, Columns

\* The rows of a list: all that were asked for, each once, and in the order of
\* their seconds.
LEMMA Lists ==
  ASSUME TypedInv, NEW t \in KeptTables \ {"features"}, NEW S, S \subseteq DOMAIN kept[t]
  PROVE  /\ R!ToSet(R!Ascending(t, S)) = S /\ R!Ascending(t, S) \in Seq(S)
         /\ R!Rising(t, R!Ascending(t, S))
         /\ R!ToSet(R!Descending(t, S)) = S /\ R!Descending(t, S) \in Seq(S)
         /\ R!Falling(t, R!Descending(t, S))
<1>1. /\ Len(kept[t]) \in Nat /\ DOMAIN kept[t] = 1 .. Len(kept[t])
      /\ \A i \in DOMAIN kept[t] : kept[t][i] \in Columns[t]
  BY DEF TypedInv, Typed, IsRow
<1>2. \A x \in Columns[t] : x.at \in R!Times
  BY RowTimes
<1>3. S \subseteq Nat /\ IsFiniteSet(S) /\ \A i \in S : kept[t][i].at \in Nat
  <2>1. IsFiniteSet(1 .. Len(kept[t]))
    BY <1>1, FS_Interval
  <2>2. IsFiniteSet(S)
    BY <1>1, <2>1, FS_Subset
  <2>. QED BY <1>1, <1>2, <2>2 DEF R!Times
<1>4. \A i, j \in S : /\ R!Text(kept[t][i].at) \in Int
                      /\ R!Text(kept[t][i].at) <= R!Text(kept[t][j].at) =>
                           R!Second(kept[t][i].at) <= R!Second(kept[t][j].at)
  BY <1>3, TextFacts
<1>5. /\ R!ToSet(R!Ascending(t, S)) = S /\ R!Ascending(t, S) \in Seq(S)
      /\ R!Rising(t, R!Ascending(t, S))
  <2>. DEFINE key == [r \in S |-> R!Text(kept[t][r].at)]
              list == R!Ascending(t, S)
  <2>1. list = R!Sorted(S, key)
    BY DEF R!Ascending
  <2>2. \A i \in S : key[i] \in Int /\ key[i] = R!Text(kept[t][i].at)
    BY <1>4
  <2>. HIDE DEF key, list
  <2>3. R!ToSet(list) = S /\ list \in Seq(S)
          /\ \A m, n \in DOMAIN list : m < n => key[list[m]] <= key[list[n]]
    BY <1>3, <2>1, <2>2, SortedFacts
  <2>4. R!Rising(t, list)
    BY <1>4, <2>2, <2>3 DEF R!Rising
  <2>. QED BY <2>3, <2>4 DEF list
<1>6. /\ R!ToSet(R!Descending(t, S)) = S /\ R!Descending(t, S) \in Seq(S)
      /\ R!Falling(t, R!Descending(t, S))
  <2>. DEFINE key == [r \in S |-> -R!Text(kept[t][r].at)]
              list == R!Descending(t, S)
  <2>1. list = R!Sorted(S, key)
    BY DEF R!Descending
  <2>2. \A i \in S : key[i] \in Int /\ key[i] = -R!Text(kept[t][i].at)
    BY <1>4
  <2>. HIDE DEF key, list
  <2>3. R!ToSet(list) = S /\ list \in Seq(S)
          /\ \A m, n \in DOMAIN list : m < n => key[list[m]] <= key[list[n]]
    BY <1>3, <2>1, <2>2, SortedFacts
  <2>4. \A n \in DOMAIN list : list[n] \in S
    BY <2>3
  <2>5. ASSUME NEW m \in DOMAIN list, NEW n \in DOMAIN list, m < n
        PROVE  R!Second(kept[t][list[m]].at) >= R!Second(kept[t][list[n]].at)
    <3>1. list[m] \in S /\ list[n] \in S /\ key[list[m]] <= key[list[n]]
      BY <2>3, <2>4, <2>5
    <3>2. R!Text(kept[t][list[n]].at) <= R!Text(kept[t][list[m]].at)
      BY <1>4, <2>2, <3>1
    <3>3. R!Second(kept[t][list[n]].at) <= R!Second(kept[t][list[m]].at)
      BY <1>4, <3>1, <3>2
    <3>. QED BY <3>3
  <2>6. R!Falling(t, list)
    BY <2>5 DEF R!Falling
  <2>. QED BY <2>3, <2>6 DEF list
<1>. QED BY <1>5, <1>6

\* A list that is cut off after one.
LEMMA FirstOnly ==
  ASSUME NEW S, NEW all \in Seq(S)
  PROVE  /\ R!Limited(all, NULL) = all
         /\ all = <<>> => R!Limited(all, 1) = <<>>
         /\ all # <<>> => R!Limited(all, 1) = <<all[1]>> /\ 1 \in DOMAIN all
<1>1. Len(all) \in Nat /\ DOMAIN all = 1 .. Len(all) /\ 1 # NULL
  BY RepositoriesAssumption
<1>2. R!Limited(all, 1) = SubSeq(all, 1, R!Min({1, Len(all)}))
  BY <1>1 DEF R!Limited
<1>3. CASE all = <<>>
  <2>1. Len(all) = 0
    BY <1>3
  <2>2. R!Min({1, 0}) = 0
    BY DEF R!Min
  <2>3. SubSeq(all, 1, 0) = <<>>
    BY <1>3
  <2>. QED BY <1>2, <1>3, <2>1, <2>2, <2>3 DEF R!Limited
<1>4. CASE all # <<>>
  <2>1. Len(all) \in Nat /\ Len(all) >= 1
    BY <1>4
  <2>2. \A n \in Nat : n >= 1 => R!Min({1, n}) = 1
    BY DEF R!Min
  <2>3. SubSeq(all, 1, 1) = <<all[1]>>
    <3>. DEFINE cut == SubSeq(all, 1, 1)
                one == <<all[1]>>
    <3>1. \A i \in 1 .. 1 : all[i] \in S
      BY <2>1
    <3>2. cut \in Seq(S) /\ Len(cut) = 1 /\ cut[1] = all[1]
      BY <3>1, SubSeqProperties
    <3>3. one \in Seq(S) /\ Len(one) = 1 /\ one[1] = all[1]
      BY <3>1
    <3>. HIDE DEF cut, one
    <3>4. cut = one
      BY <3>2, <3>3, SeqEqual
    <3>. QED BY <3>4 DEF cut, one
  <2>4. R!Min({1, Len(all)}) = 1
    BY <2>1, <2>2
  <2>5. R!Limited(all, 1) = <<all[1]>>
    BY <1>2, <2>3, <2>4
  <2>6. R!Limited(all, NULL) = all
    BY DEF R!Limited
  <2>. QED BY <1>1, <1>4, <2>1, <2>5, <2>6
<1>. QED BY <1>3, <1>4

LEMMA CutOff ==
  ASSUME NEW t, NEW S, NEW all \in Seq(S), R!Falling(t, all),
         \A i \in S : R!Second(kept[t][i].at) \in Int
  PROVE  R!Cut(t, R!Limited(all, NULL), R!Limited(all, 1))
<1>. DEFINE cut == R!Limited(all, 1)
            both == cut \o all
<1>1. CASE all = <<>>
  <2>1. cut = <<>> /\ R!Limited(all, NULL) = <<>>
    BY <1>1, FirstOnly
  <2>. HIDE DEF cut
  <2>2. R!Falling(t, <<>>) /\ both = <<>>
    BY <1>1, <2>1
  <2>. QED BY <1>1, <2>1, <2>2 DEF R!Cut, cut
<1>2. CASE all # <<>>
  <2>1. cut = <<all[1]>> /\ R!Limited(all, NULL) = all /\ 1 \in DOMAIN all
    BY <1>2, FirstOnly
  <2>. HIDE DEF cut
  <2>2. /\ Len(all) \in Nat /\ DOMAIN all = 1 .. Len(all) /\ DOMAIN both = 1 .. Len(all) + 1
        /\ both[1] = all[1] /\ \A n \in 1 .. Len(all) : all[n] \in S
        /\ \A n \in 2 .. Len(all) + 1 : both[n] = all[n - 1]
    BY <2>1
  <2>. HIDE DEF both
  <2>3. ASSUME NEW m \in DOMAIN both, NEW n \in DOMAIN both, m < n
        PROVE  R!Second(kept[t][both[m]].at) >= R!Second(kept[t][both[n]].at)
    <3>1. both[n] = all[n - 1] /\ n - 1 \in DOMAIN all
      BY <2>2, <2>3
    <3>2. CASE m = 1 /\ n = 2
      <4>1. both[m] = both[n] /\ R!Second(kept[t][both[n]].at) \in Int
        BY <2>1, <2>2, <3>1, <3>2
      <4>. QED BY <4>1
    <3>3. CASE m = 1 /\ n # 2
      <4>1. both[m] = all[1] /\ 1 < n - 1
        BY <2>2, <2>3, <3>3
      <4>. QED BY <2>1, <3>1, <4>1 DEF R!Falling
    <3>4. CASE m # 1
      <4>1. both[m] = all[m - 1] /\ m - 1 \in DOMAIN all /\ m - 1 < n - 1
        BY <2>2, <2>3, <3>4
      <4>. QED BY <3>1, <4>1 DEF R!Falling
    <3>. QED BY <3>2, <3>3, <3>4
  <2>4. R!Falling(t, both)
    BY <2>3 DEF R!Falling
  <2>5. cut # <<>>
    BY <2>1
  <2>. QED BY <2>1, <2>4, <2>5 DEF R!Cut, both, cut
<1>. QED BY <1>1, <1>2

\* Times have seconds.
LEMMA SecondsOf ==
  ASSUME TypedInv, NEW t \in KeptTables \ {"features"}, NEW i \in DOMAIN kept[t]
  PROVE  R!Second(kept[t][i].at) \in Int
<1>1. kept[t][i].at \in Nat
  BY RowTimes DEF TypedInv, Typed, R!Times
<1>2. \A p \in 2 .. 10 : \A x \in Nat : x \div p \in Int
  <2>. TAKE p \in 2 .. 10
  <2>1. \/ p = 2 \/ p = 3 \/ p = 4 \/ p = 5 \/ p = 6 \/ p = 7 \/ p = 8 \/ p = 9 \/ p = 10
    OBVIOUS
  <2>. QED BY <2>1
<1>. QED BY <1>1, <1>2, RepositoriesAssumption DEF R!Second

\* The status that is read back is the column's.
LEMMA StatusColumn ==
  ASSUME TypedInv, NEW p \in DOMAIN kept["proposals"]
  PROVE  R!ReadProposal(p)["status"] = kept["proposals"][p].status
<1>1. kept["proposals"][p] \in R!ProposalRows
  BY DEF TypedInv, Typed, KeptTables, Columns
<1>2. "status" \in DOMAIN kept["proposals"][p].json
  BY <1>1 DEF R!ProposalRows, R!Reviews
<1>. QED BY <1>2 DEF R!ReadProposal, R!Over

\* What is read back is the last that a caller was told, in the row and in the
\* list it is asked for under, although a proposal's JSON stays as it was saved
\* (mailmate-storage/src/repositories).
THEOREM TheLastWordIsKept == MCSpec => []R!LastWordCounts
<1>1. TypedInv /\ WordsAreKept => R!LastWordCounts
  <2>. SUFFICES ASSUME TypedInv, WordsAreKept PROVE R!LastWordCounts
    OBVIOUS
  <2>1. /\ \A t \in Twinned : DOMAIN kept[t] = DOMAIN told[t]
        /\ {"messages", "proposals", "conflicts", "adapters"} \subseteq Twinned
        /\ {"messages", "proposals", "conflicts", "adapters"} \subseteq KeptTables \ {"features"}
    BY DEF WordsAreKept, Twinned, KeptTables
  <2>2. ASSUME NEW status
        PROVE  R!ToSet(R!ListByStatus(status))
                 = {m \in DOMAIN told["messages"] : told["messages"][m].status = status}
    <3>. DEFINE S == {m \in DOMAIN kept["messages"] : kept["messages"][m].status = status}
    <3>1. R!ListByStatus(status) = R!Ascending("messages", S) /\ S \subseteq DOMAIN kept["messages"]
      BY DEF R!ListByStatus
    <3>2. S = {m \in DOMAIN told["messages"] : told["messages"][m].status = status}
      BY <2>1 DEF WordsAreKept
    <3>. HIDE DEF S
    <3>. QED BY <2>1, <3>1, <3>2, Lists
  <2>3. ASSUME NEW status
        PROVE  R!ToSet(R!ListProposals(status))
                 = {p \in DOMAIN told["proposals"] : told["proposals"][p].status = status}
    <3>. DEFINE S == {p \in DOMAIN kept["proposals"] : kept["proposals"][p].status = status}
    <3>1. R!ListProposals(status) = R!Descending("proposals", S)
            /\ S \subseteq DOMAIN kept["proposals"]
      BY DEF R!ListProposals
    <3>2. S = {p \in DOMAIN told["proposals"] : told["proposals"][p].status = status}
      <4>1. \A p \in DOMAIN kept["proposals"] :
              kept["proposals"][p].status = told["proposals"][p].status
        BY <2>1, StatusColumn DEF WordsAreKept
      <4>. QED BY <2>1, <4>1
    <3>. HIDE DEF S
    <3>. QED BY <2>1, <3>1, <3>2, Lists
  <2>4. R!ToSet(R!ListOpen) = {c \in DOMAIN told["conflicts"] : told["conflicts"][c].status = "open"}
    <3>. DEFINE S == {c \in DOMAIN kept["conflicts"] : kept["conflicts"][c].status = "open"}
    <3>1. R!ListOpen = R!Descending("conflicts", S) /\ S \subseteq DOMAIN kept["conflicts"]
      BY DEF R!ListOpen
    <3>2. S = {c \in DOMAIN told["conflicts"] : told["conflicts"][c].status = "open"}
      BY <2>1 DEF WordsAreKept
    <3>. HIDE DEF S
    <3>. QED BY <2>1, <3>1, <3>2, Lists
  <2>5. \A a \in R!ToSet(R!ListAdapters) : kept["adapters"][a].status = told["adapters"][a].status
    <3>1. R!ToSet(R!ListAdapters) = DOMAIN kept["adapters"]
      BY <2>1, Lists DEF R!ListAdapters
    <3>. QED BY <2>1, <3>1 DEF WordsAreKept
  <2>6. \A f \in DOMAIN told["features"] :
          \E g \in R!GetFeatures(told["features"][f].message) :
            kept["features"][g].name = told["features"][f].name
    BY DEF WordsAreKept, R!GetFeatures
  <2>. QED BY <2>2, <2>3, <2>4, <2>5, <2>6 DEF R!LastWordCounts, WordsAreKept
<1>. QED BY <1>1, TypedKept, WordsKept, PTL

\* The evidence kept of a proposal is the whole of what it was saved with, and
\* nothing else (SqliteProposalRepository::save).
THEOREM EvidenceIsNeverHalf == MCSpec => []R!EvidenceIsWhole
<1>. DEFINE Kept == \A p \in DOMAIN kept.proposals :
                      {kept.evidence[e].source :
                         e \in {x \in DOMAIN kept.evidence : kept.evidence[x].proposal = p}}
                        = R!ToSet(told.proposals[p].evidence)
            Bound == \A e \in DOMAIN kept.evidence : kept.evidence[e].proposal \in DOMAIN kept.proposals
<1>1. TypedInv /\ WordsAreKept /\ Kept /\ Bound => R!EvidenceIsWhole
  <2>. SUFFICES ASSUME TypedInv, WordsAreKept, Kept, Bound PROVE R!EvidenceIsWhole
    OBVIOUS
  <2>1. "evidence" \in KeptTables \ {"features"} /\ "proposals" \in Twinned
    BY DEF KeptTables, Twinned
  <2>2. DOMAIN kept["proposals"] = DOMAIN told["proposals"]
    BY <2>1 DEF WordsAreKept
  <2>3. ASSUME NEW p
        PROVE  R!ToSet(R!EvidenceFor(p))
                 = {x \in DOMAIN kept["evidence"] : kept["evidence"][x].proposal = p}
    <3>. DEFINE S == {x \in DOMAIN kept["evidence"] : kept["evidence"][x].proposal = p}
    <3>1. R!EvidenceFor(p) = R!Ascending("evidence", S) /\ S \subseteq DOMAIN kept["evidence"]
      BY DEF R!EvidenceFor
    <3>. HIDE DEF S
    <3>2. R!ToSet(R!EvidenceFor(p)) = S
      BY <2>1, <3>1, Lists
    <3>. QED BY <3>2 DEF S
  <2>. QED BY <2>2, <2>3 DEF R!EvidenceIsWhole
<1>. QED BY <1>1, TypedKept, WordsKept, EvidenceKept, NothingIsOrphaned, PTL

\* The oldest message first, the newest of the rest, the profile of an address
\* the one written last, and a list that is cut off lacks nothing newer: each to
\* the second, whatever fractions the texts have (the ORDER BY clauses of
\* mailmate-storage/src/repositories).
THEOREM ListsAreInOrder == MCSpec => []R!InOrderToTheSecond
<1>1. TypedInv /\ WordsAreKept => R!InOrderToTheSecond
  <2>. SUFFICES ASSUME TypedInv, WordsAreKept PROVE R!InOrderToTheSecond
    OBVIOUS
  <2>1. {"messages", "shadow", "proposals", "conflicts", "datasets", "adapters", "runs", "feedback",
         "decisions", "senders"} \subseteq KeptTables \ {"features"}
    BY DEF KeptTables
  <2>2. \A status : R!Rising("messages", R!ListByStatus(status))
    BY <2>1, Lists DEF R!ListByStatus
  <2>3. \A rule : R!Rising("shadow", R!ListForRule(rule))
    BY <2>1, Lists DEF R!ListForRule
  <2>4. \A status : R!Falling("proposals", R!ListProposals(status))
    BY <2>1, Lists DEF R!ListProposals
  <2>5. R!Falling("conflicts", R!ListOpen)
    BY <2>1, Lists DEF R!ListOpen
  <2>6. R!Falling("datasets", R!ListDatasets) /\ R!Falling("adapters", R!ListAdapters)
    BY <2>1, Lists DEF R!ListDatasets, R!ListAdapters
  <2>7. \A a : R!Falling("runs", R!ListForAdapter(a))
    BY <2>1, Lists DEF R!ListForAdapter
  <2>8. ASSUME NEW t \in {"feedback", "decisions"}, NEW S, S \subseteq DOMAIN kept[t]
        PROVE  R!Cut(t, R!Limited(R!Descending(t, S), NULL), R!Limited(R!Descending(t, S), 1))
    <3>1. R!Descending(t, S) \in Seq(S) /\ R!Falling(t, R!Descending(t, S))
      BY <2>1, <2>8, Lists
    <3>2. \A i \in S : R!Second(kept[t][i].at) \in Int
      BY <2>1, <2>8, SecondsOf
    <3>. QED BY <3>1, <3>2, CutOff
  <2>9. \A kind, some, verdicts :
          R!Cut("feedback", R!QueryFeedback(kind, some, verdicts, NULL),
                            R!QueryFeedback(kind, some, verdicts, 1))
    BY <2>8 DEF R!QueryFeedback
  <2>10. \A some : R!Cut("decisions", R!QueryDecisions(some, NULL), R!QueryDecisions(some, 1))
    BY <2>8 DEF R!QueryDecisions
  <2>11. ASSUME NEW email
         PROVE  LET profiles == {s \in DOMAIN told["senders"] : told["senders"][s].email = email}
                IN  IF profiles = {} THEN R!GetByEmail(email) = <<>>
                    ELSE \A s \in profiles :
                           R!Second(told["senders"][s].at)
                             <= R!Second(kept["senders"][Head(R!GetByEmail(email))].at)
    <3>. DEFINE S == {s \in DOMAIN kept["senders"] : kept["senders"][s].email = email}
                all == R!Descending("senders", S)
    <3>1. S = {s \in DOMAIN told["senders"] : told["senders"][s].email = email}
            /\ (\A s \in S : told["senders"][s] = kept["senders"][s])
            /\ S \subseteq DOMAIN kept["senders"]
      <4>1. DOMAIN kept["senders"] = DOMAIN told["senders"]
        BY DEF WordsAreKept, Twinned
      <4>. QED BY <4>1 DEF WordsAreKept
    <3>2. R!GetByEmail(email) = R!Limited(all, 1)
      BY DEF R!GetByEmail
    <3>. HIDE DEF S
    <3>3. all \in Seq(S) /\ R!ToSet(all) = S /\ R!Falling("senders", all)
      BY <2>1, <3>1, Lists
    <3>. HIDE DEF all
    <3>4. CASE S = {}
      <4>1. all = <<>>
        BY <3>3, <3>4
      <4>. QED BY <3>1, <3>2, <3>3, <3>4, <4>1, FirstOnly
    <3>5. CASE S # {}
      <4>1. all # <<>>
        BY <3>3, <3>5 DEF R!ToSet
      <4>2. R!GetByEmail(email) = <<all[1]>> /\ 1 \in DOMAIN all
        BY <3>2, <3>3, <4>1, FirstOnly
      <4>3. Head(R!GetByEmail(email)) = all[1]
        BY <4>2
      <4>4. ASSUME NEW s \in S
            PROVE  R!Second(kept["senders"][s].at) <= R!Second(kept["senders"][all[1]].at)
        <5>1. PICK n \in DOMAIN all : all[n] = s
          BY <3>3 DEF R!ToSet
        <5>2. DOMAIN all = 1 .. Len(all)
          BY <3>3
        <5>3. CASE n = 1
          <6>1. R!Second(kept["senders"][s].at) \in Int
            BY <2>1, <3>1, SecondsOf
          <6>. QED BY <5>1, <5>3, <6>1
        <5>4. CASE n # 1
          <6>1. 1 < n
            BY <5>2, <5>4
          <6>2. R!Second(kept["senders"][all[1]].at) >= R!Second(kept["senders"][all[n]].at)
            BY <3>3, <4>2, <6>1 DEF R!Falling
          <6>. QED BY <5>1, <6>2
        <5>. QED BY <5>3, <5>4
      <4>. QED BY <3>1, <3>5, <4>3, <4>4
    <3>. QED BY <3>4, <3>5
  <2>. QED BY <2>2, <2>3, <2>4, <2>5, <2>6, <2>7, <2>9, <2>10, <2>11 DEF R!InOrderToTheSecond
<1>. QED BY <1>1, TypedKept, WordsKept, PTL

\* All that the run checks of the repositories: those with a fake answer as it
\* does, the others what their callers were told, in order and of the declared
\* types.
THEOREM RepositoriesAlwaysHold == MCSpec => []RepositoriesHold
<1>1. /\ R!TablesAgree /\ R!DueToTheSecond
      /\ R!RecordsTypeOK /\ R!BodiesByConsent /\ R!NothingDangles
      /\ R!LastWordCounts /\ R!EvidenceIsWhole /\ R!InOrderToTheSecond
      => RepositoriesHold
  BY DEF RepositoriesHold, R!StoresAgree, R!RecordsHold
<1>. QED BY <1>1, FakesMirrorTheTables, DrainIsToTheSecond, ColumnsKeepTheirTypes,
            NoBodyWithoutConsent, NothingIsOrphaned, TheLastWordIsKept, EvidenceIsNeverHalf,
            ListsAreInOrder, PTL

=============================================================================

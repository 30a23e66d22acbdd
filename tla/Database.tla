------------------------------- MODULE Database -------------------------------
(***************************************************************************)
(* What the embedded database promises to whoever opens it next: it is     *)
(* created empty, gains the migrations one by one and the data as it is    *)
(* committed, loses nothing, and is replaced only by a snapshot of itself. *)
(* There is no log, no process and no crash here, except that a restore    *)
(* that is cut off leaves a ruin, which another restore replaces.          *)
(***************************************************************************)
EXTENDS Naturals

CONSTANTS Versions, Facts, Absent, Torn, Empty

VARIABLES
  db,        \* what opening it shows
  snapshot   \* the backup file

Init == db = Absent /\ snapshot = Absent

Create == db = Absent /\ db' = Empty /\ UNCHANGED snapshot

Opens == db # Absent /\ db # Torn

\* The tables of the next migration and its row, at once.
Migrate ==
  /\ Opens
  /\ \E v \in Versions :
       /\ db.tracked = 1 .. v - 1
       /\ db' = [db EXCEPT !.tables = @ \cup {v}, !.tracked = @ \cup {v}]
  /\ UNCHANGED snapshot

Write ==
  /\ Opens
  /\ \E x \in Facts : db' = [db EXCEPT !.data = @ \cup {x}]
  /\ UNCHANGED snapshot

\* The old backup goes before the new one is written.
Backup ==
  /\ Opens
  /\ snapshot' \in {Absent, Torn, db}
  /\ UNCHANGED db

Restore ==
  /\ snapshot # Absent /\ snapshot # Torn
  /\ db' \in {snapshot, Torn}
  /\ UNCHANGED snapshot

Next == Create \/ Migrate \/ Write \/ Backup \/ Restore

Spec == Init /\ [][Next]_<<db, snapshot>>
===============================================================================

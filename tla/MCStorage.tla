------------------------------- MODULE MCStorage ------------------------------
(***************************************************************************)
(* Small instances of the two halves of storage: the database file, with a *)
(* host of an older build, one of a newer build and the command line of    *)
(* the newer one; or the repositories, those with a fake beside it and one *)
(* family of the others at a time.                                         *)
(***************************************************************************)
EXTENDS Storage

CONSTANTS older, newer, tool

MCBuild == [p \in Procs |-> IF p = older THEN 2 ELSE 3]

CONSTANTS PerSecond, Threads, Keys, MaxTime, MaxCalls, NULL

\* A fraction of a second has one digit; NULL is no time and no row; a call can
\* list any of the keys.
ASSUME RepositoriesAssumption ==
  /\ PerSecond \in 2 .. 10 /\ MaxTime \in Nat /\ NULL \notin Int
  /\ IsFiniteSet(Keys)

VARIABLES clock, sql, fake, refused, calls, kept, told, side

R == INSTANCE Records

storesVars  == <<clock, sql, fake, refused, calls>>
recordsVars == <<storesVars, kept, told>>
allVars     == <<storageVars, recordsVars, side>>

MCInit == StorageInit /\ R!RecordsInit /\ side \in {"file", "tables"} \cup R!Families

MCNext ==
  \/ side = "file" /\ StorageNext /\ UNCHANGED <<recordsVars, side>>
  \/ side = "tables" /\ R!StoresNext /\ UNCHANGED <<storageVars, kept, told, side>>
  \/ side \in R!Families /\ R!RecordsNext(side) /\ UNCHANGED <<storageVars, side>>

MCSpec == MCInit /\ [][MCNext]_allVars

-----------------------------------------------------------------------------
\* The fakes answer as the database does, the drain to the second (Stores);
\* what the tables without a fake answer is what their callers were told
\* (Records).
RepositoriesHold ==
  /\ side = "tables" => R!StoresAgree
  /\ side \in R!Families => R!RecordsHold
\* What the code does not keep, see README (Stores).
NewestFirst == R!NewestFirst
OrdersAgree == R!OrdersAgree
===============================================================================

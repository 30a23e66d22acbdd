------------------------------ MODULE Cadence ------------------------------
(***************************************************************************)
(* The pure follow-up cadence of mailmate-workflow/src/cadence.rs: given   *)
(* the content of a workflow version, the anchor its offsets count from,   *)
(* an instance's cursor and the current time, what is due.                 *)
(*                                                                         *)
(* Content is a record                                                     *)
(*   offset   : step index -> days after the anchor (steps is a list whose *)
(*              indexes are distinct; its other fields never matter here)  *)
(*   horizon  : staleness.abandon_horizon_days                             *)
(*   coalesce : staleness.coalesce                                         *)
(* Time is counted in ticks, Day of them to a day, so that a delay of some *)
(* days and a fraction exists and whole_days_since really truncates.       *)
(***************************************************************************)
EXTENDS Integers, FiniteSetsExt

CONSTANTS
  Day,         \* ticks in a day
  LastIndex    \* the largest step index: they are machine integers

ASSUME CadenceAssumption == Day \in Nat \ {0} /\ LastIndex \in Nat

\* Step indexes count from 0; no step is due before its anchor.
WellFormed(c) ==
  /\ DOMAIN c.offset \subseteq 0 .. LastIndex
  /\ \A k \in DOMAIN c.offset : c.offset[k] \in Nat
  /\ c.horizon \in Nat
  /\ c.coalesce \in BOOLEAN

Null == -1      \* next_due_at IS NULL: no tick is negative

DueAt(c, anchor, k) == anchor + c.offset[k] * Day

WholeDaysSince(t, earlier) == (t - earlier) \div Day

\* The steps the cursor has not passed.
Ahead(c, cursor) == {k \in DOMAIN c.offset : k >= cursor}

\* The due time of the lowest-index step ahead, not of the earliest one.
NextDueAfter(c, anchor, cursor) ==
  IF Ahead(c, cursor) = {} THEN Null ELSE DueAt(c, anchor, Min(Ahead(c, cursor)))

DueSteps(c, anchor, cursor, now) ==
  {k \in Ahead(c, cursor) : DueAt(c, anchor, k) <= now}

\* Mutant: a step that is not due yet counts as a fresh one.
FreshOrUndueSteps(c, anchor, cursor, now) ==
  {k \in Ahead(c, cursor) : WholeDaysSince(now, DueAt(c, anchor, k)) <= c.horizon}

FreshSteps(c, anchor, cursor, now) ==
  {k \in DueSteps(c, anchor, cursor, now) :
     WholeDaysSince(now, DueAt(c, anchor, k)) <= c.horizon}

\* The decision of one drain pass. A fired step swallows every earlier due
\* step, fresh or stale, whether or not coalescing is on.
EvaluateDue(c, anchor, cursor, now) ==
  LET due   == DueSteps(c, anchor, cursor, now)
      fresh == FreshSteps(c, anchor, cursor, now)
      step  == IF c.coalesce THEN Max(fresh) ELSE Min(fresh)
  IN  IF due = {}        THEN [kind |-> "nothing",   step |-> cursor,   skipped |-> {}]
      ELSE IF fresh = {} THEN [kind |-> "attention", step |-> Max(due), skipped |-> due]
      ELSE [kind |-> "fire", step |-> step, skipped |-> {k \in due : k < step}]

\* Mutant: the cursor moves two steps on.
AdvanceAfterReviewTwo(c, anchor, fired) ==
  LET due == NextDueAfter(c, anchor, fired + 2)
  IN  [status |-> IF due = Null THEN "completed" ELSE "active",
       cursor |-> fired + 2,
       due    |-> due]

\* Mutant: the cursor stays on the fired step.
AdvanceAfterReviewNone(c, anchor, fired) ==
  [status |-> "active", cursor |-> fired, due |-> NextDueAfter(c, anchor, fired)]

\* Where a resolved review leaves the instance: armed on the next step, or done.
AdvanceAfterReview(c, anchor, fired) ==
  LET due == NextDueAfter(c, anchor, fired + 1)
  IN  [status |-> IF due = Null THEN "completed" ELSE "active",
       cursor |-> fired + 1,
       due    |-> due]
=============================================================================

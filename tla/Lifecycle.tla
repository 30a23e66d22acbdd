----------------------------- MODULE Lifecycle -----------------------------
(***************************************************************************)
(* What a follow-up sequence promises: the "Instance state machine" of     *)
(* architecture.md, as the code has it.  Every step is one whole request   *)
(* or one whole drained row, and acts on the row as it is.  There are no   *)
(* threads, snapshots, failures or restarts here.                          *)
(***************************************************************************)
EXTENDS Workflow

CONSTANTS Items, Versions, Content

VARIABLES
  inst,      \* the row of each item's sequence
  current,   \* the definition's current version
  now        \* the clock

Init == \A i \in Items : inst[i].status = "unarmed"

Becomes(i, status, cursor, due) ==
  inst' = [inst EXCEPT ![i].status = status, ![i].cursor = cursor, ![i].due = due]

\* The user enrolls a quote: armed on the first step of the current version.
Arm(i) ==
  /\ inst[i].status = "unarmed"
  /\ \E anchor \in 0 .. now :
       LET due == NextDueAfter(Content[current], anchor, 0)
       IN  inst' = [inst EXCEPT ![i] =
                      [status |-> IF due = Null THEN "completed" ELSE "active",
                       cursor |-> 0, due |-> due, anchor |-> anchor, pin |-> current]]

\* A drain that looked at the clock at t, when the step was due.
Verdict(i, t) == EvaluateDue(Content[inst[i].pin], inst[i].anchor, inst[i].cursor, t)

Fire(i) ==
  /\ inst[i].status \in Selectable
  /\ \E t \in inst[i].due .. now :
       /\ Verdict(i, t).kind = "fire"
       /\ Becomes(i, "awaiting_review", Verdict(i, t).step, Null)

Lapse(i) ==
  /\ inst[i].status \in Selectable
  /\ \E t \in inst[i].due .. now :
       /\ Verdict(i, t).kind = "attention"
       /\ Becomes(i, "needs_attention", inst[i].cursor, Null)

Review(i) ==
  /\ inst[i].status = "awaiting_review"
  /\ LET next == AdvanceAfterReview(Content[inst[i].pin], inst[i].anchor, inst[i].cursor)
     IN  Becomes(i, next.status, next.cursor, next.due)

Postpone(i) ==
  /\ inst[i].status \in Selectable
  /\ \E status \in Selectable : Becomes(i, status, inst[i].cursor, inst'[i].due)
  /\ inst'[i].due \in Nat

\* A reply, a closed deal or a cancel, from any status but a terminal one.
Exit(i) ==
  /\ inst[i].status \notin Terminal \cup {"unarmed"}
  /\ \E event \in Events : Becomes(i, ResultingStatus(event), inst[i].cursor, Null)

Next == \E i \in Items :
  Arm(i) \/ Fire(i) \/ Lapse(i) \/ Review(i) \/ Postpone(i) \/ Exit(i)

Spec == Init /\ [][Next]_inst
=============================================================================

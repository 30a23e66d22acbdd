--------------------------- MODULE FollowUpProofs ---------------------------
(***************************************************************************)
(* Theorems about FollowUp for every set of items, every well-formed       *)
(* cadence and every bound.                                                *)
(***************************************************************************)
EXTENDS FollowUp, WellFoundedInduction, TLAPS

-----------------------------------------------------------------------------
(* What the operators of Cadence return, for every well-formed cadence. *)

\* Min is attained on every non-empty set of naturals: the lowest-index step
\* of next_due_after exists whenever a step is ahead.
LEMMA MinIsAttained ==
  ASSUME NEW S, S \subseteq Nat, S # {}
  PROVE  Min(S) \in S /\ \A x \in S : Min(S) <= x
<1>1. PICK m \in S : \A x \in S : ~(<<x, m>> \in OpToRel(<, Nat))
  BY NatLessThanWellFounded, WFMin
<1>2. \A x \in S : m <= x
  <2>1. TAKE x \in S
  <2>2. <<x, m>> \notin OpToRel(<, Nat)
    BY <1>1
  <2>3. ~(x < m)
    BY <2>2 DEF OpToRel
  <2>. QED BY <2>3
<1>. QED BY <1>2 DEF Min

\* Max is attained on every non-empty bounded set of naturals: the latest
\* fresh step exists whenever a fresh step does.
LEMMA MaxIsAttained ==
  ASSUME NEW n \in Nat, NEW S, S \subseteq 0 .. n, S # {}
  PROVE  Max(S) \in S /\ \A x \in S : Max(S) >= x
<1> DEFINE T == {y \in 0 .. n : n - y \in S}
<1>1. \A x \in S : x \in 0 .. n /\ n - x \in T
  <2>1. TAKE x \in S
  <2>2. x \in 0 .. n
    OBVIOUS
  <2>3. n - x \in 0 .. n /\ n - (n - x) = x
    BY <2>2
  <2>. QED BY <2>2, <2>3
<1>2. T \subseteq Nat /\ T # {}
  <2>1. \A y \in T : y \in Nat
    OBVIOUS
  <2>2. PICK x \in S : n - x \in T
    BY <1>1
  <2>. QED BY <2>1, <2>2
<1>3. Min(T) \in T /\ \A y \in T : Min(T) <= y
  BY <1>2, MinIsAttained
<1>4. PICK m \in S : Min(T) = n - m /\ m \in 0 .. n
  <2>1. Min(T) \in 0 .. n /\ n - Min(T) \in S
    BY <1>3
  <2>2. Min(T) = n - (n - Min(T)) /\ n - Min(T) \in 0 .. n
    BY <2>1
  <2>. QED BY <2>1, <2>2
<1>5. \A x \in S : m >= x
  <2>1. TAKE x \in S
  <2>2. x \in 0 .. n /\ n - m <= n - x
    BY <1>1, <1>3, <1>4
  <2>. QED BY <1>4, <2>2
<1>. QED BY <1>5 DEF Max

\* next_due_after is NULL exactly when the cadence is exhausted.
LEMMA NextDueAfterType ==
  ASSUME NEW c, WellFormed(c), NEW anchor \in Nat, NEW cursor \in Nat
  PROVE  /\ NextDueAfter(c, anchor, cursor) \in Nat \cup {Null}
         /\ NextDueAfter(c, anchor, cursor) = Null <=> Ahead(c, cursor) = {}
<1>1. CASE Ahead(c, cursor) = {}
  BY <1>1 DEF NextDueAfter
<1>2. CASE Ahead(c, cursor) # {}
  <2>1. Min(Ahead(c, cursor)) \in Ahead(c, cursor)
    <3>1. Ahead(c, cursor) \subseteq Nat
      BY DEF Ahead, WellFormed
    <3>. QED BY <3>1, <1>2, MinIsAttained
  <2>2. PICK k \in DOMAIN c.offset : k = Min(Ahead(c, cursor))
    BY <2>1 DEF Ahead
  <2>3. c.offset[k] * Day \in Nat
    BY CadenceAssumption DEF WellFormed
  <2>. QED BY <1>2, <2>2, <2>3 DEF NextDueAfter, DueAt, Null
<1>. QED BY <1>1, <1>2

\* A decision other than "nothing" names a step of the cadence that the
\* cursor has not passed and that is due; a fired step is a fresh one.
LEMMA EvaluateDueType ==
  ASSUME NEW c, WellFormed(c), NEW anchor \in Nat, NEW cursor \in Nat, NEW t \in Nat,
         NEW v, v = EvaluateDue(c, anchor, cursor, t)
  PROVE  /\ v.kind \in {"nothing", "attention", "fire"}
         /\ v.kind = "nothing" <=> DueSteps(c, anchor, cursor, t) = {}
         /\ v.kind # "nothing" => v.step \in DueSteps(c, anchor, cursor, t)
         /\ v.kind = "fire" => v.step \in FreshSteps(c, anchor, cursor, t)
<1> DEFINE due   == DueSteps(c, anchor, cursor, t)
           fresh == FreshSteps(c, anchor, cursor, t)
<1>1. due \subseteq 0 .. LastIndex /\ fresh \subseteq due
  BY DEF DueSteps, FreshSteps, Ahead, WellFormed
<1>2. CASE due = {}
  BY <1>2 DEF EvaluateDue
<1>3. CASE due # {} /\ fresh = {}
  <2>1. Max(due) \in due
    BY <1>1, <1>3, MaxIsAttained, CadenceAssumption
  <2>. QED BY <1>3, <2>1 DEF EvaluateDue
<1>4. CASE due # {} /\ fresh # {}
  <2>1. Max(fresh) \in fresh
    BY <1>1, <1>4, MaxIsAttained, CadenceAssumption
  <2>2. Min(fresh) \in fresh
    <3>1. fresh \subseteq Nat
      BY <1>1
    <3>. QED BY <3>1, <1>4, MinIsAttained
  <2>. QED BY <1>1, <1>4, <2>1, <2>2 DEF EvaluateDue
<1>. QED BY <1>2, <1>3, <1>4

\* A resolved review leaves the cursor past the fired step, and the sequence
\* armed exactly when a step is left.
LEMMA AdvanceAfterReviewType ==
  ASSUME NEW c, WellFormed(c), NEW anchor \in Nat, NEW fired \in Nat,
         NEW next, next = AdvanceAfterReview(c, anchor, fired)
  PROVE  /\ next.status \in {"active", "completed"}
         /\ next.cursor = fired + 1
         /\ next.due \in Nat \cup {Null}
         /\ next.status = "active" <=> next.due # Null
<1>1. NextDueAfter(c, anchor, fired + 1) \in Nat \cup {Null}
  BY NextDueAfterType
<1>. QED BY <1>1 DEF AdvanceAfterReview

-----------------------------------------------------------------------------
(* Lemmas about the operators the actions are built from *)

\* Every version has a well-formed content, whose indexes are natural.
LEMMA ContentType ==
  ASSUME NEW v \in Versions
  PROVE  WellFormed(Content[v]) /\ DOMAIN Content[v].offset \subseteq Steps \cap Nat
<1>1. WellFormed(Content[v])
  BY ConstantsAssumption
<1>2. DOMAIN Content[v].offset \subseteq Nat
  BY <1>1 DEF WellFormed
<1>. QED BY <1>1, <1>2 DEF Steps

\* The absent row is a row.
LEMMA NoInstanceType == NoInstance \in Instance
<1>1. (CHOOSE v \in Versions : TRUE) \in Versions
  BY ConstantsAssumption
<1>. QED BY <1>1 DEF NoInstance, Instance, Null

\* A thread between two calls holds locals of their types.
LEMMA IdleType == DrainIdle \in DrainRecord /\ ServeIdle \in ServeRecord
<1>1. (CHOOSE i \in Items : TRUE) \in Items
  BY ConstantsAssumption
<1>2. "cancel" \in Events
  BY DEF Events
<1>. QED BY <1>1, <1>2, NoInstanceType DEF DrainIdle, ServeIdle, DrainRecord, ServeRecord

\* An exit never leaves a sequence armed or in review.
LEMMA ResultingStatusType ==
  ASSUME NEW e \in Events
  PROVE  ResultingStatus(e) \in {"engaged", "completed", "cancelled"}
BY DEF Events, ResultingStatus

\* An exit never removes an item.
LEMMA ResultingStageType ==
  ASSUME NEW e \in Events, NEW old \in Stages \cup {"absent"}
  PROVE  /\ ResultingStage(e, old) \in Stages \cup {"absent"}
         /\ ResultingStage(e, old) = "absent" => old = "absent"
BY DEF Events, Stages, ResultingStage

RowWritten(i, status, cursor, due) ==
  /\ inst' \in [Items -> Instance]
  /\ inst'[i].status = status /\ inst'[i].cursor = cursor /\ inst'[i].due = due
  /\ inst'[i].anchor = inst[i].anchor /\ inst'[i].pin = inst[i].pin
  /\ \A j \in Items : j # i => inst'[j] = inst[j]

\* update_state writes three columns of one row.
LEMMA UpdateStateRow ==
  ASSUME inst \in [Items -> Instance],
         NEW i \in Items, NEW status \in Statuses, NEW cursor \in Nat,
         NEW due \in Nat \cup {Null}, UpdateState(i, status, cursor, due)
  PROVE  RowWritten(i, status, cursor, due)
<1> DEFINE row == [inst[i] EXCEPT !.status = status, !.cursor = cursor, !.due = due]
<1>1. inst[i] \in Instance
  OBVIOUS
<1>2. /\ row \in Instance
      /\ row.status = status /\ row.cursor = cursor /\ row.due = due
      /\ row.anchor = inst[i].anchor /\ row.pin = inst[i].pin
  BY <1>1 DEF Instance
<1>3. inst' = [inst EXCEPT ![i] = row]
  BY DEF UpdateState
<1> HIDE DEF row
<1>. QED BY <1>2, <1>3 DEF RowWritten

\* What the drain decides for a listed row.
LEMMA VerdictType ==
  ASSUME TypeOK, NEW i \in Items
  PROVE  LET v == Verdict(i)
             row == drain.snap[i]
         IN  /\ v.kind \in {"nothing", "attention", "fire"}
             /\ v.kind # "nothing" => /\ v.step \in Steps \cap Nat
                                      /\ v.step >= row.cursor
<1> DEFINE row == drain.snap[i]
           due == DueSteps(Content[row.pin], row.anchor, row.cursor, drain.at)
<1>1. /\ row.pin \in Versions /\ row.anchor \in Nat /\ row.cursor \in Nat
      /\ drain.at \in Nat
  BY DEF TypeOK, DrainRecord, Instance
<1>2. WellFormed(Content[row.pin]) /\ DOMAIN Content[row.pin].offset \subseteq Steps \cap Nat
  BY <1>1, ContentType
<1>3. /\ Verdict(i).kind \in {"nothing", "attention", "fire"}
      /\ Verdict(i).kind # "nothing" => Verdict(i).step \in due
  BY <1>1, <1>2, EvaluateDueType DEF Verdict
<1>4. \A k \in due : k \in Steps \cap Nat /\ k >= row.cursor
  BY <1>2 DEF DueSteps, Ahead
<1>. QED BY <1>3, <1>4

\* What a resolved review writes.
LEMMA NextStepType ==
  ASSUME TypeOK
  PROVE  LET next == AdvanceAfterReview(Content[serve.snap.pin], serve.snap.anchor,
                                        serve.snap.cursor)
         IN  /\ next.status \in {"active", "completed"}
             /\ next.cursor = serve.snap.cursor + 1
             /\ next.cursor \in Nat
             /\ next.due \in Nat \cup {Null}
             /\ next.status = "active" <=> next.due # Null
<1>1. /\ serve.snap.pin \in Versions /\ serve.snap.anchor \in Nat
      /\ serve.snap.cursor \in Nat
  BY DEF TypeOK, ServeRecord, Instance
<1> DEFINE next == AdvanceAfterReview(Content[serve.snap.pin], serve.snap.anchor,
                                      serve.snap.cursor)
<1>2. WellFormed(Content[serve.snap.pin])
  BY <1>1, ContentType
<1>3. /\ next.status \in {"active", "completed"}
      /\ next.cursor = serve.snap.cursor + 1
      /\ next.due \in Nat \cup {Null}
      /\ next.status = "active" <=> next.due # Null
  BY <1>1, <1>2, AdvanceAfterReviewType
<1> HIDE DEF next
<1>4. next.cursor \in Nat
  BY <1>1, <1>3
<1>5. /\ next.status \in {"active", "completed"}
      /\ next.cursor = serve.snap.cursor + 1
      /\ next.cursor \in Nat
      /\ next.due \in Nat \cup {Null}
      /\ next.status = "active" <=> next.due # Null
  BY <1>3, <1>4
<1>. QED BY <1>5 DEF next

\* What arming writes.
LEMMA ArmType ==
  ASSUME TypeOK, Arm
  PROVE  /\ serve.cur \in Items
         /\ inst' \in [Items -> Instance]
         /\ inst'[serve.cur].status = IF inst'[serve.cur].due = Null THEN "completed"
                                                                    ELSE "active"
         /\ inst'[serve.cur].cursor = 0
         /\ inst'[serve.cur].due = NextDueAfter(Content[current], serve.at, 0)
         /\ inst'[serve.cur].anchor = serve.at
         /\ inst'[serve.cur].pin = current
         /\ \A j \in Items : j # serve.cur => inst'[j] = inst[j]
<1> DEFINE due == NextDueAfter(Content[current], serve.at, 0)
           row == [status |-> IF due = Null THEN "completed" ELSE "active",
                   cursor |-> 0, due |-> due, anchor |-> serve.at, pin |-> current]
<1>1. current \in Versions /\ serve.at \in Nat /\ serve.cur \in Items
  BY DEF TypeOK, ServeRecord
<1>2. due \in Nat \cup {Null}
  BY <1>1, ContentType, NextDueAfterType
<1>3. inst' = [inst EXCEPT ![serve.cur] = row]
  BY DEF Arm
<1>4. row \in Instance
  BY <1>1, <1>2 DEF Instance, Statuses, Selectable, Terminal
<1>5. /\ row.status = IF row.due = Null THEN "completed" ELSE "active"
      /\ row.cursor = 0 /\ row.due = due /\ row.anchor = serve.at /\ row.pin = current
  OBVIOUS
<1>6. inst \in [Items -> Instance]
  BY DEF TypeOK
<1> HIDE DEF row
<1>. QED BY <1>1, <1>3, <1>4, <1>5, <1>6

-----------------------------------------------------------------------------
(* Type correctness *)

\* A fresh store holds nothing.
LEMMA TypeInit == Init => TypeOK
<1> SUFFICES ASSUME Init PROVE TypeOK
  OBVIOUS
<1>. QED BY IdleType, NoInstanceType DEF Init, TypeOK

\* The sweep writes a step of the cadence or keeps the listed cursor.
LEMMA TypeDrainStep == TypeOK /\ DrainStep => TypeOK'
<1> SUFFICES ASSUME TypeOK, DrainStep PROVE TypeOK'
  OBVIOUS
<1>1. CASE StartDrain
  <2> DEFINE listed == [i \in Items |-> IF i \in ListDue THEN inst[i] ELSE NoInstance]
  <2>1. listed \in [Items -> Instance]
    BY NoInstanceType DEF TypeOK
  <2>2. ListDue \subseteq Items
    BY DEF ListDue
  <2>3. drain' \in DrainRecord
    BY <1>1, <2>1, <2>2, IdleType DEF StartDrain, TypeOK, DrainRecord, DrainIdle
  <2>. QED BY <1>1, <2>3 DEF StartDrain, TypeOK, store
<1>2. ASSUME NEW i \in Items, SkipInstance(i) \/ Decide(i)
      PROVE  TypeOK'
  <2>1. CASE SkipInstance(i)
    <3>1. drain' \in DrainRecord
      BY <2>1 DEF SkipInstance, TypeOK, DrainRecord
    <3>. QED BY <2>1, <3>1 DEF SkipInstance, TypeOK, store
  <2>2. CASE Decide(i)
    <3>1. drain' \in DrainRecord
      BY <2>2 DEF Decide, TypeOK, DrainRecord
    <3>. QED BY <2>2, <3>1 DEF Decide, TypeOK, store
  <2>. QED BY <1>2, <2>1, <2>2
<1>3. CASE AppendFeedback
  <2>1. drain' \in DrainRecord /\ drain.cur \in Items
    BY <1>3 DEF AppendFeedback, TypeOK, DrainRecord
  <2>2. CASE Verdict(drain.cur).kind = "fire"
    <3>1. Verdict(drain.cur).step \in Steps
      BY <2>1, <2>2, VerdictType
    <3>2. /\ surfaced' = [surfaced EXCEPT ![drain.cur][Verdict(drain.cur).step] = @ + 1]
          /\ expired' = expired
      BY <1>3, <2>2 DEF AppendFeedback
    <3>3. surfaced' \in [Items -> [Steps -> Nat]]
      BY <2>1, <3>1, <3>2 DEF TypeOK
    <3>. QED BY <1>3, <2>1, <3>2, <3>3 DEF AppendFeedback, TypeOK
  <2>3. CASE Verdict(drain.cur).kind # "fire"
    <3>1. expired' \in [Items -> Nat] /\ surfaced' = surfaced
      BY <1>3, <2>1, <2>3 DEF AppendFeedback, TypeOK
    <3>. QED BY <1>3, <2>1, <3>1 DEF AppendFeedback, TypeOK
  <2>. QED BY <2>2, <2>3
<1>4. CASE AdvanceInstance
  <2>1. drain.cur \in Items /\ drain.snap[drain.cur].cursor \in Nat
    BY DEF TypeOK, DrainRecord, Instance
  <2>2. CASE Verdict(drain.cur).kind = "fire"
    <3>1. Verdict(drain.cur).step \in Steps \cap Nat
      BY <2>1, <2>2, VerdictType
    <3>2. UpdateState(drain.cur, "awaiting_review", Verdict(drain.cur).step, Null)
      BY <1>4, <2>2 DEF AdvanceInstance
    <3>3. inst' \in [Items -> Instance]
      <4>1. RowWritten(drain.cur, "awaiting_review", Verdict(drain.cur).step, Null)
        BY <2>1, <3>1, <3>2, UpdateStateRow DEF TypeOK, Statuses
      <4>. QED BY <4>1 DEF RowWritten
    <3>4. drain' = [drain EXCEPT !.pc = "sweep", !.todo = @ \ {drain.cur},
                                 !.fired = @ \cup {<<drain.cur, Verdict(drain.cur).step>>}]
      BY <1>4, <2>2 DEF AdvanceInstance
    <3>5. drain' \in DrainRecord
      <4>1. drain \in DrainRecord /\ drain.cur \in Items
        BY <2>1 DEF TypeOK
      <4>2. <<drain.cur, Verdict(drain.cur).step>> \in Items \X Steps
        BY <3>1, <4>1
      <4>. QED BY <3>4, <4>1, <4>2 DEF DrainRecord
    <3>. QED BY <1>4, <3>3, <3>5 DEF AdvanceInstance, TypeOK
  <2>3. CASE Verdict(drain.cur).kind # "fire"
    <3>1. UpdateState(drain.cur, "needs_attention", drain.snap[drain.cur].cursor, Null)
      BY <1>4, <2>3 DEF AdvanceInstance
    <3>2. inst' \in [Items -> Instance]
      <4>1. RowWritten(drain.cur, "needs_attention", drain.snap[drain.cur].cursor, Null)
        BY <2>1, <3>1, UpdateStateRow DEF TypeOK, Statuses
      <4>. QED BY <4>1 DEF RowWritten
    <3>3. drain' = [drain EXCEPT !.pc = "sweep", !.todo = @ \ {drain.cur},
                                 !.stale = @ \cup {drain.cur}]
      BY <1>4, <2>3 DEF AdvanceInstance
    <3>4. drain' \in DrainRecord
      BY <2>1, <3>3 DEF TypeOK, DrainRecord
    <3>. QED BY <1>4, <3>2, <3>4 DEF AdvanceInstance, TypeOK
  <2>. QED BY <2>2, <2>3
<1>5. CASE FinishSweep
  <2>1. drain' \in DrainRecord
    BY <1>5 DEF FinishSweep, TypeOK, DrainRecord
  <2>. QED BY <1>5, <2>1 DEF FinishSweep, TypeOK, store
<1>6. ASSUME NEW i \in Items, NEW k \in Steps, EmitDraft(i, k)
      PROVE  TypeOK'
  <2>1. drain' \in DrainRecord
    BY <1>6 DEF EmitDraft, TypeOK, DrainRecord
  <2>2. shown' \in [Items -> [Steps -> Nat]]
    BY <1>6 DEF EmitDraft, TypeOK
  <2>. QED BY <1>6, <2>1, <2>2 DEF EmitDraft, TypeOK, store
<1>7. ASSUME NEW i \in Items, EmitStale(i)
      PROVE  TypeOK'
  <2>1. drain' \in DrainRecord
    BY <1>7 DEF EmitStale, TypeOK, DrainRecord
  <2>. QED BY <1>7, <2>1 DEF EmitStale, TypeOK, store
<1>8. CASE EndDrain
  BY <1>8, IdleType DEF EndDrain, LeaveDrain, TypeOK, store
<1>. QED BY <1>1, <1>2, <1>3, <1>4, <1>5, <1>6, <1>7, <1>8 DEF DrainStep

\* The rest of a request writes what it read or what the cadence gives.
LEMMA TypeServeStep == TypeOK /\ ServeStep => TypeOK'
<1> SUFFICES ASSUME TypeOK, ServeStep PROVE TypeOK'
  OBVIOUS
<1>0. /\ serve.cur \in Items /\ serve.event \in Events /\ serve.at \in Nat
      /\ serve.snap.cursor \in Nat
  BY DEF TypeOK, ServeRecord, Instance
<1>1. CASE Arm
  BY <1>1, ArmType, IdleType DEF Arm, TypeOK
<1>2. ASSUME NEW i \in Items, ReadForExit(i)
      PROVE  TypeOK'
  <2>1. serve' \in ServeRecord
    BY <1>2 DEF ReadForExit, TypeOK, ServeRecord
  <2>. QED BY <1>2, <2>1 DEF ReadForExit, TypeOK, store
<1>3. CASE ExitInstance
  <2>1. ResultingStatus(serve.event) \in Statuses
    BY <1>0, ResultingStatusType DEF Statuses, Terminal
  <2>2. inst' \in [Items -> Instance]
    <3>1. RowWritten(serve.cur, ResultingStatus(serve.event), serve.snap.cursor, Null)
      BY <1>0, <1>3, <2>1, UpdateStateRow DEF ExitInstance, TypeOK
    <3>. QED BY <3>1 DEF RowWritten
  <2>3. serve' \in ServeRecord
    BY <1>3 DEF ExitInstance, TypeOK, ServeRecord
  <2>. QED BY <1>3, <2>2, <2>3 DEF ExitInstance, TypeOK
<1>4. CASE SetStage
  <2>1. stage[serve.cur] \in Stages \cup {"absent"}
    BY <1>0 DEF TypeOK
  <2>2. stage' \in [Items -> Stages \cup {"absent"}]
    BY <1>0, <1>4, <2>1, ResultingStageType DEF SetStage, TypeOK
  <2>3. serve' \in ServeRecord
    BY <1>4, IdleType DEF SetStage, TypeOK, ServeRecord
  <2>. QED BY <1>4, <2>2, <2>3 DEF SetStage, TypeOK
<1>5. CASE Postpone
  <2>1. (IF serve.snooze THEN "snoozed" ELSE "active") \in Statuses
    BY DEF Statuses, Selectable
  <2>2. inst' \in [Items -> Instance]
    <3>1. RowWritten(serve.cur, IF serve.snooze THEN "snoozed" ELSE "active",
                     serve.snap.cursor, serve.at)
      BY <1>0, <1>5, <2>1, UpdateStateRow DEF Postpone, TypeOK
    <3>. QED BY <3>1 DEF RowWritten
  <2>. QED BY <1>5, <2>2, IdleType DEF Postpone, TypeOK
<1>6. CASE ResolveReview
  <2> DEFINE next == AdvanceAfterReview(Content[serve.snap.pin], serve.snap.anchor,
                                        serve.snap.cursor)
  <2>1. next.status \in Statuses /\ next.cursor \in Nat /\ next.due \in Nat \cup {Null}
    BY NextStepType DEF Statuses, Selectable, Terminal
  <2>2. UpdateState(serve.cur, next.status, next.cursor, next.due)
    BY <1>6 DEF ResolveReview
  <2> HIDE DEF next
  <2>3. inst' \in [Items -> Instance]
    <3>1. RowWritten(serve.cur, next.status, next.cursor, next.due)
      BY <1>0, <2>1, <2>2, UpdateStateRow DEF TypeOK
    <3>. QED BY <3>1 DEF RowWritten
  <2>. QED BY <1>6, <2>3, IdleType DEF ResolveReview, TypeOK
<1>. QED BY <1>1, <1>2, <1>3, <1>4, <1>5, <1>6 DEF ServeStep

\* An accepted request only fills its locals.
LEMMA TypeRequest == TypeOK /\ Request => TypeOK'
<1> SUFFICES ASSUME TypeOK, Request PROVE TypeOK'
  OBVIOUS
<1>1. ASSUME NEW i \in Items, Enroll(i)
      PROVE  TypeOK'
  <2>1. serve' \in ServeRecord
    BY <1>1, IdleType DEF Enroll, TypeOK, ServeRecord
  <2>2. stage' \in [Items -> Stages \cup {"absent"}]
    BY <1>1 DEF Enroll, TypeOK, Stages
  <2>. QED BY <1>1, <2>1, <2>2 DEF Enroll, TypeOK
<1>2. ASSUME NEW i \in Items, RequestReview(i)
      PROVE  TypeOK'
  <2>1. serve' \in ServeRecord
    BY <1>2, IdleType DEF RequestReview, TypeOK, ServeRecord
  <2>. QED BY <1>2, <2>1 DEF RequestReview, TypeOK, store
<1>3. ASSUME NEW i \in Items, NEW e \in Events, RequestExit(e, i)
      PROVE  TypeOK'
  <2>1. serve' \in ServeRecord
    BY <1>3, IdleType DEF RequestExit, TypeOK, ServeRecord
  <2>. QED BY <1>3, <2>1 DEF RequestExit, TypeOK, store
<1>4. ASSUME NEW i \in Items, NEW t \in Times, NEW z \in BOOLEAN, RequestPostpone(i, t, z)
      PROVE  TypeOK'
  <2>1. t \in Nat
    BY ConstantsAssumption DEF Times
  <2>2. serve' \in ServeRecord
    BY <1>4, <2>1, IdleType DEF RequestPostpone, TypeOK, ServeRecord
  <2>3. spent' \in [crash : Nat, fault : Nat, postpone : Nat, cut : Nat]
    BY <1>4 DEF RequestPostpone, TypeOK
  <2>. QED BY <1>4, <2>2, <2>3 DEF RequestPostpone, TypeOK, store
<1>5. ASSUME NEW v \in Versions, CreateVersion(v)
      PROVE  TypeOK'
  BY <1>5 DEF CreateVersion, TypeOK
<1>. QED BY <1>1, <1>2, <1>3, <1>4, <1>5 DEF Request

\* What a failed drain or a crash makes of the counters.
LEMMA SpentType ==
  ASSUME NEW s \in [crash : Nat, fault : Nat, postpone : Nat, cut : Nat], NEW h \in Nat
  PROVE  /\ [s EXCEPT !.fault = @ + 1, !.cut = @ + h]
               \in [crash : Nat, fault : Nat, postpone : Nat, cut : Nat]
         /\ [s EXCEPT !.crash = @ + 1, !.cut = @ + h]
               \in [crash : Nat, fault : Nat, postpone : Nat, cut : Nat]
<1>1. PICK x \in Nat, y \in Nat, z \in Nat : x = s.crash + 1 /\ y = s.fault + 1 /\ z = s.cut + h
  OBVIOUS
<1>2. [s EXCEPT !.fault = y, !.cut = z] \in [crash : Nat, fault : Nat, postpone : Nat, cut : Nat]
  OBVIOUS
<1>3. [s EXCEPT !.crash = x, !.cut = z] \in [crash : Nat, fault : Nat, postpone : Nat, cut : Nat]
  OBVIOUS
<1>. QED BY <1>1, <1>2, <1>3

LEMMA HalfFiredType == HalfFired \in Nat
BY DEF HalfFired

\* A failure or a crash only drops locals.
LEMMA TypeFailure == TypeOK /\ Failure => TypeOK'
<1> SUFFICES ASSUME TypeOK, Failure PROVE TypeOK'
  OBVIOUS
<1>0. Fault => spent' \in [crash : Nat, fault : Nat, postpone : Nat, cut : Nat]
  BY DEF Fault, TypeOK
<1>1. ASSUME NEW i \in Items, DraftFails(i)
      PROVE  TypeOK'
  <2>1. drain' \in DrainRecord
    BY <1>1 DEF DraftFails, TypeOK, DrainRecord
  <2>. QED BY <1>0, <1>1, <2>1 DEF DraftFails, TypeOK, store
<1>2. CASE AbortDrain
  <2>1. spent' \in [crash : Nat, fault : Nat, postpone : Nat, cut : Nat]
    BY <1>2, SpentType, HalfFiredType DEF AbortDrain, TypeOK
  <2>. QED BY <1>2, <2>1, IdleType DEF AbortDrain, LeaveDrain, TypeOK, store
<1>3. CASE FailRequest
  BY <1>0, <1>3, IdleType DEF FailRequest, TypeOK, store
<1>4. CASE Crash
  <2>1. spent' \in [crash : Nat, fault : Nat, postpone : Nat, cut : Nat]
    BY <1>4, SpentType, HalfFiredType DEF Crash, TypeOK
  <2>. QED BY <1>4, <2>1, IdleType DEF Crash, TypeOK, store
<1>. QED BY <1>1, <1>2, <1>3, <1>4 DEF Failure

\* Every step keeps the types.
LEMMA TypeStep == TypeOK /\ [Next]_vars => TypeOK'
<1> SUFFICES ASSUME TypeOK, [Next]_vars PROVE TypeOK'
  OBVIOUS
<1>1. CASE Launch
  BY <1>1 DEF Launch, TypeOK, store
<1>2. CASE Tick
  BY <1>2 DEF Tick, TypeOK, store
<1>3. CASE UNCHANGED vars
  BY <1>3 DEF vars, store, TypeOK
<1>. QED BY <1>1, <1>2, <1>3, TypeDrainStep, TypeServeStep, TypeRequest, TypeFailure DEF Next

\* Every write of either thread, over every interleaving, crash and failure,
\* stores rows and locals of their types.
THEOREM TypeCorrect == Spec => []TypeOK
<1>. QED BY TypeInit, TypeStep, PTL DEF Spec

-----------------------------------------------------------------------------
(* Rows and records, with or without the worker thread *)

\* The rows are written by five actions only.
LEMMA RowWriters ==
  [Next]_vars =>
    \/ inst' = inst
    \/ AdvanceInstance \/ Arm \/ ExitInstance \/ Postpone \/ ResolveReview
<1> SUFFICES ASSUME [Next]_vars
             PROVE  \/ inst' = inst
                    \/ AdvanceInstance \/ Arm \/ ExitInstance \/ Postpone \/ ResolveReview
  OBVIOUS
<1>1. CASE DrainStep
  BY <1>1 DEF DrainStep, StartDrain, SkipInstance, Decide, AppendFeedback, FinishSweep,
              EmitDraft, EmitStale, EndDrain, store
<1>2. CASE ServeStep
  BY <1>2, ZenonT(60) DEF ServeStep, ReadForExit, SetStage, store
<1>3. CASE Request
  BY <1>3 DEF Request, Enroll, RequestReview, RequestExit, RequestPostpone, CreateVersion,
              store
<1>4. CASE Failure
  BY <1>4 DEF Failure, DraftFails, AbortDrain, FailRequest, Crash, store
<1>5. CASE Launch \/ Tick \/ UNCHANGED vars
  BY <1>5 DEF Launch, Tick, vars, store
<1>. QED BY <1>1, <1>2, <1>3, <1>4, <1>5 DEF Next

\* What the drain writes over its row.
LEMMA AdvanceType ==
  ASSUME TypeOK, AdvanceInstance
  PROVE  /\ drain.cur \in Items
         /\ inst' \in [Items -> Instance]
         /\ inst'[drain.cur].due = Null
         /\ inst'[drain.cur].anchor = inst[drain.cur].anchor
         /\ inst'[drain.cur].pin = inst[drain.cur].pin
         /\ \A j \in Items : j # drain.cur => inst'[j] = inst[j]
         /\ IF Verdict(drain.cur).kind = "fire"
            THEN /\ inst'[drain.cur].status = "awaiting_review"
                 /\ inst'[drain.cur].cursor = Verdict(drain.cur).step
                 /\ inst'[drain.cur].cursor \in Steps
            ELSE /\ inst'[drain.cur].status = "needs_attention"
                 /\ inst'[drain.cur].cursor = drain.snap[drain.cur].cursor
<1>0. inst \in [Items -> Instance] /\ Null \in Nat \cup {Null}
  BY DEF TypeOK
<1>1. drain.cur \in Items /\ drain.snap[drain.cur].cursor \in Nat
  BY DEF TypeOK, DrainRecord, Instance
<1>2. CASE Verdict(drain.cur).kind = "fire"
  <2>1. Verdict(drain.cur).step \in Steps \cap Nat
    BY <1>1, <1>2, VerdictType
  <2> DEFINE k == Verdict(drain.cur).step
  <2>2. UpdateState(drain.cur, "awaiting_review", k, Null)
    BY <1>2 DEF AdvanceInstance
  <2>3. k \in Nat /\ "awaiting_review" \in Statuses
    BY <2>1 DEF Statuses
  <2> HIDE DEF k
  <2>4. RowWritten(drain.cur, "awaiting_review", k, Null)
    BY <1>0, <1>1, <2>2, <2>3, UpdateStateRow
  <2>. QED BY <1>1, <1>2, <2>1, <2>4 DEF k, RowWritten
<1>3. CASE Verdict(drain.cur).kind # "fire"
  <2>1. UpdateState(drain.cur, "needs_attention", drain.snap[drain.cur].cursor, Null)
    BY <1>3 DEF AdvanceInstance
  <2>2. "needs_attention" \in Statuses
    BY DEF Statuses
  <2>3. RowWritten(drain.cur, "needs_attention", drain.snap[drain.cur].cursor, Null)
    BY <1>0, <1>1, <2>1, <2>2, UpdateStateRow
  <2>. QED BY <1>1, <1>3, <2>3 DEF RowWritten
<1>. QED BY <1>2, <1>3

\* What an exit, a postponement and a resolved review write over theirs.
LEMMA RequestWriteType ==
  ASSUME TypeOK, ExitInstance \/ Postpone \/ ResolveReview
  PROVE  /\ serve.cur \in Items
         /\ inst' \in [Items -> Instance]
         /\ inst'[serve.cur].anchor = inst[serve.cur].anchor
         /\ inst'[serve.cur].pin = inst[serve.cur].pin
         /\ \A j \in Items : j # serve.cur => inst'[j] = inst[j]
         /\ ExitInstance =>
              /\ inst'[serve.cur].status = ResultingStatus(serve.event)
              /\ inst'[serve.cur].status \in {"engaged", "completed", "cancelled"}
              /\ inst'[serve.cur].cursor = serve.snap.cursor
              /\ inst'[serve.cur].due = Null
         /\ Postpone =>
              /\ inst'[serve.cur].status \in Selectable
              /\ inst'[serve.cur].cursor = serve.snap.cursor
              /\ inst'[serve.cur].due = serve.at
         /\ ResolveReview =>
              LET next == AdvanceAfterReview(Content[serve.snap.pin], serve.snap.anchor,
                                             serve.snap.cursor)
              IN  /\ inst'[serve.cur].status = next.status
                  /\ inst'[serve.cur].cursor = next.cursor
                  /\ inst'[serve.cur].due = next.due
<1>1. /\ serve.cur \in Items /\ serve.event \in Events /\ serve.at \in Nat
      /\ serve.snap.cursor \in Nat /\ inst \in [Items -> Instance]
  BY DEF TypeOK, ServeRecord, Instance
<1>2. /\ ExitInstance => serve.pc = "exit_write"
      /\ Postpone => serve.pc = "postpone"
      /\ ResolveReview => serve.pc = "review"
  BY DEF ExitInstance, Postpone, ResolveReview
<1>3. CASE ExitInstance
  <2>1. UpdateState(serve.cur, ResultingStatus(serve.event), serve.snap.cursor, Null)
    BY <1>3 DEF ExitInstance
  <2>2. ResultingStatus(serve.event) \in {"engaged", "completed", "cancelled"}
    BY <1>1, ResultingStatusType
  <2>3. ResultingStatus(serve.event) \in Statuses /\ Null \in Nat \cup {Null}
    BY <2>2 DEF Statuses, Terminal
  <2> DEFINE s == ResultingStatus(serve.event)
  <2>4. UpdateState(serve.cur, s, serve.snap.cursor, Null) /\ s \in Statuses
    BY <2>1, <2>3
  <2> HIDE DEF s
  <2>5. RowWritten(serve.cur, s, serve.snap.cursor, Null)
    BY <1>1, <2>3, <2>4, UpdateStateRow
  <2>. QED BY <1>1, <1>2, <1>3, <2>2, <2>5 DEF s, RowWritten
<1>4. CASE Postpone
  <2> DEFINE status == IF serve.snooze THEN "snoozed" ELSE "active"
  <2>1. status \in Selectable /\ status \in Statuses
    BY DEF Selectable, Statuses
  <2>2. UpdateState(serve.cur, status, serve.snap.cursor, serve.at)
    BY <1>4 DEF Postpone
  <2> HIDE DEF status
  <2>3. RowWritten(serve.cur, status, serve.snap.cursor, serve.at)
    BY <1>1, <2>1, <2>2, UpdateStateRow
  <2>. QED BY <1>1, <1>2, <1>4, <2>1, <2>3 DEF RowWritten
<1>5. CASE ResolveReview
  <2> DEFINE next == AdvanceAfterReview(Content[serve.snap.pin], serve.snap.anchor,
                                        serve.snap.cursor)
  <2>1. next.status \in Statuses /\ next.cursor \in Nat /\ next.due \in Nat \cup {Null}
    BY NextStepType DEF Statuses, Selectable, Terminal
  <2>2. UpdateState(serve.cur, next.status, next.cursor, next.due)
    BY <1>5 DEF ResolveReview
  <2> HIDE DEF next
  <2>3. RowWritten(serve.cur, next.status, next.cursor, next.due)
    BY <1>1, <2>1, <2>2, UpdateStateRow
  <2>. QED BY <1>1, <1>2, <1>5, <2>3 DEF next, RowWritten
<1>. QED BY <1>3, <1>4, <1>5

\* Each of the five writes leaves a due time exactly on an armed row.
LEMMA DueStep == TypeOK /\ DueIffSelectable /\ [Next]_vars => DueIffSelectable'
<1> SUFFICES ASSUME TypeOK, DueIffSelectable, [Next]_vars PROVE DueIffSelectable'
  OBVIOUS
<1>1. CASE inst' = inst
  BY <1>1 DEF DueIffSelectable
<1>2. CASE AdvanceInstance
  BY <1>2, AdvanceType DEF DueIffSelectable, Selectable
<1>3. CASE Arm
  BY <1>3, ArmType DEF DueIffSelectable, Selectable
<1>4. CASE ExitInstance
  <2>1. /\ serve.cur \in Items
        /\ \A j \in Items : j # serve.cur => inst'[j] = inst[j]
        /\ inst'[serve.cur].status \in {"engaged", "completed", "cancelled"}
        /\ inst'[serve.cur].due = Null
    BY <1>4, RequestWriteType
  <2>. QED BY <2>1 DEF DueIffSelectable, Selectable
<1>5. CASE Postpone
  <2>1. /\ serve.cur \in Items
        /\ \A j \in Items : j # serve.cur => inst'[j] = inst[j]
        /\ inst'[serve.cur].status \in Selectable
        /\ inst'[serve.cur].due = serve.at
    BY <1>5, RequestWriteType
  <2>2. serve.at # Null
    BY DEF TypeOK, ServeRecord, Null
  <2>. QED BY <2>1, <2>2 DEF DueIffSelectable
<1>6. CASE ResolveReview
  <2>1. /\ serve.cur \in Items
        /\ \A j \in Items : j # serve.cur => inst'[j] = inst[j]
        /\ inst'[serve.cur].status \in {"active", "completed"}
        /\ inst'[serve.cur].status = "active" <=> inst'[serve.cur].due # Null
    BY <1>6, RequestWriteType, NextStepType
  <2>. QED BY <2>1 DEF DueIffSelectable, Selectable
<1>. QED BY <1>1, <1>2, <1>3, <1>4, <1>5, <1>6, RowWriters

\* next_due_at is set exactly while a sequence is armed, after every single
\* write of either thread: the drain's SQL can never select a sequence that
\* awaits review, was answered, closed or cancelled.
THEOREM DueExactlyWhenArmed == Spec => []DueIffSelectable
<1>1. Init => DueIffSelectable
  BY DEF Init, DueIffSelectable, NoInstance, Selectable
<1>. QED BY <1>1, TypeCorrect, DueStep, PTL DEF Spec

-----------------------------------------------------------------------------
(* Each draft the user is told of, or asked to review, has its feedback row *)

\* The row being drained is one the sweep has not dealt with.
CurIsListed == drain.pc \in {"append", "update"} => drain.cur \in drain.todo

\* A draft in the report has a feedback row that no notification used up, and
\* the sweep is done with its instance.
FiredIsRecorded ==
  \A i \in Items, k \in Steps :
    <<i, k>> \in drain.fired => i \notin drain.todo /\ shown[i][k] < surfaced[i][k]

\* Between the two writes of fire_step the feedback row is already there.
AppendedIsRecorded ==
  drain.pc = "update" /\ Verdict(drain.cur).kind = "fire" =>
    shown[drain.cur][Verdict(drain.cur).step] < surfaced[drain.cur][Verdict(drain.cur).step]

RecordInv ==
  /\ CurIsListed /\ FiredIsRecorded /\ AppendedIsRecorded
  /\ AwaitingIsRecorded
  /\ ShownIsRecorded

\* The feedback row is appended for the fired step and for no other.
LEMMA AppendType ==
  ASSUME TypeOK, AppendFeedback
  PROVE  /\ drain.cur \in Items
         /\ \A i \in Items, k \in Steps : surfaced'[i][k] \in Nat /\ surfaced'[i][k] >= surfaced[i][k]
         /\ Verdict(drain.cur).kind = "fire" =>
              /\ Verdict(drain.cur).step \in Steps
              /\ surfaced'[drain.cur][Verdict(drain.cur).step]
                   = surfaced[drain.cur][Verdict(drain.cur).step] + 1
<1>1. drain.cur \in Items /\ surfaced \in [Items -> [Steps -> Nat]]
  BY DEF TypeOK, DrainRecord
<1>2. CASE Verdict(drain.cur).kind = "fire"
  <2> DEFINE k == Verdict(drain.cur).step
  <2>1. k \in Steps
    BY <1>1, <1>2, VerdictType
  <2>2. surfaced' = [surfaced EXCEPT ![drain.cur][k] = @ + 1]
    BY <1>2 DEF AppendFeedback
  <2> HIDE DEF k
  <2>3. /\ \A i \in Items, l \in Steps :
             surfaced'[i][l] \in Nat /\ surfaced'[i][l] >= surfaced[i][l]
        /\ surfaced'[drain.cur][k] = surfaced[drain.cur][k] + 1
    BY <1>1, <2>1, <2>2
  <2>. QED BY <1>1, <2>1, <2>3 DEF k
<1>3. CASE Verdict(drain.cur).kind # "fire"
  <2>1. surfaced' = surfaced
    BY <1>3 DEF AppendFeedback
  <2>. QED BY <1>1, <1>3, <2>1
<1>. QED BY <1>2, <1>3

\* While a sweep lasts, its decisions do not change.
LEMMA VerdictStable ==
  ASSUME drain'.snap = drain.snap, drain'.at = drain.at, drain'.cur = drain.cur
  PROVE  Verdict(drain.cur)' = Verdict(drain.cur)
BY DEF Verdict

\* The drain's own steps keep the record.
LEMMA RecordDrainStep == TypeOK /\ RecordInv /\ DrainStep => RecordInv'
<1> SUFFICES ASSUME TypeOK, RecordInv, DrainStep PROVE RecordInv'
  OBVIOUS
<1> USE DEF RecordInv
<1>0. drain \in DrainRecord
  BY DEF TypeOK
<1>1. CASE StartDrain
  BY <1>1 DEF StartDrain, store, DrainIdle, CurIsListed, FiredIsRecorded, AppendedIsRecorded,
              AwaitingIsRecorded, ShownIsRecorded
<1>2. ASSUME NEW i \in Items, SkipInstance(i)
      PROVE  RecordInv'
  BY <1>0, <1>2 DEF SkipInstance, DrainRecord, store, CurIsListed, FiredIsRecorded,
                    AppendedIsRecorded, AwaitingIsRecorded, ShownIsRecorded
<1>3. ASSUME NEW i \in Items, Decide(i)
      PROVE  RecordInv'
  BY <1>0, <1>3 DEF Decide, Front, DrainRecord, store, CurIsListed, FiredIsRecorded,
                    AppendedIsRecorded, AwaitingIsRecorded, ShownIsRecorded
<1>4. CASE AppendFeedback
  <2>1. /\ drain'.pc = "update" /\ drain'.cur = drain.cur /\ drain'.todo = drain.todo
        /\ drain'.fired = drain.fired /\ drain'.snap = drain.snap /\ drain'.at = drain.at
        /\ drain.pc = "append" /\ inst' = inst /\ shown' = shown
    BY <1>0, <1>4 DEF AppendFeedback, DrainRecord
  <2>2. /\ drain.cur \in Items
        /\ \A i \in Items, k \in Steps :
             surfaced'[i][k] >= surfaced[i][k] /\ surfaced'[i][k] \in Nat
        /\ \A i \in Items, k \in Steps : surfaced[i][k] \in Nat /\ shown[i][k] \in Nat
        /\ \A i \in Items : inst[i].cursor \in Nat
    BY <1>4, AppendType DEF TypeOK, Instance
  <2>3. CurIsListed'
    BY <2>1 DEF CurIsListed
  <2>4. FiredIsRecorded'
    BY <2>1, <2>2 DEF FiredIsRecorded
  <2>5. AppendedIsRecorded'
    <3>1. SUFFICES ASSUME Verdict(drain.cur).kind = "fire"
                   PROVE  shown[drain.cur][Verdict(drain.cur).step]
                            < surfaced'[drain.cur][Verdict(drain.cur).step]
      BY <2>1, VerdictStable DEF AppendedIsRecorded
    <3>2. /\ Verdict(drain.cur).step \in Steps
          /\ surfaced'[drain.cur][Verdict(drain.cur).step]
               = surfaced[drain.cur][Verdict(drain.cur).step] + 1
      BY <1>4, <3>1, AppendType
    <3>3. shown[drain.cur][Verdict(drain.cur).step]
            <= surfaced[drain.cur][Verdict(drain.cur).step]
      BY <2>2, <3>2 DEF ShownIsRecorded
    <3>. QED BY <2>2, <3>2, <3>3
  <2>6. AwaitingIsRecorded'
    BY <2>1, <2>2 DEF AwaitingIsRecorded
  <2>7. ShownIsRecorded'
    BY <2>1, <2>2 DEF ShownIsRecorded
  <2>. QED BY <2>3, <2>4, <2>5, <2>6, <2>7
<1>5. CASE AdvanceInstance
  <2>1. /\ drain'.pc = "sweep" /\ drain'.todo = drain.todo \ {drain.cur}
        /\ drain'.fired = IF Verdict(drain.cur).kind = "fire"
                          THEN drain.fired \cup {<<drain.cur, Verdict(drain.cur).step>>}
                          ELSE drain.fired
        /\ drain.pc = "update" /\ surfaced' = surfaced /\ shown' = shown
    BY <1>0, <1>5 DEF AdvanceInstance, DrainRecord
  <2>2. CurIsListed' /\ AppendedIsRecorded' /\ ShownIsRecorded'
    BY <2>1 DEF CurIsListed, AppendedIsRecorded, ShownIsRecorded
  <2>3. FiredIsRecorded'
    BY <2>1 DEF FiredIsRecorded, AppendedIsRecorded
  <2>4. AwaitingIsRecorded'
    <3>1. /\ \A j \in Items : j # drain.cur => inst'[j] = inst[j]
          /\ IF Verdict(drain.cur).kind = "fire"
             THEN /\ inst'[drain.cur].cursor = Verdict(drain.cur).step
                  /\ inst'[drain.cur].cursor \in Steps
             ELSE inst'[drain.cur].status = "needs_attention"
      BY <1>5, AdvanceType
    <3>2. \A i \in Items, k \in Steps : surfaced[i][k] \in Nat /\ shown[i][k] \in Nat
      BY DEF TypeOK
    <3>3. drain.cur \in Items
      BY DEF TypeOK, DrainRecord
    <3>. QED BY <2>1, <3>1, <3>2, <3>3 DEF AwaitingIsRecorded, AppendedIsRecorded
  <2>. QED BY <2>2, <2>3, <2>4
<1>6. CASE FinishSweep
  BY <1>0, <1>6 DEF FinishSweep, DrainRecord, store, CurIsListed, FiredIsRecorded,
                    AppendedIsRecorded, AwaitingIsRecorded, ShownIsRecorded
<1>7. ASSUME NEW i \in Items, NEW k \in Steps, EmitDraft(i, k)
      PROVE  RecordInv'
  <2>1. /\ drain.pc = "emit" /\ drain'.pc = "emit" /\ drain'.todo = drain.todo
        /\ <<i, k>> \in drain.fired /\ drain'.fired = drain.fired \ {<<i, k>>}
        /\ shown' = [shown EXCEPT ![i][k] = @ + 1] /\ surfaced' = surfaced /\ inst' = inst
    BY <1>0, <1>7 DEF EmitDraft, DrainRecord, store
  <2>2. CurIsListed' /\ AppendedIsRecorded' /\ AwaitingIsRecorded'
    BY <2>1 DEF CurIsListed, AppendedIsRecorded, AwaitingIsRecorded
  <2>3. /\ shown[i][k] < surfaced[i][k] /\ shown'[i][k] = shown[i][k] + 1
        /\ shown[i][k] \in Nat /\ surfaced[i][k] \in Nat
        /\ \A j \in Items, l \in Steps : <<j, l>> # <<i, k>> => shown'[j][l] = shown[j][l]
    BY <2>1 DEF FiredIsRecorded, TypeOK
  <2>4. ShownIsRecorded'
    <3>1. SUFFICES ASSUME NEW j \in Items, NEW l \in Steps
                   PROVE  shown'[j][l] <= surfaced[j][l]
      BY <2>1 DEF ShownIsRecorded
    <3>2. CASE <<j, l>> = <<i, k>>
      BY <2>3, <3>2
    <3>3. CASE <<j, l>> # <<i, k>>
      BY <2>3, <3>3 DEF ShownIsRecorded
    <3>. QED BY <3>2, <3>3
  <2>5. FiredIsRecorded'
    BY <2>1, <2>3 DEF FiredIsRecorded
  <2>. QED BY <2>2, <2>4, <2>5
<1>8. ASSUME NEW i \in Items, EmitStale(i)
      PROVE  RecordInv'
  BY <1>0, <1>8 DEF EmitStale, DrainRecord, store, CurIsListed, FiredIsRecorded,
                    AppendedIsRecorded, AwaitingIsRecorded, ShownIsRecorded
<1>9. CASE EndDrain
  BY <1>9 DEF EndDrain, LeaveDrain, DrainIdle, store, CurIsListed, FiredIsRecorded,
              AppendedIsRecorded, AwaitingIsRecorded, ShownIsRecorded
<1>. QED BY <1>1, <1>2, <1>3, <1>4, <1>5, <1>6, <1>7, <1>8, <1>9 DEF DrainStep

\* No request, failure or restart breaks it: none of them puts a sequence in
\* review, or takes a feedback row away.
LEMMA RecordOtherStep ==
  TypeOK /\ RecordInv /\ (ServeStep \/ Request \/ Failure \/ Launch \/ Tick) => RecordInv'
<1> SUFFICES ASSUME TypeOK, RecordInv, ServeStep \/ Request \/ Failure \/ Launch \/ Tick
             PROVE  RecordInv'
  OBVIOUS
<1> USE DEF RecordInv
<1>0. drain \in DrainRecord
  BY DEF TypeOK
<1>1. surfaced' = surfaced /\ shown' = shown
  <2>1. CASE ServeStep
    BY <2>1, ZenonT(60) DEF ServeStep, Arm, ReadForExit, ExitInstance, SetStage, Postpone, ResolveReview,
                store
  <2>2. CASE Request
    BY <2>2 DEF Request, Enroll, RequestReview, RequestExit, RequestPostpone, CreateVersion,
                store
  <2>3. CASE Failure
    BY <2>3 DEF Failure, DraftFails, AbortDrain, FailRequest, Crash, store
  <2>4. CASE Launch \/ Tick
    BY <2>4 DEF Launch, Tick, store
  <2>. QED BY <2>1, <2>2, <2>3, <2>4, Zenon
<1>2. ShownIsRecorded'
  BY <1>1 DEF ShownIsRecorded
<1>3. AwaitingIsRecorded'
  <2>1. CASE inst' = inst
    BY <1>1, <2>1 DEF AwaitingIsRecorded
  <2>2. CASE Arm
    BY <1>1, <2>2, ArmType DEF AwaitingIsRecorded
  <2>3. CASE ExitInstance
    <3>1. /\ \A j \in Items : j # serve.cur => inst'[j] = inst[j]
          /\ inst'[serve.cur].status \in {"engaged", "completed", "cancelled"}
      BY <2>3, RequestWriteType
    <3>. QED BY <1>1, <3>1 DEF AwaitingIsRecorded
  <2>4. CASE Postpone
    <3>1. /\ \A j \in Items : j # serve.cur => inst'[j] = inst[j]
          /\ inst'[serve.cur].status \in Selectable
      BY <2>4, RequestWriteType
    <3>. QED BY <1>1, <3>1 DEF AwaitingIsRecorded, Selectable
  <2>5. CASE ResolveReview
    <3>1. /\ \A j \in Items : j # serve.cur => inst'[j] = inst[j]
          /\ inst'[serve.cur].status \in {"active", "completed"}
      BY <2>5, RequestWriteType, NextStepType
    <3>. QED BY <1>1, <3>1 DEF AwaitingIsRecorded
  <2>6. CASE AdvanceInstance
    BY <1>1, <2>6, RecordDrainStep DEF DrainStep
  <2>. QED BY <2>1, <2>2, <2>3, <2>4, <2>5, <2>6, RowWriters DEF Next
<1>4. CASE drain' = drain
  BY <1>1, <1>2, <1>3, <1>4, VerdictStable DEF CurIsListed, FiredIsRecorded, AppendedIsRecorded
<1>5. CASE drain' = DrainIdle
  BY <1>2, <1>3, <1>5 DEF DrainIdle, CurIsListed, FiredIsRecorded, AppendedIsRecorded
<1>6. ASSUME NEW i \in Items, DraftFails(i)
      PROVE  RecordInv'
  BY <1>0, <1>1, <1>2, <1>3, <1>6 DEF DraftFails, DrainRecord, CurIsListed, FiredIsRecorded,
                                      AppendedIsRecorded
<1>7. \/ drain' = drain
      \/ drain' = DrainIdle
      \/ \E i \in Items : DraftFails(i)
  <2>1. CASE ServeStep
    BY <2>1, ZenonT(60) DEF ServeStep, Arm, ReadForExit, ExitInstance, SetStage, Postpone, ResolveReview
  <2>2. CASE Request
    BY <2>2 DEF Request, Enroll, RequestReview, RequestExit, RequestPostpone, CreateVersion
  <2>3. CASE Failure
    BY <2>3 DEF Failure, AbortDrain, LeaveDrain, FailRequest, Crash
  <2>4. CASE Launch \/ Tick
    BY <2>4 DEF Launch, Tick
  <2>. QED BY <2>1, <2>2, <2>3, <2>4, Zenon
<1>. QED BY <1>4, <1>5, <1>6, <1>7

\* Every step keeps the record.
LEMMA RecordStep == TypeOK /\ RecordInv /\ [Next]_vars => RecordInv'
<1>1. TypeOK /\ RecordInv /\ UNCHANGED vars => RecordInv'
  BY DEF vars, store, RecordInv, CurIsListed, FiredIsRecorded, AppendedIsRecorded, Verdict,
         AwaitingIsRecorded, ShownIsRecorded
<1>. QED BY <1>1, RecordDrainStep, RecordOtherStep, Zenon DEF Next

\* The record is kept for ever.
LEMMA RecordInvariant == Spec => []RecordInv
<1>1. Init => RecordInv
  BY DEF Init, DrainIdle, NoInstance, RecordInv, CurIsListed, FiredIsRecorded,
         AppendedIsRecorded, AwaitingIsRecorded, ShownIsRecorded
<1>. QED BY <1>1, TypeCorrect, RecordStep, PTL DEF Spec

\* A sequence awaits review only at a step whose draft is on record, whatever
\* the two threads interleave and wherever a crash falls between the append
\* and the update of fire_step.
THEOREM AwaitingReviewIsRecorded == Spec => []AwaitingIsRecorded
<1>. QED BY RecordInvariant, PTL DEF RecordInv

\* Every follow_up_draft_ready frame the user ever saw has a feedback row of
\* its own: no crash or failed sweep announces a draft that is not on record.
THEOREM NotifiedDraftsAreRecorded == Spec => []ShownIsRecorded
<1>. QED BY RecordInvariant, PTL DEF RecordInv

-----------------------------------------------------------------------------
(* Without the worker thread (tick_seconds = 0, the default): the only     *)
(* drain is the one at launch, it ends before the host serves, and no      *)
(* thread ever acts on a row another one has changed since it read it.     *)

\* The drain and the request loop are never busy together.
OneThreadAtATime ==
  /\ drain.pc # "idle" => host = "launching" /\ drain.at <= now
  /\ serve.pc # "idle" => host = "serving"

\* What the sweep listed is what the rows still are.
SweepIsFresh ==
  /\ drain.pc \in {"sweep", "append", "update"} =>
       \A i \in drain.todo : /\ drain.snap[i] = inst[i]
                             /\ inst[i].status \in Selectable
                             /\ inst[i].due <= drain.at
  /\ drain.pc \in {"append", "update"} =>
       drain.cur \in drain.todo /\ Verdict(drain.cur).kind # "nothing"

\* What a request read is what the row still is.
RequestIsFresh ==
  /\ serve.pc \in {"exit_write", "postpone", "review"} => serve.snap = inst[serve.cur]
  /\ serve.pc = "exit_write" => serve.snap.status \notin Terminal \cup {"unarmed"}
  /\ serve.pc = "postpone" => serve.snap.status \in Selectable
  /\ serve.pc = "review" => serve.snap.status = "awaiting_review"
  /\ serve.pc = "arm" => /\ stage[serve.cur] # "absent"
                         /\ inst[serve.cur].status = "unarmed"
                         /\ serve.at <= now

\* Only an inserted item has an instance, and a row that is not there has
\* its first cursor ahead of it.
UnarmedIsBlank ==
  \A i \in Items :
    /\ stage[i] = "absent" => inst[i].status = "unarmed"
    /\ inst[i].status = "unarmed" => inst[i].cursor = 0

FreshInv == OneThreadAtATime /\ SweepIsFresh /\ RequestIsFresh /\ UnarmedIsBlank

\* Every write of a row acts on the row as it is.
LEMMA WritesAreFresh ==
  ASSUME TypeOK, FreshInv
  PROVE  /\ AdvanceInstance =>
              /\ drain.snap[drain.cur] = inst[drain.cur]
              /\ inst[drain.cur].status \in Selectable
              /\ inst[drain.cur].due <= drain.at /\ drain.at <= now
              /\ Verdict(drain.cur).kind \in {"attention", "fire"}
              /\ host = "launching"
         /\ ExitInstance => /\ serve.snap = inst[serve.cur]
                            /\ inst[serve.cur].status \notin Terminal \cup {"unarmed"}
         /\ Postpone => /\ serve.snap = inst[serve.cur]
                        /\ inst[serve.cur].status \in Selectable
         /\ ResolveReview => /\ serve.snap = inst[serve.cur]
                             /\ inst[serve.cur].status = "awaiting_review"
         /\ Arm => inst[serve.cur].status = "unarmed"
<1>1. drain.cur \in Items /\ serve.cur \in Items
  BY DEF TypeOK, DrainRecord, ServeRecord
<1>2. Verdict(drain.cur).kind \in {"nothing", "attention", "fire"}
  BY <1>1, VerdictType
<1>. QED BY <1>1, <1>2 DEF FreshInv, OneThreadAtATime, SweepIsFresh, RequestIsFresh,
                           AdvanceInstance, ExitInstance, Postpone, ResolveReview, Arm

\* The drain's own steps change no other listed row, and no request is under
\* way while it runs.
LEMMA FreshDrainStep ==
  ~TickerOn /\ TypeOK /\ FreshInv /\ DrainStep => FreshInv'
<1> SUFFICES ASSUME ~TickerOn, TypeOK, FreshInv, DrainStep PROVE FreshInv'
  OBVIOUS
<1>0. drain \in DrainRecord /\ now \in Nat
  BY DEF TypeOK
<1> USE DEF FreshInv, OneThreadAtATime, SweepIsFresh, RequestIsFresh, UnarmedIsBlank
<1>1. CASE StartDrain
  <2>1. /\ host = "launching" /\ host' = host /\ now' = now /\ serve' = serve
        /\ stage' = stage /\ inst' = inst
        /\ drain'.pc = "sweep" /\ drain'.at = now /\ drain'.todo = ListDue
        /\ drain'.snap = [i \in Items |-> IF i \in ListDue THEN inst[i] ELSE NoInstance]
    BY <1>1 DEF StartDrain, DrainIdle, store
  <2>2. \A i \in ListDue : /\ i \in Items /\ inst[i].status \in Selectable
                           /\ inst[i].due <= now
    BY DEF ListDue
  <2>. QED BY <1>0, <2>1, <2>2
<1>2. ASSUME NEW i \in Items, SkipInstance(i)
      PROVE  FreshInv'
  BY <1>0, <1>2 DEF SkipInstance, DrainRecord, store
<1>3. ASSUME NEW i \in Items, Decide(i)
      PROVE  FreshInv'
  <2>1. /\ drain.pc = "sweep" /\ i \in drain.todo /\ Verdict(i).kind # "nothing"
        /\ drain' = [drain EXCEPT !.pc = "append", !.cur = i]
        /\ host' = host /\ now' = now /\ serve' = serve /\ stage' = stage /\ inst' = inst
    BY <1>3 DEF Decide, Front, store
  <2>2. /\ drain'.pc = "append" /\ drain'.cur = i /\ drain'.todo = drain.todo
        /\ drain'.snap = drain.snap /\ drain'.at = drain.at
    BY <1>0, <2>1 DEF DrainRecord
  <2>3. Verdict(drain.cur)' = Verdict(i)
    BY <2>2 DEF Verdict
  <2>. QED BY <2>1, <2>2, <2>3
<1>4. CASE AppendFeedback
  <2>1. /\ drain.pc = "append" /\ drain' = [drain EXCEPT !.pc = "update"]
        /\ host' = host /\ now' = now /\ serve' = serve /\ stage' = stage /\ inst' = inst
    BY <1>4 DEF AppendFeedback
  <2>2. /\ drain'.pc = "update" /\ drain'.cur = drain.cur /\ drain'.todo = drain.todo
        /\ drain'.snap = drain.snap /\ drain'.at = drain.at
    BY <1>0, <2>1 DEF DrainRecord
  <2>. QED BY <2>1, <2>2, VerdictStable
<1>5. CASE AdvanceInstance
  <2>1. /\ drain.pc = "update" /\ drain'.pc = "sweep"
        /\ drain'.todo = drain.todo \ {drain.cur}
        /\ drain'.snap = drain.snap /\ drain'.at = drain.at
        /\ host' = host /\ now' = now /\ serve' = serve /\ stage' = stage
    BY <1>0, <1>5 DEF AdvanceInstance, DrainRecord
  <2>2. /\ \A j \in Items : j # drain.cur => inst'[j] = inst[j]
        /\ drain.cur \in Items
        /\ inst'[drain.cur].status \in {"awaiting_review", "needs_attention"}
    BY <1>5, AdvanceType
  <2>3. inst[drain.cur].status \in Selectable /\ serve.pc = "idle"
    BY <1>5, <2>1, WritesAreFresh
  <2>4. stage[drain.cur] # "absent"
    BY <2>2, <2>3 DEF Selectable
  <2>5. drain.todo \subseteq Items
    BY <1>0 DEF DrainRecord
  <2>. QED BY <2>1, <2>2, <2>3, <2>4, <2>5
<1>6. CASE FinishSweep
  BY <1>0, <1>6 DEF FinishSweep, DrainRecord, store
<1>7. ASSUME NEW i \in Items, NEW k \in Steps, EmitDraft(i, k)
      PROVE  FreshInv'
  BY <1>0, <1>7 DEF EmitDraft, DrainRecord, store
<1>8. ASSUME NEW i \in Items, EmitStale(i)
      PROVE  FreshInv'
  BY <1>0, <1>8 DEF EmitStale, DrainRecord, store
<1>9. CASE EndDrain
  BY <1>9 DEF EndDrain, LeaveDrain, DrainIdle, store
<1>. QED BY <1>1, <1>2, <1>3, <1>4, <1>5, <1>6, <1>7, <1>8, <1>9 DEF DrainStep

\* A request reads a row and writes it before any other thread can.
LEMMA FreshServeStep ==
  TypeOK /\ FreshInv /\ ServeStep => FreshInv'
<1> SUFFICES ASSUME TypeOK, FreshInv, ServeStep PROVE FreshInv'
  OBVIOUS
<1> USE DEF FreshInv, OneThreadAtATime, SweepIsFresh, RequestIsFresh, UnarmedIsBlank
<1>0. /\ serve \in ServeRecord /\ serve.cur \in Items /\ inst \in [Items -> Instance]
      /\ stage \in [Items -> Stages \cup {"absent"}]
  BY DEF TypeOK, ServeRecord
<1>1. drain.pc = "idle" /\ serve.pc # "idle" /\ host = "serving"
  BY DEF ServeStep, Arm, ReadForExit, ExitInstance, SetStage, Postpone, ResolveReview
<1>2. drain' = drain /\ host' = host /\ now' = now
  BY DEF ServeStep, Arm, ReadForExit, ExitInstance, SetStage, Postpone, ResolveReview
<1>3. OneThreadAtATime' /\ SweepIsFresh'
  BY <1>1, <1>2
<1>4. CASE Arm
  <2>1. serve'.pc = "idle" /\ stage' = stage /\ stage[serve.cur] # "absent"
    BY <1>4 DEF Arm, ServeIdle
  <2>2. /\ inst'[serve.cur].status \in {"active", "completed"}
        /\ \A j \in Items : j # serve.cur => inst'[j] = inst[j]
    BY <1>4, ArmType
  <2>. QED BY <1>3, <2>1, <2>2
<1>5. ASSUME NEW i \in Items, ReadForExit(i)
      PROVE  FreshInv'
  <2>1. /\ serve'.cur = i /\ serve'.snap = inst[i] /\ inst' = inst /\ stage' = stage
        /\ serve'.pc = IF inst[i].status \in Terminal \cup {"unarmed"}
                       THEN "set_stage" ELSE "exit_write"
    BY <1>0, <1>5 DEF ReadForExit, ServeRecord, store
  <2>. QED BY <1>3, <2>1
<1>6. CASE ExitInstance
  <2>1. serve'.pc = "set_stage" /\ stage' = stage
    BY <1>0, <1>6 DEF ExitInstance, ServeRecord
  <2>2. /\ \A j \in Items : j # serve.cur => inst'[j] = inst[j]
        /\ inst'[serve.cur].status \in {"engaged", "completed", "cancelled"}
    BY <1>6, RequestWriteType
  <2>3. stage[serve.cur] # "absent"
    BY <1>0, <1>6, WritesAreFresh
  <2>. QED BY <1>3, <2>1, <2>2, <2>3
<1>7. CASE SetStage
  <2>1. serve'.pc \in {"idle", "exit"} /\ inst' = inst
    BY <1>0, <1>7 DEF SetStage, ServeRecord, ServeIdle
  <2>2. /\ \A j \in Items : j # serve.cur => stage'[j] = stage[j]
        /\ stage'[serve.cur] = "absent" => stage[serve.cur] = "absent"
    <3>1. serve.event \in Events /\ stage[serve.cur] \in Stages \cup {"absent"}
      BY <1>0 DEF ServeRecord
    <3>2. /\ \A j \in Items : j # serve.cur => stage'[j] = stage[j]
          /\ stage'[serve.cur] = ResultingStage(serve.event, stage[serve.cur])
      BY <1>0, <1>7 DEF SetStage
    <3>. QED BY <3>1, <3>2, ResultingStageType
  <2>. QED BY <1>3, <2>1, <2>2
<1>8. CASE Postpone
  <2>1. serve'.pc = "idle" /\ stage' = stage
    BY <1>8 DEF Postpone, ServeIdle
  <2>2. /\ \A j \in Items : j # serve.cur => inst'[j] = inst[j]
        /\ inst'[serve.cur].status \in Selectable
    BY <1>8, RequestWriteType
  <2>3. stage[serve.cur] # "absent"
    BY <1>0, <1>8, WritesAreFresh DEF Selectable
  <2>. QED BY <1>3, <2>1, <2>2, <2>3 DEF Selectable
<1>9. CASE ResolveReview
  <2>1. serve'.pc = "idle" /\ stage' = stage
    BY <1>9 DEF ResolveReview, ServeIdle
  <2>2. /\ \A j \in Items : j # serve.cur => inst'[j] = inst[j]
        /\ inst'[serve.cur].status \in {"active", "completed"}
    BY <1>9, RequestWriteType, NextStepType
  <2>3. stage[serve.cur] # "absent"
    BY <1>0, <1>9, WritesAreFresh
  <2>. QED BY <1>3, <2>1, <2>2, <2>3
<1>. QED BY <1>4, <1>5, <1>6, <1>7, <1>8, <1>9 DEF ServeStep

\* Requests are accepted, cut off and restarted only between two drains.
LEMMA FreshOtherStep ==
  TypeOK /\ FreshInv /\ (Request \/ Failure \/ Launch \/ Tick) => FreshInv'
<1> SUFFICES ASSUME TypeOK, FreshInv, Request \/ Failure \/ Launch \/ Tick
             PROVE  FreshInv'
  OBVIOUS
<1> USE DEF FreshInv, OneThreadAtATime, SweepIsFresh, RequestIsFresh, UnarmedIsBlank
<1>0. now \in Nat /\ drain \in DrainRecord /\ stage \in [Items -> Stages \cup {"absent"}]
  BY DEF TypeOK
<1>1. ASSUME NEW i \in Items, Enroll(i)
      PROVE  FreshInv'
  <2>1. /\ stage[i] = "absent" /\ host = "serving" /\ host' = host /\ drain' = drain
        /\ now' = now /\ inst' = inst /\ stage' = [stage EXCEPT ![i] = "open"]
        /\ serve'.pc = "arm" /\ serve'.cur = i /\ serve'.at = now
    BY <1>1 DEF Enroll, Ready, ServeIdle
  <2>2. stage'[i] # "absent" /\ \A j \in Items : j # i => stage'[j] = stage[j]
    BY <1>0, <2>1
  <2>. QED BY <1>0, <2>1, <2>2
<1>2. ASSUME NEW i \in Items, RequestReview(i)
      PROVE  FreshInv'
  BY <1>2 DEF RequestReview, Ready, ServeIdle, store
<1>3. ASSUME NEW i \in Items, NEW e \in Events, RequestExit(e, i)
      PROVE  FreshInv'
  BY <1>3 DEF RequestExit, Ready, ServeIdle, store
<1>4. ASSUME NEW i \in Items, NEW t \in Times, NEW z \in BOOLEAN, RequestPostpone(i, t, z)
      PROVE  FreshInv'
  BY <1>4 DEF RequestPostpone, Ready, ServeIdle, store
<1>5. ASSUME NEW v \in Versions, CreateVersion(v)
      PROVE  FreshInv'
  BY <1>5 DEF CreateVersion, Verdict
<1>6. ASSUME NEW i \in Items, DraftFails(i)
      PROVE  FreshInv'
  BY <1>0, <1>6 DEF DraftFails, DrainRecord, store
<1>7. CASE AbortDrain \/ FailRequest \/ Crash
  <2>1. inst' = inst /\ stage' = stage /\ now' = now
    BY <1>7 DEF AbortDrain, FailRequest, Crash, store
  <2>2. CASE AbortDrain
    BY <2>1, <2>2 DEF AbortDrain, LeaveDrain, DrainIdle
  <2>3. CASE FailRequest
    BY <2>1, <2>3, VerdictStable DEF FailRequest, ServeIdle
  <2>4. CASE Crash
    BY <2>1, <2>4 DEF Crash, DrainIdle, ServeIdle
  <2>. QED BY <1>7, <2>2, <2>3, <2>4
<1>8. CASE Launch
  BY <1>8 DEF Launch, store
<1>9. CASE Tick
  <2>1. now' = now + 1 /\ drain' = drain /\ serve' = serve /\ host' = host
        /\ inst' = inst /\ stage' = stage
    BY <1>9 DEF Tick, store
  <2>2. (drain.at <= now => drain.at <= now') /\ (serve.at <= now => serve.at <= now')
    BY <1>0, <2>1 DEF DrainRecord, TypeOK, ServeRecord
  <2>. QED BY <2>1, <2>2, VerdictStable
<1>. QED BY <1>1, <1>2, <1>3, <1>4, <1>5, <1>6, <1>7, <1>8, <1>9 DEF Request, Failure

\* Without the worker thread every step keeps the reads fresh.
LEMMA FreshStep == ~TickerOn /\ TypeOK /\ FreshInv /\ [Next]_vars => FreshInv'
<1>1. TypeOK /\ FreshInv /\ UNCHANGED vars => FreshInv'
  BY DEF vars, store, FreshInv, OneThreadAtATime, SweepIsFresh, RequestIsFresh,
         UnarmedIsBlank, Verdict
<1>. QED BY <1>1, FreshDrainStep, FreshServeStep, FreshOtherStep DEF Next

\* ... and they are fresh for ever.
LEMMA FreshInvariant ==
  ASSUME ~TickerOn
  PROVE  Spec => []FreshInv
<1>1. Init => FreshInv
  BY DEF Init, FreshInv, OneThreadAtATime, SweepIsFresh, RequestIsFresh, UnarmedIsBlank,
         DrainIdle, ServeIdle, NoInstance
<1>2. TypeOK /\ FreshInv /\ [Next]_vars => FreshInv'
  BY FreshStep
<1>. QED BY <1>1, <1>2, TypeCorrect, PTL DEF Spec

-----------------------------------------------------------------------------
(* Consequences *)

\* A row that is written was not terminal.
LEMMA TerminalStep ==
  ASSUME TypeOK, FreshInv, [Next]_vars, NEW i \in Items, inst[i].status \in Terminal
  PROVE  inst'[i] = inst[i]
<1>1. CASE AdvanceInstance
  BY <1>1, AdvanceType, WritesAreFresh DEF Selectable, Terminal
<1>2. CASE Arm
  BY <1>2, ArmType, WritesAreFresh DEF Terminal
<1>3. CASE ExitInstance
  BY <1>3, RequestWriteType, WritesAreFresh
<1>4. CASE Postpone
  BY <1>4, RequestWriteType, WritesAreFresh DEF Selectable, Terminal
<1>5. CASE ResolveReview
  BY <1>5, RequestWriteType, WritesAreFresh DEF Terminal
<1>. QED BY <1>1, <1>2, <1>3, <1>4, <1>5, RowWriters

\* Without the worker thread a completed or cancelled sequence never changes
\* again, however requests, crashes, failures and relaunches follow each
\* other. With it, a sweep overwrites a row that was ended behind its back.
THEOREM TerminalStaysFinal ==
  ASSUME ~TickerOn
  PROVE  Spec => TerminalIsFinal
<1>1. TypeOK /\ FreshInv /\ [Next]_vars =>
        [\A i \in Items : inst[i].status \in Terminal => inst'[i] = inst[i]]_vars
  BY TerminalStep
<1>. QED BY <1>1, TypeCorrect, FreshInvariant, PTL DEF Spec, TerminalIsFinal

\* A row that is written keeps its cursor, or moves it to the fired step or
\* past it.
LEMMA CursorStep ==
  ASSUME TypeOK, FreshInv, [Next]_vars, NEW i \in Items
  PROVE  inst'[i].cursor >= inst[i].cursor
<1>0. /\ inst[i].cursor \in Nat /\ drain.cur \in Items /\ serve.cur \in Items
  BY DEF TypeOK, Instance, DrainRecord, ServeRecord
<1>1. CASE AdvanceInstance
  <2>1. /\ \A j \in Items : j # drain.cur => inst'[j] = inst[j]
        /\ \/ inst'[drain.cur].cursor = Verdict(drain.cur).step
           \/ inst'[drain.cur].cursor = inst[drain.cur].cursor
    BY <1>1, AdvanceType, WritesAreFresh
  <2>2. Verdict(drain.cur).step >= inst[drain.cur].cursor
    BY <1>0, <1>1, VerdictType, WritesAreFresh
  <2>. QED BY <1>0, <2>1, <2>2
<1>2. CASE Arm
  <2>1. inst[serve.cur].cursor = 0
    BY <1>0, <1>2, WritesAreFresh DEF FreshInv, UnarmedIsBlank
  <2>. QED BY <1>0, <1>2, <2>1, ArmType
<1>3. CASE ExitInstance
  BY <1>0, <1>3, RequestWriteType, WritesAreFresh
<1>4. CASE Postpone
  BY <1>0, <1>4, RequestWriteType, WritesAreFresh
<1>5. CASE ResolveReview
  <2>1. /\ \A j \in Items : j # serve.cur => inst'[j] = inst[j]
        /\ inst'[serve.cur].cursor = serve.snap.cursor + 1
    BY <1>5, RequestWriteType, NextStepType
  <2>2. serve.snap = inst[serve.cur]
    BY <1>5, WritesAreFresh
  <2>. QED BY <1>0, <2>1, <2>2
<1>. QED BY <1>0, <1>1, <1>2, <1>3, <1>4, <1>5, RowWriters

\* Without the worker thread the cursor never moves back, so a step whose
\* review was resolved, or that a later one swallowed, is never drafted again.
THEOREM CursorAdvances ==
  ASSUME ~TickerOn
  PROVE  Spec => CursorNeverRetreats
<1>1. TypeOK /\ FreshInv /\ [Next]_vars =>
        [\A i \in Items : inst'[i].cursor >= inst[i].cursor]_vars
  BY CursorStep
<1>. QED BY <1>1, TypeCorrect, FreshInvariant, PTL DEF Spec, CursorNeverRetreats

-----------------------------------------------------------------------------
(* The documented lifecycle *)

\* The lifecycle speaks of the same statuses, events and cadence.
LEMMA SameStatuses ==
  /\ Promise!Selectable = Selectable /\ Promise!Terminal = Terminal
  /\ Promise!Events = Events /\ Promise!Null = Null
  /\ \A e : Promise!ResultingStatus(e) = ResultingStatus(e)
BY DEF Promise!Selectable, Selectable, Promise!Terminal, Terminal, Promise!Events, Events,
       Promise!Null, Null, Promise!ResultingStatus, ResultingStatus

\* ... and computes it alike.
LEMMA SameCadence ==
  /\ \A c, anchor, cursor :
       /\ Promise!NextDueAfter(c, anchor, cursor) = NextDueAfter(c, anchor, cursor)
       /\ Promise!AdvanceAfterReview(c, anchor, cursor) = AdvanceAfterReview(c, anchor, cursor)
  /\ \A c, anchor, cursor, t :
       Promise!EvaluateDue(c, anchor, cursor, t) = EvaluateDue(c, anchor, cursor, t)
<1>1. \A S : Promise!Min(S) = Min(S) /\ Promise!Max(S) = Max(S)
  BY DEF Promise!Min, Min, Promise!Max, Max
<1>2. \A c, anchor, k : Promise!DueAt(c, anchor, k) = DueAt(c, anchor, k)
  BY DEF Promise!DueAt, DueAt
<1>3. \A t, earlier : Promise!WholeDaysSince(t, earlier) = WholeDaysSince(t, earlier)
  BY DEF Promise!WholeDaysSince, WholeDaysSince
<1>4. \A c, cursor : Promise!Ahead(c, cursor) = Ahead(c, cursor)
  BY DEF Promise!Ahead, Ahead
<1>5. \A c, anchor, cursor :
        Promise!NextDueAfter(c, anchor, cursor) = NextDueAfter(c, anchor, cursor)
  BY <1>1, <1>2, <1>4, SameStatuses DEF Promise!NextDueAfter, NextDueAfter
<1>6. \A c, anchor, cursor :
        Promise!AdvanceAfterReview(c, anchor, cursor) = AdvanceAfterReview(c, anchor, cursor)
  BY <1>5, SameStatuses DEF Promise!AdvanceAfterReview, AdvanceAfterReview
<1>7. \A c, anchor, cursor, t :
        Promise!DueSteps(c, anchor, cursor, t) = DueSteps(c, anchor, cursor, t)
  BY <1>2, <1>4 DEF Promise!DueSteps, DueSteps
<1>8. \A c, anchor, cursor, t :
        Promise!FreshSteps(c, anchor, cursor, t) = FreshSteps(c, anchor, cursor, t)
  BY <1>2, <1>3, <1>7 DEF Promise!FreshSteps, FreshSteps
<1>9. \A c, anchor, cursor, t :
        Promise!EvaluateDue(c, anchor, cursor, t) = EvaluateDue(c, anchor, cursor, t)
  BY <1>1, <1>7, <1>8 DEF Promise!EvaluateDue, EvaluateDue
<1>. QED BY <1>5, <1>6, <1>9

\* Every write of a row is an edge of the lifecycle's state machine.
LEMMA LifecycleStep ==
  TypeOK /\ DueIffSelectable /\ FreshInv /\ [Next]_vars => [Promise!Next]_inst
<1> SUFFICES ASSUME TypeOK, DueIffSelectable, FreshInv, [Next]_vars, inst' # inst
             PROVE  Promise!Next
  OBVIOUS
<1>0. /\ drain.cur \in Items /\ serve.cur \in Items /\ inst \in [Items -> Instance]
      /\ now \in Nat /\ drain.at \in Nat /\ serve.at \in Nat
      /\ \A i \in Items : inst[i].cursor \in Nat
  BY DEF TypeOK, DrainRecord, ServeRecord, Instance
<1>1. CASE AdvanceInstance
  <2> DEFINE i == drain.cur
  <2>1. /\ drain.snap[i] = inst[i] /\ inst[i].status \in Selectable
        /\ inst[i].due <= drain.at /\ drain.at <= now
        /\ Verdict(i).kind \in {"attention", "fire"}
    BY <1>1, WritesAreFresh
  <2>2. inst[i].due \in Nat
    BY <1>0, <2>1 DEF DueIffSelectable, Instance
  <2>3. drain.at \in inst[i].due .. now
    BY <1>0, <2>1, <2>2
  <2>4. Promise!Verdict(i, drain.at) = Verdict(i)
    BY <2>1, SameCadence DEF Promise!Verdict, Verdict
  <2>5. CASE Verdict(i).kind = "fire"
    <3>1. UpdateState(i, "awaiting_review", Verdict(i).step, Null)
      BY <1>1, <2>5 DEF AdvanceInstance
    <3>2. Promise!Becomes(i, "awaiting_review", Verdict(i).step, Null)
      BY <1>0, <3>1 DEF UpdateState, Promise!Becomes, Instance
    <3>3. Promise!Fire(i)
      BY <2>1, <2>3, <2>4, <2>5, <3>2, SameStatuses DEF Promise!Fire
    <3>. QED BY <1>0, <3>3 DEF Promise!Next
  <2>6. CASE Verdict(i).kind = "attention"
    <3>1. UpdateState(i, "needs_attention", inst[i].cursor, Null)
      BY <1>1, <2>1, <2>6 DEF AdvanceInstance
    <3>2. Promise!Becomes(i, "needs_attention", inst[i].cursor, Null)
      BY <1>0, <3>1 DEF UpdateState, Promise!Becomes, Instance
    <3>3. Promise!Lapse(i)
      BY <2>1, <2>3, <2>4, <2>6, <3>2, SameStatuses DEF Promise!Lapse
    <3>. QED BY <1>0, <3>3 DEF Promise!Next
  <2>. QED BY <2>1, <2>5, <2>6
<1>2. CASE Arm
  <2>1. inst[serve.cur].status = "unarmed"
    BY <1>2, WritesAreFresh
  <2>2. serve.at \in 0 .. now
    BY <1>0, <1>2 DEF Arm, FreshInv, RequestIsFresh
  <2>3. Promise!Arm(serve.cur)
    BY <1>2, <2>1, <2>2, SameCadence, SameStatuses DEF Arm, Promise!Arm
  <2>. QED BY <1>0, <2>3 DEF Promise!Next
<1>3. CASE ExitInstance
  <2>1. /\ serve.snap = inst[serve.cur]
        /\ inst[serve.cur].status \notin Terminal \cup {"unarmed"}
    BY <1>3, WritesAreFresh
  <2>2. UpdateState(serve.cur, ResultingStatus(serve.event), inst[serve.cur].cursor, Null)
    BY <1>3, <2>1 DEF ExitInstance
  <2>3. Promise!Becomes(serve.cur, ResultingStatus(serve.event), inst[serve.cur].cursor, Null)
    BY <1>0, <2>2 DEF UpdateState, Promise!Becomes, Instance
  <2>4. serve.event \in Events
    BY DEF TypeOK, ServeRecord
  <2>5. Promise!Exit(serve.cur)
    BY <2>1, <2>3, <2>4, SameStatuses DEF Promise!Exit
  <2>. QED BY <1>0, <2>5 DEF Promise!Next
<1>4. CASE Postpone
  <2> DEFINE status == IF serve.snooze THEN "snoozed" ELSE "active"
  <2>1. serve.snap = inst[serve.cur] /\ inst[serve.cur].status \in Selectable
    BY <1>4, WritesAreFresh
  <2>2. UpdateState(serve.cur, status, inst[serve.cur].cursor, serve.at)
    BY <1>4, <2>1 DEF Postpone
  <2>3. inst'[serve.cur].due = serve.at
    BY <1>4, RequestWriteType
  <2>4. status \in Selectable
    BY DEF Selectable
  <2> HIDE DEF status
  <2>5. Promise!Becomes(serve.cur, status, inst[serve.cur].cursor, inst'[serve.cur].due)
    BY <1>0, <2>2, <2>3 DEF UpdateState, Promise!Becomes, Instance
  <2>6. Promise!Postpone(serve.cur)
    BY <1>0, <2>1, <2>3, <2>4, <2>5, SameStatuses DEF Promise!Postpone
  <2>. QED BY <1>0, <2>6 DEF Promise!Next
<1>5. CASE ResolveReview
  <2> DEFINE i == serve.cur
             next == AdvanceAfterReview(Content[inst[i].pin], inst[i].anchor, inst[i].cursor)
  <2>1. serve.snap = inst[i] /\ inst[i].status = "awaiting_review"
    BY <1>5, WritesAreFresh
  <2>2. UpdateState(i, next.status, next.cursor, next.due)
    BY <1>5, <2>1 DEF ResolveReview
  <2>3. Promise!Becomes(i, next.status, next.cursor, next.due)
    <3> HIDE DEF next
    <3>. QED BY <1>0, <2>2 DEF UpdateState, Promise!Becomes, Instance
  <2>4. Promise!Review(i)
    BY <2>1, <2>3, SameCadence DEF Promise!Review
  <2>. QED BY <1>0, <2>4 DEF Promise!Next
<1>. QED BY <1>1, <1>2, <1>3, <1>4, <1>5, RowWriters

\* Without the worker thread the host implements the documented lifecycle:
\* although a drain and every request read, decide and write in separate
\* calls that a crash may come between, each row moves only along the edges
\* of the state machine, as if the whole operation were one step.
THEOREM LifecycleIsImplemented ==
  ASSUME ~TickerOn
  PROVE  Spec => ImplementsLifecycle
<1>1. Init => Promise!Init
  BY DEF Init, Promise!Init, NoInstance
<1>. QED BY <1>1, LifecycleStep, TypeCorrect, DueExactlyWhenArmed, FreshInvariant, PTL
         DEF Spec, ImplementsLifecycle, Promise!Spec

-----------------------------------------------------------------------------
(* What the feedback rows and the notifications say of a follow-up's past: *)
(* how often a step was drafted and announced, that none was passed over   *)
(* in silence, what a drain leaves armed and what a reply leaves running.  *)

\* Step indexes are natural numbers.
LEMMA StepsAreNatural == Steps \subseteq Nat
<1>1. \A v \in Versions : DOMAIN Content[v].offset \subseteq Nat
  BY ContentType
<1>. QED BY <1>1 DEF Steps

\* The steps that a drain may still fire: those not behind the cursor of an
\* armed row, those after the one that awaits review.
CanFire(i, k) ==
  \/ inst[i].status \in Selectable \cup {"unarmed"} /\ k >= inst[i].cursor
  \/ inst[i].status = "awaiting_review" /\ k > inst[i].cursor

CanLapse(i) == inst[i].status \in Selectable \cup {"unarmed", "awaiting_review"}

\* A step never becomes fireable again, and the write that fires it ends it.
LEMMA CanFireShrinks ==
  ASSUME TypeOK, FreshInv, [Next]_vars, NEW i \in Items
  PROVE  /\ \A k \in Steps : CanFire(i, k)' => CanFire(i, k)
         /\ CanLapse(i)' => CanLapse(i)
         /\ AdvanceInstance /\ i = drain.cur =>
              IF Verdict(i).kind = "fire"
              THEN /\ Verdict(i).step \in Steps
                   /\ \A k \in Steps : k = Verdict(i).step => CanFire(i, k) /\ ~CanFire(i, k)'
              ELSE Verdict(i).kind = "attention" /\ CanLapse(i) /\ ~CanLapse(i)'
<1>0. /\ inst[i].cursor \in Nat /\ drain.cur \in Items /\ serve.cur \in Items
      /\ Steps \subseteq Nat
  BY StepsAreNatural DEF TypeOK, Instance, DrainRecord, ServeRecord
<1>1. CASE AdvanceInstance
  <2>1. CASE i # drain.cur
    BY <1>1, <2>1, AdvanceType DEF CanFire, CanLapse
  <2>2. CASE i = drain.cur
    <3>1. /\ drain.snap[i] = inst[i] /\ inst[i].status \in Selectable
          /\ Verdict(i).kind \in {"attention", "fire"}
      BY <1>1, <2>2, WritesAreFresh
    <3>2. Verdict(i).step \in Steps /\ Verdict(i).step >= inst[i].cursor
      BY <3>1, VerdictType
    <3>3. IF Verdict(i).kind = "fire"
          THEN inst'[i].status = "awaiting_review" /\ inst'[i].cursor = Verdict(i).step
          ELSE inst'[i].status = "needs_attention"
      BY <1>1, <2>2, AdvanceType
    <3>4. ASSUME NEW k \in Steps, CanFire(i, k)'
          PROVE  CanFire(i, k)
      <4>1. inst'[i].status = "awaiting_review" /\ k > inst'[i].cursor
        BY <3>3, <3>4 DEF CanFire, Selectable
      <4>2. inst'[i].cursor = Verdict(i).step
        BY <3>3, <4>1
      <4>3. k \in Nat /\ Verdict(i).step \in Nat
        BY <1>0, <3>2
      <4>4. k >= inst[i].cursor
        BY <1>0, <3>2, <4>1, <4>2, <4>3
      <4>. QED BY <3>1, <4>4 DEF CanFire
    <3>5. CanLapse(i) /\ (Verdict(i).kind # "fire" => ~CanLapse(i)')
      BY <3>1, <3>3 DEF CanLapse, Selectable
    <3>6. Verdict(i).kind = "fire" =>
            \A k \in Steps : k = Verdict(i).step => CanFire(i, k) /\ ~CanFire(i, k)'
      BY <1>0, <3>1, <3>2, <3>3 DEF CanFire, Selectable
    <3>. QED BY <3>1, <3>2, <3>4, <3>5, <3>6
  <2>. QED BY <2>1, <2>2
<1>2. CASE Arm
  <2>2. inst[serve.cur].status = "unarmed" /\ inst[serve.cur].cursor = 0
    BY <1>0, <1>2, WritesAreFresh DEF FreshInv, UnarmedIsBlank
  <2>3. /\ \A j \in Items : j # serve.cur => inst'[j] = inst[j]
        /\ inst'[serve.cur].cursor = 0
    BY <1>2, ArmType
  <2>4. CanLapse(serve.cur) /\ \A k \in Steps : CanFire(serve.cur, k)
    BY <1>0, <2>2 DEF CanFire, CanLapse
  <2>. QED BY <1>0, <1>1, <2>3, <2>4 DEF CanFire, CanLapse
<1>3. CASE ExitInstance
  <2>1. /\ \A j \in Items : j # serve.cur => inst'[j] = inst[j]
        /\ inst'[serve.cur].status \in {"engaged", "completed", "cancelled"}
    BY <1>3, RequestWriteType
  <2>. QED BY <1>1, <2>1 DEF CanFire, CanLapse, Selectable
<1>4. CASE Postpone
  <2>1. /\ \A j \in Items : j # serve.cur => inst'[j] = inst[j]
        /\ inst'[serve.cur].cursor = inst[serve.cur].cursor
        /\ inst'[serve.cur].status \in Selectable /\ inst[serve.cur].status \in Selectable
    BY <1>4, RequestWriteType, WritesAreFresh
  <2>. QED BY <1>1, <2>1 DEF CanFire, CanLapse, Selectable
<1>5. CASE ResolveReview
  <2>1. /\ \A j \in Items : j # serve.cur => inst'[j] = inst[j]
        /\ inst'[serve.cur].status \in {"active", "completed"}
        /\ inst'[serve.cur].cursor = serve.snap.cursor + 1
    BY <1>5, RequestWriteType, NextStepType
  <2>2. serve.snap = inst[serve.cur] /\ inst[serve.cur].status = "awaiting_review"
    BY <1>5, WritesAreFresh
  <2>. QED BY <1>0, <1>1, <2>1, <2>2 DEF CanFire, CanLapse, Selectable
<1>6. CASE inst' = inst
  BY <1>1, <1>6 DEF CanFire, CanLapse
<1>. QED BY <1>1, <1>2, <1>3, <1>4, <1>5, <1>6, RowWriters

\* Who touches the feedback rows, the sweep's position and the cut-off count.
LEMMA HistoryFrame ==
  ASSUME TypeOK, [Next]_vars
  PROVE  \/ AppendFeedback
         \/ /\ surfaced' = surfaced /\ expired' = expired
            /\ \/ AdvanceInstance /\ spent' = spent
               \/ drain' = drain /\ spent'.cut = spent.cut
               \/ inst' = inst /\ drain.pc # "update" /\ spent'.cut = spent.cut
               \/ inst' = inst /\ drain.pc = "update" /\ spent'.cut = spent.cut + 1
<1>0. drain \in DrainRecord /\ spent \in [crash : Nat, fault : Nat, postpone : Nat, cut : Nat]
  BY DEF TypeOK
<1> DEFINE Kept == surfaced' = surfaced /\ expired' = expired
           Same == drain' = drain /\ spent'.cut = spent.cut
           Free == inst' = inst /\ drain.pc # "update" /\ spent'.cut = spent.cut
           Cut  == inst' = inst /\ drain.pc = "update" /\ spent'.cut = spent.cut + 1
<1>1. CASE DrainStep
  <2>1. AppendFeedback \/ (AdvanceInstance /\ Kept /\ spent' = spent) \/ (Kept /\ Free)
    BY <1>1 DEF DrainStep, StartDrain, SkipInstance, Decide, AdvanceInstance, FinishSweep,
                EmitDraft, EmitStale, EndDrain, store
  <2>. QED BY <2>1
<1>2. CASE ServeStep
  <2>1. Kept /\ drain' = drain /\ spent' = spent
    BY <1>2, ZenonT(60) DEF ServeStep, Arm, ReadForExit, ExitInstance, SetStage, Postpone,
                            ResolveReview, store
  <2>. QED BY <2>1
<1>3. CASE Request
  <2>1. Kept /\ drain' = drain
    BY <1>3 DEF Request, Enroll, RequestReview, RequestExit, RequestPostpone, CreateVersion,
                store
  <2>2. spent'.cut = spent.cut
    BY <1>0, <1>3 DEF Request, Enroll, RequestReview, RequestExit, RequestPostpone,
                      CreateVersion, store
  <2>. QED BY <2>1, <2>2
<1>4. CASE Failure
  <2>1. ASSUME NEW i \in Items, DraftFails(i)
        PROVE  Kept /\ Free
    BY <1>0, <2>1 DEF DraftFails, Fault, store
  <2>2. CASE FailRequest
    BY <1>0, <2>2 DEF FailRequest, Fault, store
  <2>3. CASE AbortDrain \/ Crash
    <3>1. Kept /\ inst' = inst /\ spent'.cut = spent.cut + HalfFired
      BY <1>0, <2>3 DEF AbortDrain, Crash, store
    <3>2. CASE drain.pc = "update"
      BY <3>1, <3>2 DEF HalfFired
    <3>3. CASE drain.pc # "update"
      BY <1>0, <3>1, <3>3 DEF HalfFired
    <3>. QED BY <3>2, <3>3
  <2>. QED BY <1>4, <2>1, <2>2, <2>3 DEF Failure
<1>5. CASE Launch \/ Tick \/ UNCHANGED vars
  BY <1>5 DEF Launch, Tick, vars, store
<1>. QED BY <1>1, <1>2, <1>3, <1>4, <1>5 DEF Next

-----------------------------------------------------------------------------
(* How often a step is drafted *)

\* The row that is being drained, between the two writes of fire_step.
Appended(i) == drain.pc = "update" /\ drain.cur = i

\* A step that may still fire was recorded only by drains that were cut off,
\* and by the one that is between its two writes; a step that fired once more.
CountOf(i) ==
  /\ \A k \in Steps :
       /\ surfaced[i][k] <= spent.cut + 1
       /\ CanFire(i, k) /\ surfaced[i][k] > spent.cut =>
            Appended(i) /\ Verdict(i).kind = "fire" /\ Verdict(i).step = k
  /\ expired[i] <= spent.cut + 1
  /\ CanLapse(i) /\ expired[i] > spent.cut =>
       Appended(i) /\ Verdict(i).kind = "attention"

CountInv == \A i \in Items : CountOf(i)

\* The second drain of a step starts only after the first was cut off.
LEMMA CountStep == ~TickerOn /\ TypeOK /\ FreshInv /\ CountInv /\ [Next]_vars => CountInv'
<1> SUFFICES ASSUME TypeOK, FreshInv, CountInv, [Next]_vars, NEW i \in Items
             PROVE  CountOf(i)'
  BY DEF CountInv
<1>0. /\ spent.cut \in Nat /\ expired[i] \in Nat /\ \A k \in Steps : surfaced[i][k] \in Nat
      /\ drain \in DrainRecord /\ CountOf(i)
  BY DEF TypeOK, CountInv
<1>1. /\ \A k \in Steps : CanFire(i, k)' => CanFire(i, k)
      /\ CanLapse(i)' => CanLapse(i)
  BY CanFireShrinks
<1>2. CASE AppendFeedback
  <2>1. /\ drain.pc = "append" /\ drain'.pc = "update" /\ drain'.cur = drain.cur
        /\ drain'.snap = drain.snap /\ drain'.at = drain.at
        /\ inst' = inst /\ spent' = spent /\ drain.cur \in Items
    BY <1>0, <1>2 DEF AppendFeedback, DrainRecord
  <2>2. Verdict(i)' = Verdict(i)
    BY <2>1 DEF Verdict
  <2>3. /\ surfaced \in [Items -> [Steps -> Nat]] /\ expired \in [Items -> Nat]
        /\ Verdict(drain.cur).kind \in {"attention", "fire"}
        /\ Verdict(drain.cur).step \in Steps
        /\ inst[drain.cur].status \in Selectable
        /\ Verdict(drain.cur).step >= inst[drain.cur].cursor
    <3>1. Verdict(drain.cur).kind # "nothing" /\ inst[drain.cur].status \in Selectable
          /\ drain.snap[drain.cur] = inst[drain.cur]
      BY <2>1 DEF FreshInv, SweepIsFresh
    <3>. QED BY <2>1, <3>1, VerdictType DEF TypeOK
  <2>4. CASE i # drain.cur
    <3>1. surfaced'[i] = surfaced[i] /\ expired'[i] = expired[i]
      BY <1>2, <2>3, <2>4 DEF AppendFeedback
    <3>. QED BY <1>0, <2>1, <2>4, <3>1 DEF CountOf, CanFire, CanLapse, Appended
  <2>5. CASE i = drain.cur /\ Verdict(i).kind = "fire"
    <3> DEFINE f == Verdict(i).step
    <3>1. /\ f \in Steps /\ CanFire(i, f)
          /\ expired' = expired
          /\ surfaced' = [surfaced EXCEPT ![i][f] = @ + 1]
      BY <1>2, <2>3, <2>5 DEF AppendFeedback, CanFire
    <3> HIDE DEF f
    <3>2. /\ surfaced'[i][f] = surfaced[i][f] + 1
          /\ \A k \in Steps : k # f => surfaced'[i][k] = surfaced[i][k]
      BY <2>3, <3>1
    <3>3. surfaced[i][f] <= spent.cut
      BY <1>0, <2>1, <3>1 DEF CountOf, Appended
    <3>4. \A k \in Steps : CanFire(i, k) /\ k # f => surfaced'[i][k] <= spent.cut
      BY <1>0, <2>1, <3>1, <3>2 DEF CountOf, Appended
    <3>5. CanLapse(i) => expired'[i] <= spent.cut
      BY <1>0, <2>1, <3>1 DEF CountOf, Appended
    <3>6. Appended(i)' /\ Verdict(i)'.kind = "fire" /\ Verdict(i)'.step = f
      BY <2>1, <2>2, <2>5 DEF Appended, f
    <3>7. \A k \in Steps : surfaced'[i][k] <= spent.cut + 1
      BY <1>0, <3>1, <3>2, <3>3 DEF CountOf
    <3>8. expired'[i] <= spent.cut + 1
      BY <1>0, <3>1 DEF CountOf
    <3>9. \A k \in Steps : CanFire(i, k)' => CanFire(i, k)
      BY <1>1
    <3>10. \A k \in Steps : surfaced'[i][k] \in Nat
      BY <1>0, <3>1, <3>2
    <3>. QED BY <1>0, <1>1, <2>1, <3>1, <3>4, <3>5, <3>6, <3>7, <3>8, <3>10 DEF CountOf
  <2>6. CASE i = drain.cur /\ Verdict(i).kind = "attention"
    <3>1. surfaced' = surfaced /\ expired' = [expired EXCEPT ![i] = @ + 1]
      BY <1>2, <2>6 DEF AppendFeedback
    <3>2. expired'[i] = expired[i] + 1
      BY <2>3, <3>1
    <3>3. CanLapse(i)
      BY <2>3, <2>6 DEF CanLapse
    <3>4. expired[i] <= spent.cut
      BY <1>0, <2>1, <3>3 DEF CountOf, Appended
    <3>5. \A k \in Steps : CanFire(i, k) => surfaced[i][k] <= spent.cut
      BY <1>0, <2>1 DEF CountOf, Appended
    <3>6. Appended(i)' /\ Verdict(i)'.kind = "attention"
      BY <2>1, <2>2, <2>6 DEF Appended
    <3>. QED BY <1>0, <1>1, <2>1, <3>1, <3>2, <3>4, <3>5, <3>6 DEF CountOf
  <2>. QED BY <2>3, <2>4, <2>5, <2>6
<1>3. CASE AdvanceInstance /\ surfaced' = surfaced /\ expired' = expired /\ spent' = spent
  <2>1. drain.pc = "update"
    BY <1>3 DEF AdvanceInstance
  <2>2. ASSUME NEW k \in Steps, CanFire(i, k)'
        PROVE  surfaced[i][k] <= spent.cut
    <3>1. CanFire(i, k) /\ ~(Appended(i) /\ Verdict(i).kind = "fire" /\ Verdict(i).step = k)
      BY <1>1, <1>3, <2>2, CanFireShrinks DEF Appended
    <3>. QED BY <1>0, <3>1 DEF CountOf
  <2>3. CanLapse(i)' => expired[i] <= spent.cut
    <3>1. CanLapse(i)' => CanLapse(i) /\ ~(Appended(i) /\ Verdict(i).kind = "attention")
      BY <1>1, <1>3, CanFireShrinks DEF Appended
    <3>. QED BY <1>0, <3>1 DEF CountOf
  <2>. QED BY <1>0, <1>3, <2>2, <2>3 DEF CountOf
<1>4. CASE /\ surfaced' = surfaced /\ expired' = expired
           /\ drain' = drain /\ spent'.cut = spent.cut
  <2>1. Verdict(i)' = Verdict(i) /\ (Appended(i)' <=> Appended(i))
    BY <1>4 DEF Verdict, Appended
  <2>. QED BY <1>0, <1>1, <1>4, <2>1 DEF CountOf
<1>5. CASE /\ surfaced' = surfaced /\ expired' = expired /\ inst' = inst
           /\ drain.pc # "update" /\ spent'.cut = spent.cut
  <2>1. ~Appended(i)
    BY <1>5 DEF Appended
  <2>. QED BY <1>0, <1>1, <1>5, <2>1 DEF CountOf
<1>6. CASE /\ surfaced' = surfaced /\ expired' = expired /\ inst' = inst
           /\ drain.pc = "update" /\ spent'.cut = spent.cut + 1
  <2>1. /\ \A k \in Steps : surfaced[i][k] <= spent'.cut
        /\ expired[i] <= spent'.cut
    BY <1>0, <1>6 DEF CountOf
  <2>. QED BY <1>0, <1>6, <2>1 DEF CountOf
<1>. QED BY <1>2, <1>3, <1>4, <1>5, <1>6, HistoryFrame

\* Without the worker thread a step is drafted and recorded once, plus once
\* for every drain that a crash or a failed call cut off between the two
\* writes of fire_step: relaunches, reviews, postponements and every other
\* failure add none, and the same holds of the expired rows.
THEOREM StepsAreDraftedOnce ==
  ASSUME ~TickerOn
  PROVE  Spec => []OneDraftPerStep
<1>1. Init => CountInv
  <2>1. \A x \in {0} : x <= 0 + 1 /\ ~(x > 0)
    OBVIOUS
  <2>. QED BY <2>1 DEF Init, CountInv, CountOf
<1>2. TypeOK /\ FreshInv /\ CountInv /\ [Next]_vars => CountInv'
  BY CountStep
<1>3. TypeOK /\ CountInv => OneDraftPerStep
  <2>1. \A x, y \in Nat : x <= y + 1 => x <= 1 + y
    OBVIOUS
  <2>. QED BY <2>1 DEF TypeOK, CountInv, CountOf, OneDraftPerStep
<1>. QED BY <1>1, <1>2, <1>3, TypeCorrect, FreshInvariant, PTL DEF Spec

-----------------------------------------------------------------------------
(* How often the user is told *)

\* A step that may still fire was never announced, and a draft in the report
\* is announced for the first time.
ToldOf(i) ==
  \A k \in Steps :
    /\ shown[i][k] <= 1
    /\ CanFire(i, k) => shown[i][k] = 0 /\ <<i, k>> \notin drain.fired
    /\ <<i, k>> \in drain.fired => shown[i][k] = 0

ToldInv == \A i \in Items : ToldOf(i)

\* Who announces a draft, and who puts one in the report.
LEMMA ToldFrame ==
  ASSUME TypeOK, [Next]_vars
  PROVE  \/ \E i \in Items, k \in Steps : EmitDraft(i, k)
         \/ shown' = shown /\ AdvanceInstance
         \/ shown' = shown /\ drain'.fired \subseteq drain.fired
<1>0. drain \in DrainRecord
  BY DEF TypeOK
<1>1. CASE DrainStep
  <2>1. ASSUME NEW i \in Items, SkipInstance(i) \/ Decide(i) \/ EmitStale(i)
        PROVE  shown' = shown /\ drain'.fired = drain.fired
    BY <1>0, <2>1 DEF SkipInstance, Decide, EmitStale, DrainRecord
  <2>2. CASE StartDrain \/ EndDrain
    <3>1. drain'.fired = DrainIdle.fired /\ shown' = shown
      BY <2>2, IdleType DEF StartDrain, EndDrain, LeaveDrain, DrainRecord
    <3>. QED BY <3>1 DEF DrainIdle
  <2>3. CASE AppendFeedback \/ FinishSweep
    BY <1>0, <2>3 DEF AppendFeedback, FinishSweep, DrainRecord
  <2>4. CASE AdvanceInstance
    BY <2>4 DEF AdvanceInstance
  <2>. QED BY <1>1, <2>1, <2>2, <2>3, <2>4 DEF DrainStep
<1>2. CASE ServeStep
  <2>1. shown' = shown /\ drain' = drain
    BY <1>2, ZenonT(60) DEF ServeStep, Arm, ReadForExit, ExitInstance, SetStage, Postpone,
                            ResolveReview, store
  <2>. QED BY <2>1
<1>3. CASE Request
  BY <1>3 DEF Request, Enroll, RequestReview, RequestExit, RequestPostpone, CreateVersion,
              store
<1>4. CASE Failure
  BY <1>0, <1>4 DEF Failure, DraftFails, AbortDrain, LeaveDrain, FailRequest, Crash, DrainIdle,
                    DrainRecord, store
<1>5. CASE Launch \/ Tick \/ UNCHANGED vars
  BY <1>5 DEF Launch, Tick, vars, store
<1>. QED BY <1>1, <1>2, <1>3, <1>4, <1>5 DEF Next

\* A step enters the report as it stops being fireable.
LEMMA ToldStep == TypeOK /\ FreshInv /\ ToldInv /\ [Next]_vars => ToldInv'
<1> SUFFICES ASSUME TypeOK, FreshInv, ToldInv, [Next]_vars,
                    NEW i \in Items, NEW k \in Steps
             PROVE  /\ shown'[i][k] <= 1
                    /\ CanFire(i, k)' => shown'[i][k] = 0 /\ <<i, k>> \notin drain'.fired
                    /\ <<i, k>> \in drain'.fired => shown'[i][k] = 0
  BY DEF ToldInv, ToldOf
<1>0. /\ shown \in [Items -> [Steps -> Nat]] /\ drain \in DrainRecord
      /\ shown[i][k] <= 1
      /\ CanFire(i, k) => shown[i][k] = 0 /\ <<i, k>> \notin drain.fired
      /\ <<i, k>> \in drain.fired => shown[i][k] = 0
  BY DEF TypeOK, ToldInv, ToldOf
<1>1. CanFire(i, k)' => CanFire(i, k)
  BY CanFireShrinks
<1>2. ASSUME NEW j \in Items, NEW l \in Steps, EmitDraft(j, l)
      PROVE  /\ shown'[i][k] <= 1
             /\ CanFire(i, k)' => shown'[i][k] = 0 /\ <<i, k>> \notin drain'.fired
             /\ <<i, k>> \in drain'.fired => shown'[i][k] = 0
  <2>1. /\ <<j, l>> \in drain.fired /\ drain'.fired = drain.fired \ {<<j, l>>}
        /\ shown' = [shown EXCEPT ![j][l] = @ + 1]
    BY <1>0, <1>2 DEF EmitDraft, DrainRecord
  <2>2. CASE i = j /\ k = l
    <3>1. shown'[i][k] = shown[i][k] + 1 /\ shown[i][k] = 0
      BY <1>0, <2>1, <2>2
    <3>. QED BY <1>0, <1>1, <2>1, <2>2, <3>1
  <2>3. CASE ~(i = j /\ k = l)
    <3>1. shown'[i][k] = shown[i][k]
      BY <1>0, <2>1, <2>3
    <3>. QED BY <1>0, <1>1, <2>1, <3>1
  <2>. QED BY <2>2, <2>3
<1>3. CASE shown' = shown /\ AdvanceInstance
  <2>1. drain'.fired = IF Verdict(drain.cur).kind = "fire"
                       THEN drain.fired \cup {<<drain.cur, Verdict(drain.cur).step>>}
                       ELSE drain.fired
    BY <1>0, <1>3 DEF AdvanceInstance, DrainRecord
  <2>2. CASE Verdict(drain.cur).kind = "fire" /\ i = drain.cur /\ k = Verdict(drain.cur).step
    <3>1. CanFire(i, k) /\ ~CanFire(i, k)'
      BY <1>3, <2>2, CanFireShrinks
    <3>. QED BY <1>0, <1>3, <3>1
  <2>3. CASE ~(Verdict(drain.cur).kind = "fire" /\ i = drain.cur
                 /\ k = Verdict(drain.cur).step)
    <3>1. <<i, k>> \in drain'.fired => <<i, k>> \in drain.fired
      BY <2>1, <2>3
    <3>. QED BY <1>0, <1>1, <1>3, <3>1
  <2>. QED BY <2>2, <2>3
<1>4. CASE shown' = shown /\ drain'.fired \subseteq drain.fired
  BY <1>0, <1>1, <1>4
<1>. QED BY <1>2, <1>3, <1>4, ToldFrame

\* Without the worker thread the user is told of a step's draft once at most,
\* over every crash, failed sweep and relaunch: a step whose draft was cut off
\* is drafted again, but only a finished sweep announces it, and that one ends
\* the step.
THEOREM StepsAreAnnouncedOnce ==
  ASSUME ~TickerOn
  PROVE  Spec => []ShownAtMostOnce
<1>1. Init => ToldInv
  <2>1. 0 <= 1
    OBVIOUS
  <2>. QED BY <2>1 DEF Init, ToldInv, ToldOf, DrainIdle
<1>2. ToldInv => ShownAtMostOnce
  BY DEF ToldInv, ToldOf, ShownAtMostOnce
<1>. QED BY <1>1, <1>2, ToldStep, TypeCorrect, FreshInvariant, PTL DEF Spec

-----------------------------------------------------------------------------
(* No step is passed over in silence *)

\* What the formula asks of a step k of item i that the cursor passes.
Accounted(i, k) ==
  LET c      == Content[inst[i].pin]
      due(j) == DueAt(c, inst[i].anchor, j)
      at     == inst'[i].cursor
  IN  \/ surfaced[i][k] >= 1
      \/ /\ inst'[i].status = "awaiting_review" /\ surfaced[i][at] >= 1
         /\ due(k) <= drain.at /\ due(at) <= drain.at
         /\ drain.at < due(at) + (c.horizon + 1) * Day

\* A delay of no more whole days than the horizon ends before the next day.
LEMMA WholeDaysBound ==
  ASSUME NEW t \in Nat, NEW earlier \in Nat, NEW h \in Nat, WholeDaysSince(t, earlier) <= h
  PROVE  t < earlier + (h + 1) * Day
<1>1. Day \in Nat \ {0}
  BY CadenceAssumption
<1> DEFINE q == (t - earlier) \div Day
<1>2. q \in Int /\ t - earlier < q * Day + Day
  BY <1>1
<1>3. q <= h
  BY DEF WholeDaysSince
<1> HIDE DEF q
<1>4. q * Day <= h * Day
  BY <1>1, <1>2, <1>3
<1>5. (h + 1) * Day = h * Day + Day /\ h * Day \in Int /\ q * Day \in Int
  BY <1>1, <1>2
<1>. QED BY <1>1, <1>2, <1>4, <1>5

\* A fired step was due, and overdue by no more whole days than the horizon.
LEMMA FiredIsFresh ==
  ASSUME NEW c, WellFormed(c), NEW anchor \in Nat, NEW cursor \in Nat, NEW t \in Nat,
         EvaluateDue(c, anchor, cursor, t).kind = "fire",
         NEW s, s = EvaluateDue(c, anchor, cursor, t).step
  PROVE  /\ s \in DOMAIN c.offset /\ DueAt(c, anchor, s) <= t
         /\ t < DueAt(c, anchor, s) + (c.horizon + 1) * Day
<1>1. s \in FreshSteps(c, anchor, cursor, t)
  BY EvaluateDueType
<1>2. /\ s \in DOMAIN c.offset /\ DueAt(c, anchor, s) <= t
      /\ WholeDaysSince(t, DueAt(c, anchor, s)) <= c.horizon
  BY <1>1 DEF FreshSteps, DueSteps, Ahead
<1>3. c.offset[s] \in Nat /\ c.horizon \in Nat /\ Day \in Nat
  BY <1>2, CadenceAssumption DEF WellFormed
<1>4. DueAt(c, anchor, s) \in Nat
  BY <1>3 DEF DueAt
<1>. QED BY <1>2, <1>3, <1>4, WholeDaysBound

\* The earlier of two steps of a cadence in order is due no later.
LEMMA EarlierIsDueFirst ==
  ASSUME NEW c, WellFormed(c), InOrder(c), NEW anchor \in Nat,
         NEW k \in DOMAIN c.offset, NEW s \in DOMAIN c.offset, k < s
  PROVE  DueAt(c, anchor, k) <= DueAt(c, anchor, s)
<1>1. /\ c.offset[k] \in Nat /\ c.offset[s] \in Nat /\ Day \in Nat
      /\ c.offset[k] <= c.offset[s]
  BY CadenceAssumption DEF WellFormed, InOrder
<1>2. c.offset[k] * Day <= c.offset[s] * Day
  BY <1>1
<1>3. c.offset[k] * Day \in Int /\ c.offset[s] * Day \in Int
  BY <1>1
<1>. QED BY <1>2, <1>3 DEF DueAt

\* The cursor of a row moves on to the step that was just recorded, or past
\* the one that was reviewed.
LEMMA SkipStep ==
  ASSUME TypeOK, FreshInv, RecordInv, [Next]_vars, NEW i \in Items, NEW k \in Steps,
         InOrder(Content[inst[i].pin]), k \in DOMAIN Content[inst[i].pin].offset,
         inst[i].cursor <= k, k < inst'[i].cursor
  PROVE  Accounted(i, k)
<1>0. /\ inst[i].cursor \in Nat /\ inst[i].pin \in Versions /\ inst[i].anchor \in Nat
      /\ k \in Nat /\ Steps \subseteq Nat /\ drain.at \in Nat
      /\ drain.cur \in Items /\ serve.cur \in Items
  BY StepsAreNatural DEF TypeOK, Instance, DrainRecord, ServeRecord
<1>1. CASE AdvanceInstance /\ i = drain.cur
  <2> DEFINE c == Content[inst[i].pin]
             s == inst'[i].cursor
  <2>1. WellFormed(c)
    BY <1>0, ContentType
  <2>2. /\ drain.pc = "update"
        /\ Verdict(i).kind = "fire" /\ s = Verdict(i).step /\ s \in Steps
        /\ inst'[i].status = "awaiting_review"
    <3>1. IF Verdict(i).kind = "fire"
          THEN /\ inst'[i].status = "awaiting_review"
               /\ s = Verdict(i).step /\ s \in Steps
          ELSE s = inst[i].cursor
      BY <1>1, AdvanceType, WritesAreFresh
    <3>2. CASE Verdict(i).kind = "fire"
      BY <1>1, <3>1, <3>2 DEF AdvanceInstance
    <3>3. CASE Verdict(i).kind # "fire"
      BY <1>0, <3>1, <3>3
    <3>. QED BY <3>2, <3>3
  <2>3. Verdict(i) = EvaluateDue(c, inst[i].anchor, inst[i].cursor, drain.at)
    BY <1>1, WritesAreFresh DEF Verdict
  <2>4. surfaced[i][s] >= 1
    <3>1. surfaced[i][Verdict(i).step] \in Nat /\ shown[i][Verdict(i).step] \in Nat
      BY <2>2 DEF TypeOK
    <3>2. surfaced[i][Verdict(i).step] >= 1
      BY <1>1, <2>2, <3>1 DEF RecordInv, AppendedIsRecorded
    <3>. QED BY <2>2, <3>2
  <2> HIDE DEF c, s
  <2>5. /\ s \in DOMAIN c.offset /\ DueAt(c, inst[i].anchor, s) <= drain.at
        /\ drain.at < DueAt(c, inst[i].anchor, s) + (c.horizon + 1) * Day
    BY <1>0, <2>1, <2>2, <2>3, FiredIsFresh
  <2>6. DueAt(c, inst[i].anchor, k) <= DueAt(c, inst[i].anchor, s)
    <3>1. k \in DOMAIN c.offset /\ k < s /\ InOrder(c)
      BY DEF c, s
    <3>. QED BY <1>0, <2>1, <2>5, <3>1, EarlierIsDueFirst
  <2>7. DueAt(c, inst[i].anchor, k) <= drain.at
    <3>1. k \in DOMAIN c.offset
      BY DEF c
    <3>2. c.offset[k] \in Nat /\ c.offset[s] \in Nat /\ Day \in Nat
      BY <2>1, <2>5, <3>1, CadenceAssumption DEF WellFormed
    <3>3. DueAt(c, inst[i].anchor, k) \in Int /\ DueAt(c, inst[i].anchor, s) \in Int
      BY <1>0, <3>2 DEF DueAt
    <3>. QED BY <1>0, <2>5, <2>6, <3>3
  <2>. QED BY <2>2, <2>4, <2>5, <2>7 DEF Accounted, c, s
<1>2. CASE Arm /\ i = serve.cur
  BY <1>0, <1>2, ArmType
<1>3. CASE (ExitInstance \/ Postpone) /\ i = serve.cur
  BY <1>0, <1>3, RequestWriteType, WritesAreFresh
<1>4. CASE ResolveReview /\ i = serve.cur
  <2>1. /\ inst[i].status = "awaiting_review"
        /\ inst'[i].cursor = inst[i].cursor + 1
    BY <1>4, WritesAreFresh, RequestWriteType, NextStepType
  <2>2. surfaced[i][inst[i].cursor] >= 1
    BY <2>1 DEF RecordInv, AwaitingIsRecorded
  <2>3. inst[i].cursor = k
    BY <1>0, <2>1
  <2>. QED BY <2>2, <2>3 DEF Accounted
<1>5. CASE inst'[i] = inst[i]
  BY <1>0, <1>5
<1>6. \/ AdvanceInstance /\ i = drain.cur
      \/ (Arm \/ ExitInstance \/ Postpone \/ ResolveReview) /\ i = serve.cur
      \/ inst'[i] = inst[i]
  BY RowWriters, AdvanceType, ArmType, RequestWriteType
<1>. QED BY <1>1, <1>2, <1>3, <1>4, <1>5, <1>6

\* Without the worker thread no step is passed over in silence, whatever the
\* cadences, bounds and interleavings of requests, crashes and failed calls: a
\* step the cursor passes was drafted itself, or was due and is folded into a
\* step on record that was due too and within the horizon.
THEOREM NoStepIsSkippedSilently ==
  ASSUME ~TickerOn
  PROVE  Spec => NoSilentSkip
<1>1. TypeOK /\ FreshInv /\ RecordInv /\ [Next]_vars =>
        [\A i \in Items, k \in Steps :
           LET c      == Content[inst[i].pin]
               due(j) == DueAt(c, inst[i].anchor, j)
               at     == inst'[i].cursor
           IN  /\ InOrder(c) /\ k \in DOMAIN c.offset
               /\ inst[i].cursor <= k /\ k < at
               => \/ surfaced[i][k] >= 1
                  \/ /\ inst'[i].status = "awaiting_review" /\ surfaced[i][at] >= 1
                     /\ due(k) <= drain.at /\ due(at) <= drain.at
                     /\ drain.at < due(at) + (c.horizon + 1) * Day]_vars
  BY SkipStep DEF Accounted
<1>. QED BY <1>1, TypeCorrect, FreshInvariant, RecordInvariant, PTL DEF Spec, NoSilentSkip

-----------------------------------------------------------------------------
(* What the launch drain leaves armed *)

NothingIsDue(i) ==
  DueSteps(Content[inst[i].pin], inst[i].anchor, inst[i].cursor, drain.at) = {}

\* A row that was due when the sweep began is still to be looked at, unless no
\* step of it is due or a call of this run has failed.
SweepCovers ==
  /\ drain.pc # "idle" /\ spent.fault = 0 =>
       \A i \in Items : inst[i].status \in Selectable /\ inst[i].due <= drain.at =>
         i \in drain.todo \/ NothingIsDue(i)
  /\ drain.pc = "emit" => drain.todo = {}

\* The steps of a sweep that no call has failed so far.
LEMMA SweepFrame ==
  ASSUME TypeOK, FreshInv, [Next]_vars, drain'.pc # "idle"
  PROVE  /\ spent'.fault = 0 => spent.fault = 0
         /\ \/ StartDrain
            \/ \E i \in Items : SkipInstance(i)
            \/ \E i \in Items : DraftFails(i)
            \/ AdvanceInstance
            \/ FinishSweep
            \/ /\ drain.pc # "idle" /\ inst' = inst
               /\ drain'.todo = drain.todo /\ drain'.at = drain.at
               /\ drain'.pc = "emit" => drain.pc = "emit"
<1>0. /\ drain \in DrainRecord
      /\ spent \in [crash : Nat, fault : Nat, postpone : Nat, cut : Nat]
  BY DEF TypeOK
<1> DEFINE Kept == /\ drain.pc # "idle" /\ inst' = inst
                   /\ drain'.todo = drain.todo /\ drain'.at = drain.at
                   /\ drain'.pc = "emit" => drain.pc = "emit"
<1>1. CASE DrainStep
  <2>1. spent' = spent
    BY <1>1 DEF DrainStep, StartDrain, SkipInstance, Decide, AppendFeedback, AdvanceInstance,
                FinishSweep, EmitDraft, EmitStale, EndDrain
  <2>2. ASSUME NEW i \in Items, Decide(i) \/ EmitStale(i)
        PROVE  Kept
    BY <1>0, <2>2 DEF Decide, EmitStale, DrainRecord, store
  <2>3. ASSUME NEW i \in Items, NEW k \in Steps, EmitDraft(i, k)
        PROVE  Kept
    BY <1>0, <2>3 DEF EmitDraft, DrainRecord, store
  <2>4. CASE AppendFeedback
    BY <1>0, <2>4 DEF AppendFeedback, DrainRecord
  <2>5. ~EndDrain
    BY DEF EndDrain, LeaveDrain, DrainIdle
  <2>. QED BY <1>1, <2>1, <2>2, <2>3, <2>4, <2>5 DEF DrainStep
<1>2. CASE drain' = drain /\ ~DrainStep
  <2>1. serve.pc = "idle"
    BY <1>2 DEF FreshInv, OneThreadAtATime
  <2>2. inst' = inst
    BY <1>2, <2>1, RowWriters DEF DrainStep, Arm, ExitInstance, Postpone, ResolveReview
  <2>3. spent'.fault = 0 => spent.fault = 0
    <3>1. \A x \in Nat : x + 1 # 0
      OBVIOUS
    <3>2. spent'.fault = spent.fault \/ spent'.fault = spent.fault + 1
      <4>1. CASE ServeStep
        <5>1. spent' = spent
          BY <4>1, ZenonT(60) DEF ServeStep, Arm, ReadForExit, ExitInstance, SetStage,
                                  Postpone, ResolveReview
        <5>. QED BY <5>1
      <4>2. CASE Request
        BY <1>0, <4>2 DEF Request, Enroll, RequestReview, RequestExit, RequestPostpone,
                          CreateVersion
      <4>3. CASE Failure
        BY <1>0, <4>3 DEF Failure, DraftFails, AbortDrain, FailRequest, Crash, Fault
      <4>4. CASE Launch \/ Tick \/ UNCHANGED vars
        BY <4>4 DEF Launch, Tick, vars
      <4>. QED BY <1>2, <4>1, <4>2, <4>3, <4>4 DEF Next
    <3>. QED BY <1>0, <3>1, <3>2
  <2>. QED BY <1>2, <2>2, <2>3
<1>3. ASSUME NEW i \in Items, DraftFails(i)
      PROVE  spent'.fault # 0
  <2>1. spent'.fault = spent.fault + 1
    BY <1>0, <1>3 DEF DraftFails, Fault
  <2>. QED BY <1>0, <2>1
<1>4. DrainStep \/ (drain' = drain /\ ~DrainStep) \/ \E i \in Items : DraftFails(i)
  <2>1. CASE ServeStep
    <3>1. drain' = drain
      BY <2>1, ZenonT(60) DEF ServeStep, Arm, ReadForExit, ExitInstance, SetStage, Postpone,
                              ResolveReview
    <3>. QED BY <3>1
  <2>2. CASE Request
    BY <2>2 DEF Request, Enroll, RequestReview, RequestExit, RequestPostpone, CreateVersion
  <2>3. CASE Failure
    BY <2>3 DEF Failure, AbortDrain, LeaveDrain, FailRequest, Crash, DrainIdle
  <2>4. CASE Launch \/ Tick \/ UNCHANGED vars
    BY <2>4 DEF Launch, Tick, vars
  <2>. QED BY <2>1, <2>2, <2>3, <2>4 DEF Next
<1>. QED BY <1>1, <1>2, <1>3, <1>4

\* A row leaves the sweep's list once nothing of it is due, or written.
LEMMA SweepCoversStep ==
  TypeOK /\ DueIffSelectable /\ FreshInv /\ SweepCovers /\ [Next]_vars => SweepCovers'
<1> SUFFICES ASSUME TypeOK, DueIffSelectable, FreshInv, SweepCovers, [Next]_vars,
                    drain'.pc # "idle"
             PROVE  SweepCovers'
  BY DEF SweepCovers
<1>0. /\ drain \in DrainRecord
      /\ spent'.fault = 0 => spent.fault = 0
  BY SweepFrame DEF TypeOK
<1>1. CASE StartDrain
  <2>1. /\ drain'.pc = "sweep" /\ drain'.at = now /\ drain'.todo = ListDue /\ inst' = inst
    BY <1>1, IdleType DEF StartDrain, DrainRecord, store
  <2>2. \A i \in Items : inst[i].status \in Selectable /\ inst[i].due <= now => i \in ListDue
    BY DEF ListDue, DueIffSelectable
  <2>. QED BY <2>1, <2>2 DEF SweepCovers
<1>2. ASSUME NEW i \in Items, SkipInstance(i)
      PROVE  SweepCovers'
  <2>1. /\ drain.pc = "sweep" /\ drain'.pc = "sweep" /\ drain'.at = drain.at
        /\ drain'.todo = drain.todo \ {i} /\ i \in drain.todo /\ inst' = inst
        /\ Verdict(i).kind = "nothing"
    BY <1>0, <1>2 DEF SkipInstance, Front, DrainRecord, store
  <2>2. drain.snap[i] = inst[i]
    BY <2>1 DEF FreshInv, SweepIsFresh
  <2>3. NothingIsDue(i)
    <3>1. /\ inst[i].pin \in Versions /\ inst[i].anchor \in Nat /\ inst[i].cursor \in Nat
          /\ drain.at \in Nat
      BY <1>0 DEF TypeOK, Instance, DrainRecord
    <3>2. WellFormed(Content[inst[i].pin])
      BY <3>1, ContentType
    <3>. QED BY <2>1, <2>2, <3>1, <3>2, EvaluateDueType DEF Verdict, NothingIsDue
  <2>4. \A j \in Items : NothingIsDue(j)' <=> NothingIsDue(j)
    BY <2>1 DEF NothingIsDue
  <2>. QED BY <1>0, <2>1, <2>3, <2>4 DEF SweepCovers
<1>3. ASSUME NEW i \in Items, DraftFails(i)
      PROVE  SweepCovers'
  <2>1. spent'.fault = spent.fault + 1 /\ spent.fault \in Nat
    BY <1>3 DEF DraftFails, Fault, TypeOK
  <2>2. drain'.pc = drain.pc /\ drain.pc = "sweep"
    BY <1>0, <1>3 DEF DraftFails, DrainRecord
  <2>3. spent'.fault # 0
    BY <2>1
  <2>. QED BY <2>2, <2>3 DEF SweepCovers
<1>4. CASE AdvanceInstance
  <2>1. /\ drain.pc = "update" /\ drain'.pc = "sweep" /\ drain'.at = drain.at
        /\ drain'.todo = drain.todo \ {drain.cur}
    BY <1>0, <1>4 DEF AdvanceInstance, DrainRecord
  <2>2. /\ \A j \in Items : j # drain.cur => inst'[j] = inst[j]
        /\ inst'[drain.cur].status \in {"awaiting_review", "needs_attention"}
    BY <1>4, AdvanceType
  <2>3. \A j \in Items : j # drain.cur => (NothingIsDue(j)' <=> NothingIsDue(j))
    BY <2>1, <2>2 DEF NothingIsDue
  <2>. QED BY <1>0, <2>1, <2>2, <2>3 DEF SweepCovers, Selectable
<1>5. CASE FinishSweep
  <2>1. /\ drain.pc = "sweep" /\ drain.todo = {} /\ drain'.todo = {} /\ drain'.at = drain.at
        /\ inst' = inst
    BY <1>0, <1>5 DEF FinishSweep, DrainRecord, store
  <2>2. \A j \in Items : NothingIsDue(j)' <=> NothingIsDue(j)
    BY <2>1 DEF NothingIsDue
  <2>. QED BY <1>0, <2>1, <2>2 DEF SweepCovers
<1>6. CASE /\ drain.pc # "idle" /\ inst' = inst
           /\ drain'.todo = drain.todo /\ drain'.at = drain.at
           /\ drain'.pc = "emit" => drain.pc = "emit"
  <2>1. \A j \in Items : NothingIsDue(j)' <=> NothingIsDue(j)
    BY <1>6 DEF NothingIsDue
  <2>. QED BY <1>0, <1>6, <2>1 DEF SweepCovers
<1>. QED BY <1>1, <1>2, <1>3, <1>4, <1>5, <1>6, SweepFrame

\* The host begins to serve after the launch drain, or after one that failed.
LEMMA ServingBegins ==
  ASSUME TypeOK, [Next]_vars, host = "launching", host' = "serving", spent'.fault = 0
  PROVE  EndDrain
<1>0. spent \in [crash : Nat, fault : Nat, postpone : Nat, cut : Nat]
  BY DEF TypeOK
<1>1. CASE DrainStep
  BY <1>1 DEF DrainStep, StartDrain, SkipInstance, Decide, AppendFeedback, AdvanceInstance,
              FinishSweep, EmitDraft, EmitStale
<1>2. ~ServeStep
  <2>1. ServeStep => host' = host
    BY ZenonT(60) DEF ServeStep, Arm, ReadForExit, ExitInstance, SetStage, Postpone,
                      ResolveReview
  <2>. QED BY <2>1
<1>3. ~Request
  BY DEF Request, Enroll, RequestReview, RequestExit, RequestPostpone, CreateVersion, Ready
<1>4. ~Failure
  <2>1. ~AbortDrain
    <3>1. AbortDrain => spent'.fault = spent.fault + 1
      BY <1>0 DEF AbortDrain
    <3>. QED BY <1>0, <3>1
  <2>. QED BY <2>1 DEF Failure, DraftFails, FailRequest, Crash
<1>5. ~Launch /\ ~Tick /\ ~UNCHANGED vars
  BY DEF Launch, Tick, vars
<1>. QED BY <1>1, <1>2, <1>3, <1>4, <1>5 DEF Next

\* The catch-up guarantee, without the worker thread: when the host starts to
\* serve after a launch in which nothing failed, every sequence that was due
\* as the drain began has been drafted, has lapsed, or has no step due.
THEOREM CatchUpCoversAll ==
  ASSUME ~TickerOn
  PROVE  Spec => CatchUpIsComplete
<1>1. Init => SweepCovers
  BY DEF Init, DrainIdle, SweepCovers
<1>2. SweepCovers /\ TypeOK /\ [Next]_vars =>
        [host = "launching" /\ host' = "serving" /\ spent'.fault = 0 =>
           \A i \in Items :
             inst[i].status \in Selectable /\ inst[i].due <= drain.at =>
               DueSteps(Content[inst[i].pin], inst[i].anchor, inst[i].cursor, drain.at) = {}]_vars
  <2> SUFFICES ASSUME SweepCovers, TypeOK, [Next]_vars,
                      host = "launching", host' = "serving", spent'.fault = 0,
                      NEW i \in Items, inst[i].status \in Selectable, inst[i].due <= drain.at
               PROVE  NothingIsDue(i)
    BY DEF NothingIsDue
  <2>1. EndDrain
    BY ServingBegins
  <2>2. drain.pc = "emit" /\ spent' = spent
    BY <2>1 DEF EndDrain
  <2>. QED BY <2>2 DEF SweepCovers
<1>. QED BY <1>1, <1>2, SweepCoversStep, TypeCorrect, DueExactlyWhenArmed, FreshInvariant, PTL
         DEF Spec, CatchUpIsComplete

-----------------------------------------------------------------------------
(* What a handled reply leaves running *)

Stopped(i) == inst[i].status \in Terminal \cup {"engaged", "unarmed"}

\* While a reply is being handled, the items of its thread that are off the
\* list have no running sequence, and those on the list are all of the thread.
ReplyCovers ==
  serve.pc \in {"exit", "exit_write", "set_stage"} /\ serve.event = "reply_received" =>
    /\ \A i \in serve.todo : \A j \in Items :
         ThreadOf[j] = ThreadOf[i] => j \in serve.todo \/ Stopped(j)
    /\ \A i, j \in serve.todo : ThreadOf[j] = ThreadOf[i]
    /\ serve.pc # "exit" => serve.cur \in serve.todo
    /\ serve.pc = "set_stage" => Stopped(serve.cur)

\* The request loop reads, ends and leaves one listed item after the other.
LEMMA ReplyCoversStep == TypeOK /\ FreshInv /\ ReplyCovers /\ [Next]_vars => ReplyCovers'
<1> SUFFICES ASSUME TypeOK, FreshInv, ReplyCovers, [Next]_vars,
                    serve'.pc \in {"exit", "exit_write", "set_stage"},
                    serve'.event = "reply_received"
             PROVE  ReplyCovers'
  BY DEF ReplyCovers
<1>0. serve \in ServeRecord /\ inst \in [Items -> Instance] /\ serve.cur \in Items
  BY DEF TypeOK, ServeRecord
<1>1. ASSUME NEW i \in Items, NEW e \in Events, RequestExit(e, i)
      PROVE  ReplyCovers'
  <2>1. serve' = [ServeIdle EXCEPT !.pc = "exit", !.event = e,
                    !.todo = IF e = "reply_received"
                             THEN {j \in Items : stage[j] # "absent" /\ ThreadOf[j] = ThreadOf[i]}
                             ELSE {i}]
    BY <1>1 DEF RequestExit
  <2>2. serve'.event = e /\ serve'.pc = "exit"
    BY <2>1, IdleType DEF ServeRecord
  <2>3. serve'.todo = {j \in Items : stage[j] # "absent" /\ ThreadOf[j] = ThreadOf[i]}
    BY <2>1, <2>2, IdleType DEF ServeRecord
  <2>4. inst' = inst
    BY <1>1 DEF RequestExit, store
  <2>5. \A j \in Items : stage[j] = "absent" => Stopped(j)
    BY DEF FreshInv, UnarmedIsBlank, Stopped
  <2>. QED BY <2>2, <2>3, <2>4, <2>5 DEF ReplyCovers, Stopped
<1>2. ASSUME NEW i \in Items, ReadForExit(i)
      PROVE  ReplyCovers'
  <2>1. /\ serve.pc = "exit" /\ i \in serve.todo /\ inst' = inst
        /\ serve'.cur = i /\ serve'.todo = serve.todo /\ serve'.event = serve.event
        /\ serve'.pc = IF inst[i].status \in Terminal \cup {"unarmed"}
                       THEN "set_stage" ELSE "exit_write"
    BY <1>0, <1>2 DEF ReadForExit, ServeRecord, store
  <2>. QED BY <2>1 DEF ReplyCovers, Stopped
<1>3. CASE ExitInstance
  <2>1. /\ serve.pc = "exit_write" /\ serve'.pc = "set_stage" /\ serve'.cur = serve.cur
        /\ serve'.todo = serve.todo /\ serve'.event = serve.event
    BY <1>0, <1>3 DEF ExitInstance, ServeRecord
  <2>2. /\ \A j \in Items : j # serve.cur => inst'[j] = inst[j]
        /\ inst'[serve.cur].status = "engaged"
    BY <1>3, <2>1, RequestWriteType DEF ResultingStatus
  <2>. QED BY <2>1, <2>2 DEF ReplyCovers, Stopped
<1>4. CASE SetStage
  <2>1. /\ serve.pc = "set_stage" /\ serve.todo # {serve.cur} /\ inst' = inst
        /\ serve' = [serve EXCEPT !.pc = "exit", !.todo = @ \ {serve.cur}]
    BY <1>4 DEF SetStage, ServeIdle
  <2>2. /\ serve'.pc = "exit" /\ serve'.todo = serve.todo \ {serve.cur}
        /\ serve'.event = serve.event
    BY <1>0, <2>1 DEF ServeRecord
  <2>. QED BY <1>0, <2>1, <2>2 DEF ReplyCovers, Stopped
<1>5. CASE serve' = serve
  <2>1. drain.pc = "idle"
    BY <1>5 DEF FreshInv, OneThreadAtATime
  <2>2. inst' = inst
    <3>1. ~AdvanceInstance
      BY <2>1 DEF AdvanceInstance
    <3>2. ~Arm /\ ~Postpone /\ ~ResolveReview
      BY DEF Arm, Postpone, ResolveReview, ServeIdle
    <3>3. ~ExitInstance
      BY <1>0, <1>5 DEF ExitInstance, ServeRecord
    <3>. QED BY <3>1, <3>2, <3>3, RowWriters
  <2>. QED BY <1>5, <2>2 DEF ReplyCovers, Stopped
<1>6. \/ \E i \in Items, e \in Events : RequestExit(e, i)
      \/ \E i \in Items : ReadForExit(i)
      \/ ExitInstance \/ SetStage
      \/ serve' = serve
  <2>1. CASE DrainStep
    BY <2>1 DEF DrainStep, StartDrain, SkipInstance, Decide, AppendFeedback, AdvanceInstance,
                FinishSweep, EmitDraft, EmitStale, EndDrain
  <2>2. CASE ServeStep
    <3>1. ~Arm /\ ~Postpone /\ ~ResolveReview
      BY DEF Arm, Postpone, ResolveReview, ServeIdle
    <3>. QED BY <2>2, <3>1 DEF ServeStep
  <2>3. CASE Request
    <3>1. \A i \in Items : ~Enroll(i) /\ ~RequestReview(i)
      BY DEF Enroll, RequestReview, ServeIdle
    <3>2. \A i \in Items, t \in Times, z \in BOOLEAN : ~RequestPostpone(i, t, z)
      BY DEF RequestPostpone, ServeIdle
    <3>3. \A v \in Versions : CreateVersion(v) => serve' = serve
      BY DEF CreateVersion
    <3>. QED BY <2>3, <3>1, <3>2, <3>3 DEF Request
  <2>4. CASE Failure
    BY <2>4 DEF Failure, DraftFails, AbortDrain, FailRequest, Crash, ServeIdle
  <2>5. CASE Launch \/ Tick \/ UNCHANGED vars
    BY <2>5 DEF Launch, Tick, vars
  <2>. QED BY <2>1, <2>2, <2>3, <2>4, <2>5 DEF Next
<1>. QED BY <1>1, <1>2, <1>3, <1>4, <1>5, <1>6

\* Without the worker thread a reply that was handled to the end leaves no
\* sequence of its thread armed, awaiting review or lapsed, however many items
\* were enrolled on the thread and whatever became of them before.
THEOREM ReplyStopsItsThread ==
  ASSUME ~TickerOn
  PROVE  Spec => ReplyStopsThread
<1>1. Init => ReplyCovers
  BY DEF Init, ServeIdle, ReplyCovers
<1>2. ReplyCovers /\ TypeOK /\ [Next]_vars =>
        [serve.pc = "set_stage" /\ serve.event = "reply_received" /\ serve'.pc = "idle"
           /\ host' = "serving" /\ spent' = spent =>
           \A j \in Items : ThreadOf[j] = ThreadOf[serve.cur] =>
             inst'[j].status \in Terminal \cup {"engaged", "unarmed"}]_vars
  <2> SUFFICES ASSUME ReplyCovers, TypeOK, [Next]_vars,
                      serve.pc = "set_stage", serve.event = "reply_received",
                      serve'.pc = "idle", host' = "serving", spent' = spent,
                      NEW j \in Items, ThreadOf[j] = ThreadOf[serve.cur]
               PROVE  Stopped(j)'
    BY DEF Stopped
  <2>0. spent \in [crash : Nat, fault : Nat, postpone : Nat, cut : Nat]
    BY DEF TypeOK
  <2>1. SetStage
    <3>1. CASE DrainStep
      BY <3>1 DEF DrainStep, StartDrain, SkipInstance, Decide, AppendFeedback,
                  AdvanceInstance, FinishSweep, EmitDraft, EmitStale, EndDrain
    <3>2. CASE ServeStep
      BY <3>2 DEF ServeStep, Arm, ReadForExit, ExitInstance, Postpone, ResolveReview
    <3>3. ~Request
      BY DEF Request, Enroll, RequestReview, RequestExit, RequestPostpone, CreateVersion, Ready
    <3>4. ~Failure
      <4>1. ~AbortDrain /\ ~Crash /\ \A i \in Items : ~DraftFails(i)
        BY DEF AbortDrain, Crash, DraftFails
      <4>2. ~FailRequest
        <5>1. FailRequest => spent'.fault = spent.fault + 1
          BY <2>0 DEF FailRequest, Fault
        <5>. QED BY <2>0, <5>1
      <4>. QED BY <4>1, <4>2 DEF Failure
    <3>5. ~Launch /\ ~Tick /\ ~UNCHANGED vars
      BY DEF Launch, Tick, vars
    <3>. QED BY <3>1, <3>2, <3>3, <3>4, <3>5 DEF Next
  <2>2. serve.todo = {serve.cur} /\ inst' = inst
    <3>1. serve \in ServeRecord
      BY DEF TypeOK
    <3>. QED BY <2>1, <3>1 DEF SetStage, ServeRecord
  <2>. QED BY <2>2 DEF ReplyCovers, Stopped
<1>. QED BY <1>1, <1>2, ReplyCoversStep, TypeCorrect, FreshInvariant, PTL
         DEF Spec, ReplyStopsThread
=============================================================================

------------------------------ MODULE FollowUp ------------------------------
(***************************************************************************)
(* The follow-up engine of the native host: pipeline items, the sequence   *)
(* armed on each, the drain that fires due steps, and the requests that    *)
(* steer a sequence.                                                       *)
(*                                                                         *)
(* Two threads of the host touch the store.  The sweep (drain_due) runs    *)
(* once before the host serves, and again on every tick of the worker      *)
(* thread when there is one (TickerOn); the request loop serves one        *)
(* request at a time.  Every repository call is atomic (one connection     *)
(* behind one mutex) and no transaction spans two calls, so each call is   *)
(* an action here and what a thread read before is a snapshot in its       *)
(* local record.                                                           *)
(*                                                                         *)
(* handle_enroll is the only caller of arm, on an item it has just         *)
(* inserted: an item has at most one instance, and an instance is named    *)
(* by its item.                                                            *)
(***************************************************************************)
EXTENDS Workflow

CONSTANTS
  Items,          \* ids of the pipeline items that may be enrolled
  ThreadOf,       \* the mail thread of each item
  Versions,       \* versions of the one workflow definition
  Content,        \* the immutable content of each version
  CatchUp,        \* followups.catch_up_on_launch
  TickerOn,       \* followups.tick_seconds > 0
  MaxTime,        \* bound: the clock stops here
  MaxCrashes,     \* bound: crashes and quits of the host
  MaxFaults,      \* bound: failed storage and drafter calls
  MaxPostpones    \* bound: reschedule and snooze requests

Steps == UNION {DOMAIN Content[v].offset : v \in Versions}

ASSUME ConstantsAssumption ==
  /\ CatchUp \in BOOLEAN /\ TickerOn \in BOOLEAN
  /\ {MaxTime, MaxCrashes, MaxFaults, MaxPostpones} \subseteq Nat
  /\ Items # {} /\ Versions # {}
  /\ \A v \in Versions : WellFormed(Content[v])

VARIABLES
  stage,      \* pipeline_items.stage of each item, "absent" before its insert
  inst,       \* the workflow_instances row of each item
  current,    \* workflow_definitions.current_version_id
  surfaced,   \* followup_feedback: surfaced_for_review rows per item and step
  expired,    \* followup_feedback: expired_needs_attention rows per item
  shown,      \* followup_draft_ready notifications per item and step
  now,        \* the clock
  host,       \* the process: down, launching (catch-up drain) or serving
  drain,      \* the thread inside drain_followups, and its locals
  serve,      \* the request loop, and the locals of the request it serves
  spent       \* what the bounds have left room for, and how often a drain was
              \* cut off between the two writes of a step

store == <<stage, inst, current, surfaced, expired>>
vars  == <<store, shown, now, host, drain, serve, spent>>

-----------------------------------------------------------------------------
(* Rows *)

Times == 0 .. MaxTime

\* "unarmed" stands for the absent row.
Instance ==
  [status : Statuses \cup {"unarmed"}, cursor : Nat, due : Nat \cup {Null},
   anchor : Nat, pin : Versions]

NoInstance ==
  [status |-> "unarmed", cursor |-> 0, due |-> Null, anchor |-> 0,
   pin |-> CHOOSE v \in Versions : TRUE]

\* The unconditional UPDATE: what the row holds by now is not looked at.
UpdateState(i, status, cursor, due) ==
  inst' = [inst EXCEPT ![i] = [@ EXCEPT !.status = status, !.cursor = cursor, !.due = due]]

\* Mutant: a strict comparison in the SQL.
ListOverdue ==
  {i \in Items : inst[i].status \in Selectable /\ inst[i].due # Null /\ inst[i].due < now}

ListDue ==
  {i \in Items : inst[i].status \in Selectable /\ inst[i].due # Null /\ inst[i].due <= now}

-----------------------------------------------------------------------------
(* Thread-local records *)

DrainIdle ==
  [pc |-> "idle", at |-> 0, todo |-> {}, snap |-> [i \in Items |-> NoInstance],
   cur |-> CHOOSE i \in Items : TRUE, fired |-> {}, stale |-> {}]

ServeIdle ==
  [pc |-> "idle", event |-> "cancel", todo |-> {}, cur |-> CHOOSE i \in Items : TRUE,
   snap |-> NoInstance, at |-> 0, snooze |-> FALSE]

Init ==
  /\ stage = [i \in Items |-> "absent"]
  /\ inst = [i \in Items |-> NoInstance]
  /\ current \in Versions
  /\ surfaced = [i \in Items |-> [k \in Steps |-> 0]]
  /\ expired = [i \in Items |-> 0]
  /\ shown = [i \in Items |-> [k \in Steps |-> 0]]
  /\ now = 0
  /\ host = "down"
  /\ drain = DrainIdle
  /\ serve = ServeIdle
  /\ spent = [crash |-> 0, fault |-> 0, postpone |-> 0, cut |-> 0]

HalfFired == IF drain.pc = "update" THEN 1 ELSE 0

Fault == spent.fault < MaxFaults /\ spent' = [spent EXCEPT !.fault = @ + 1]

-----------------------------------------------------------------------------
(* The drain: one sweep over the rows that were due when it began *)

\* Mutant: the worker thread is never spawned.
StartDrainOnLaunchOnly ==
  /\ drain.pc = "idle" /\ host = "launching"
  /\ drain' = [DrainIdle EXCEPT !.pc = "sweep", !.at = now, !.todo = ListDue, !.snap = inst]
  /\ UNCHANGED <<store, shown, now, host, serve, spent>>

StartDrain ==
  /\ drain.pc = "idle"
  /\ host = "launching" \/ (host = "serving" /\ TickerOn)
  /\ drain' = [DrainIdle EXCEPT !.pc = "sweep", !.at = now, !.todo = ListDue,
                                !.snap = [i \in Items |-> IF i \in ListDue THEN inst[i]
                                                          ELSE NoInstance]]
  /\ UNCHANGED <<store, shown, now, host, serve, spent>>

\* evaluate_due on the listed row, never on the row as it is by now.
Verdict(i) ==
  LET row == drain.snap[i]
  IN  EvaluateDue(Content[row.pin], row.anchor, row.cursor, drain.at)

\* ORDER BY next_due_at, then by a random id.
Front == {i \in drain.todo : \A j \in drain.todo : drain.snap[i].due <= drain.snap[j].due}

\* Selected, yet no step is due: it was rescheduled to before its step.
SkipInstance(i) ==
  /\ drain.pc = "sweep" /\ i \in Front
  /\ Verdict(i).kind = "nothing"
  /\ drain' = [drain EXCEPT !.todo = @ \ {i}]
  /\ UNCHANGED <<store, shown, now, host, serve, spent>>

\* The drafter answers, or nothing has to be drafted.
Decide(i) ==
  /\ drain.pc = "sweep" /\ i \in Front
  /\ Verdict(i).kind # "nothing"
  /\ drain' = [drain EXCEPT !.pc = "append", !.cur = i]
  /\ UNCHANGED <<store, shown, now, host, serve, spent>>

\* The instance stays armed, so that the next drain tries again.
DraftFails(i) ==
  /\ drain.pc = "sweep" /\ i \in Front
  /\ Verdict(i).kind = "fire"
  /\ Fault
  /\ drain' = [drain EXCEPT !.todo = @ \ {i}]
  /\ UNCHANGED <<store, shown, now, host, serve>>

\* Mutant: the row names the step at the cursor, not the fired one.
AppendFeedbackForCursor ==
  /\ drain.pc = "append"
  /\ surfaced' = [surfaced EXCEPT ![drain.cur][drain.snap[drain.cur].cursor] = @ + 1]
  /\ drain' = [drain EXCEPT !.pc = "update"]
  /\ UNCHANGED <<stage, inst, current, expired, shown, now, host, serve, spent>>

AppendFeedback ==
  /\ drain.pc = "append"
  /\ LET i == drain.cur
         v == Verdict(i)
     IN  IF v.kind = "fire"
         THEN /\ surfaced' = [surfaced EXCEPT ![i][v.step] = @ + 1]
              /\ UNCHANGED expired
         ELSE /\ expired' = [expired EXCEPT ![i] = @ + 1]
              /\ UNCHANGED surfaced
  /\ drain' = [drain EXCEPT !.pc = "update"]
  /\ UNCHANGED <<stage, inst, current, shown, now, host, serve, spent>>

\* Only now does the draft enter the report.
AdvanceInstance ==
  /\ drain.pc = "update"
  /\ LET i == drain.cur
         v == Verdict(i)
     IN  IF v.kind = "fire"
         THEN /\ UpdateState(i, "awaiting_review", v.step, Null)
              /\ drain' = [drain EXCEPT !.pc = "sweep", !.todo = @ \ {i},
                                        !.fired = @ \cup {<<i, v.step>>}]
         ELSE /\ UpdateState(i, "needs_attention", drain.snap[i].cursor, Null)
              /\ drain' = [drain EXCEPT !.pc = "sweep", !.todo = @ \ {i},
                                        !.stale = @ \cup {i}]
  /\ UNCHANGED <<stage, current, surfaced, expired, shown, now, host, serve, spent>>

FinishSweep ==
  /\ drain.pc = "sweep" /\ drain.todo = {}
  /\ drain' = [drain EXCEPT !.pc = "emit"]
  /\ UNCHANGED <<store, shown, now, host, serve, spent>>

\* One frame per fired step, then one per stale instance.
EmitDraft(i, k) ==
  /\ drain.pc = "emit" /\ <<i, k>> \in drain.fired
  /\ shown' = [shown EXCEPT ![i][k] = @ + 1]
  /\ drain' = [drain EXCEPT !.fired = @ \ {<<i, k>>}]
  /\ UNCHANGED <<store, now, host, serve, spent>>

EmitStale(i) ==
  /\ drain.pc = "emit" /\ drain.fired = {} /\ i \in drain.stale
  /\ drain' = [drain EXCEPT !.stale = @ \ {i}]
  /\ UNCHANGED <<store, shown, now, host, serve, spent>>

\* After the launch drain the host serves; a ticker goes back to sleep.
LeaveDrain == drain' = DrainIdle /\ host' = "serving"

EndDrain ==
  /\ drain.pc = "emit" /\ drain.fired = {} /\ drain.stale = {}
  /\ LeaveDrain
  /\ UNCHANGED <<store, shown, now, serve, spent>>

\* A failed storage call ends the sweep; the report so far is dropped with it.
AbortDrain ==
  /\ drain.pc \in {"sweep", "append", "update"} \/ (drain.pc = "idle" /\ host = "launching")
  /\ spent.fault < MaxFaults
  /\ spent' = [spent EXCEPT !.fault = @ + 1, !.cut = @ + HalfFired]
  /\ LeaveDrain
  /\ UNCHANGED <<store, shown, now, serve>>

-----------------------------------------------------------------------------
(* Requests: each reads, decides, and writes in separate repository calls *)

Ready == host = "serving" /\ serve.pc = "idle"

Enroll(i) ==
  /\ Ready /\ stage[i] = "absent"
  /\ stage' = [stage EXCEPT ![i] = "open"]
  /\ serve' = [ServeIdle EXCEPT !.pc = "arm", !.cur = i, !.at = now]
  /\ UNCHANGED <<inst, current, surfaced, expired, shown, now, host, drain, spent>>

\* Pins the current version; an empty cadence completes at once.
Arm ==
  /\ serve.pc = "arm"
  /\ LET due == NextDueAfter(Content[current], serve.at, 0)
     IN  inst' = [inst EXCEPT ![serve.cur] =
                    [status |-> IF due = Null THEN "completed" ELSE "active",
                     cursor |-> 0, due |-> due, anchor |-> serve.at, pin |-> current]]
  /\ serve' = ServeIdle
  /\ UNCHANGED <<stage, current, surfaced, expired, shown, now, host, drain, spent>>

\* Mutant: a reply exits the first item of its thread only.
RequestExitOfOne(event, i) ==
  /\ Ready /\ stage[i] # "absent"
  /\ serve' = [ServeIdle EXCEPT !.pc = "exit", !.event = event, !.todo = {i}]
  /\ UNCHANGED <<store, shown, now, host, drain, spent>>

\* update_pipeline_stage and cancel_sequence name one item, a reply a thread.
RequestExit(event, i) ==
  /\ Ready /\ stage[i] # "absent"
  /\ serve' = [ServeIdle EXCEPT !.pc = "exit", !.event = event,
                 !.todo = IF event = "reply_received"
                          THEN {j \in Items : stage[j] # "absent" /\ ThreadOf[j] = ThreadOf[i]}
                          ELSE {i}]
  /\ UNCHANGED <<store, shown, now, host, drain, spent>>

\* list_by_pipeline_item: a terminal instance, or none, is passed over.
ReadForExit(i) ==
  /\ serve.pc = "exit" /\ i \in serve.todo
  /\ serve' = [serve EXCEPT !.cur = i, !.snap = inst[i],
                 !.pc = IF inst[i].status \in Terminal \cup {"unarmed"}
                        THEN "set_stage" ELSE "exit_write"]
  /\ UNCHANGED <<store, shown, now, host, drain, spent>>

ExitInstance ==
  /\ serve.pc = "exit_write"
  /\ UpdateState(serve.cur, ResultingStatus(serve.event), serve.snap.cursor, Null)
  /\ serve' = [serve EXCEPT !.pc = "set_stage"]
  /\ UNCHANGED <<stage, current, surfaced, expired, shown, now, host, drain, spent>>

SetStage ==
  /\ serve.pc = "set_stage"
  /\ stage' = [stage EXCEPT ![serve.cur] = ResultingStage(serve.event, @)]
  /\ serve' = IF serve.todo = {serve.cur} THEN ServeIdle
              ELSE [serve EXCEPT !.pc = "exit", !.todo = @ \ {serve.cur}]
  /\ UNCHANGED <<inst, current, surfaced, expired, shown, now, host, drain, spent>>

\* Mutant: no status check, so a sequence awaiting review is armed again.
RequestPostponeUnguarded(i, due, snooze) ==
  /\ Ready /\ inst[i].status \in Selectable \cup {"awaiting_review"}
  /\ spent.postpone < MaxPostpones
  /\ spent' = [spent EXCEPT !.postpone = @ + 1]
  /\ serve' = [ServeIdle EXCEPT !.pc = "postpone", !.cur = i, !.snap = inst[i],
                                !.at = due, !.snooze = snooze]
  /\ UNCHANGED <<store, shown, now, host, drain>>

\* reschedule_followup and snooze take any time, one already past included.
RequestPostpone(i, due, snooze) ==
  /\ Ready /\ inst[i].status \in Selectable
  /\ spent.postpone < MaxPostpones
  /\ spent' = [spent EXCEPT !.postpone = @ + 1]
  /\ serve' = [ServeIdle EXCEPT !.pc = "postpone", !.cur = i, !.snap = inst[i],
                                !.at = due, !.snooze = snooze]
  /\ UNCHANGED <<store, shown, now, host, drain>>

Postpone ==
  /\ serve.pc = "postpone"
  /\ UpdateState(serve.cur, IF serve.snooze THEN "snoozed" ELSE "active",
                 serve.snap.cursor, serve.at)
  /\ serve' = ServeIdle
  /\ UNCHANGED <<stage, current, surfaced, expired, shown, now, host, drain, spent>>

\* review_followup: send, edit and skip advance alike.
RequestReview(i) ==
  /\ Ready /\ inst[i].status = "awaiting_review"
  /\ serve' = [ServeIdle EXCEPT !.pc = "review", !.cur = i, !.snap = inst[i]]
  /\ UNCHANGED <<store, shown, now, host, drain, spent>>

\* Mutant: the next step comes from the current version, not the pinned one.
ResolveReviewOnCurrent ==
  /\ serve.pc = "review"
  /\ LET next == AdvanceAfterReview(Content[current], serve.snap.anchor, serve.snap.cursor)
     IN  UpdateState(serve.cur, next.status, next.cursor, next.due)
  /\ serve' = ServeIdle
  /\ UNCHANGED <<stage, current, surfaced, expired, shown, now, host, drain, spent>>

ResolveReview ==
  /\ serve.pc = "review"
  /\ LET next == AdvanceAfterReview(Content[serve.snap.pin], serve.snap.anchor,
                                    serve.snap.cursor)
     IN  UpdateState(serve.cur, next.status, next.cursor, next.due)
  /\ serve' = ServeIdle
  /\ UNCHANGED <<stage, current, surfaced, expired, shown, now, host, drain, spent>>

\* An accepted refinement appends a version and makes it the current one.
CreateVersion(v) ==
  /\ Ready /\ v # current
  /\ current' = v
  /\ UNCHANGED <<stage, inst, surfaced, expired, shown, now, host, drain, serve, spent>>

\* A storage call of the request fails: what it already wrote stays.
FailRequest ==
  /\ serve.pc # "idle"
  /\ Fault
  /\ serve' = ServeIdle
  /\ UNCHANGED <<store, shown, now, host, drain>>

-----------------------------------------------------------------------------
(* The process and the clock *)

Launch ==
  /\ host = "down"
  /\ host' = IF CatchUp THEN "launching" ELSE "serving"
  /\ UNCHANGED <<store, shown, now, drain, serve, spent>>

\* A crash, or Thunderbird closing: both threads and the report are gone.
Crash ==
  /\ host # "down" /\ spent.crash < MaxCrashes
  /\ spent' = [spent EXCEPT !.crash = @ + 1, !.cut = @ + HalfFired]
  /\ host' = "down"
  /\ drain' = DrainIdle
  /\ serve' = ServeIdle
  /\ UNCHANGED <<store, shown, now>>

Tick ==
  /\ now < MaxTime
  /\ now' = now + 1
  /\ UNCHANGED <<store, shown, host, drain, serve, spent>>

DrainStep ==
  \/ StartDrain
  \/ \E i \in Items : SkipInstance(i) \/ Decide(i)
  \/ AppendFeedback
  \/ AdvanceInstance
  \/ FinishSweep
  \/ \E i \in Items, k \in Steps : EmitDraft(i, k)
  \/ \E i \in Items : EmitStale(i)
  \/ EndDrain

\* The rest of a request that was accepted.
ServeStep ==
  \/ Arm
  \/ \E i \in Items : ReadForExit(i)
  \/ ExitInstance
  \/ SetStage
  \/ Postpone
  \/ ResolveReview

Request ==
  \/ \E i \in Items : Enroll(i) \/ RequestReview(i)
  \/ \E i \in Items, e \in Events : RequestExit(e, i)
  \/ \E i \in Items, t \in Times, z \in BOOLEAN : RequestPostpone(i, t, z)
  \/ \E v \in Versions : CreateVersion(v)

Failure ==
  \/ \E i \in Items : DraftFails(i)
  \/ AbortDrain
  \/ FailRequest
  \/ Crash

Next == DrainStep \/ ServeStep \/ Request \/ Failure \/ Launch \/ Tick

Spec == Init /\ [][Next]_vars

\* Each thread keeps running the code it is in, the worker keeps ticking and
\* a closed host is opened again. Nobody has to send a request.
FairSpec == Spec /\ WF_vars(DrainStep) /\ WF_vars(ServeStep) /\ WF_vars(Launch)

-----------------------------------------------------------------------------
(* Properties *)

DrainRecord ==
  [pc : {"idle", "sweep", "append", "update", "emit"}, at : Nat, todo : SUBSET Items,
   snap : [Items -> Instance], cur : Items, fired : SUBSET (Items \X Steps),
   stale : SUBSET Items]

ServeRecord ==
  [pc : {"idle", "arm", "exit", "exit_write", "set_stage", "postpone", "review"},
   event : Events, todo : SUBSET Items, cur : Items, snap : Instance, at : Nat,
   snooze : BOOLEAN]

\* Every row, local and counter has its type; in particular each write of
\* update_state stores a status of the FSM and a cursor that is no offset.
TypeOK ==
  /\ stage \in [Items -> Stages \cup {"absent"}]
  /\ inst \in [Items -> Instance]
  /\ current \in Versions
  /\ surfaced \in [Items -> [Steps -> Nat]]
  /\ expired \in [Items -> Nat]
  /\ shown \in [Items -> [Steps -> Nat]]
  /\ now \in Nat
  /\ host \in {"down", "launching", "serving"}
  /\ drain \in DrainRecord
  /\ serve \in ServeRecord
  /\ spent \in [crash : Nat, fault : Nat, postpone : Nat, cut : Nat]

\* honours_due_invariant, of every row after every single write of either
\* thread, a crash between two writes included: next_due_at is set exactly
\* while the sequence is armed.
DueIffSelectable ==
  \A i \in Items : inst[i].status \in Selectable <=> inst[i].due # Null

\* A draft awaits review only for a step whose feedback row is on disk
\* (append comes before update_state), and only that step's.
AwaitingIsRecorded ==
  \A i \in Items : inst[i].status = "awaiting_review" =>
     inst[i].cursor \in Steps /\ surfaced[i][inst[i].cursor] >= 1

\* The user is never told of a draft that left no feedback row.
ShownIsRecorded ==
  \A i \in Items, k \in Steps : shown[i][k] <= surfaced[i][k]

\* The author of the cadence gave later steps later dates. Nothing in the code
\* requires it: step_index is documented as 0-based and monotonic, the offsets
\* as days after the anchor.
InOrder(c) ==
  \A j, k \in DOMAIN c.offset : j < k => c.offset[j] <= c.offset[k]

\* No step is passed over silently. When the cursor passes a step of a cadence
\* whose dates are in order, that step has its own feedback row, or a drain
\* that found it due folds it into the step it fires: one that has its row,
\* was due too, and was overdue by no more whole days than the horizon.
NoSilentSkip ==
  [][\A i \in Items, k \in Steps :
       LET c      == Content[inst[i].pin]
           due(j) == DueAt(c, inst[i].anchor, j)
           at     == inst'[i].cursor
       IN  /\ InOrder(c) /\ k \in DOMAIN c.offset
           /\ inst[i].cursor <= k /\ k < at
           => \/ surfaced[i][k] >= 1
              \/ /\ inst'[i].status = "awaiting_review" /\ surfaced[i][at] >= 1
                 /\ due(k) <= drain.at /\ due(at) <= drain.at
                 /\ drain.at < due(at) + (c.horizon + 1) * Day]_vars

\* Without the worker thread a step is recorded again only because a drain was
\* cut off after the feedback row and before update_state: relaunches, reviews,
\* postponements and all other failures add none.
OneDraftPerStep ==
  \A i \in Items :
    /\ \A k \in Steps : surfaced[i][k] <= 1 + spent.cut
    /\ expired[i] <= 1 + spent.cut

\* ... and the user is told of it once at most, over crashes and relaunches.
ShownAtMostOnce ==
  \A i \in Items, k \in Steps : shown[i][k] <= 1

\* is_terminal: a completed or cancelled sequence never changes again.
TerminalIsFinal ==
  [][\A i \in Items : inst[i].status \in Terminal => inst'[i] = inst[i]]_vars

\* The cursor never moves back, so no resolved step can fire again.
CursorNeverRetreats ==
  [][\A i \in Items : inst'[i].cursor >= inst[i].cursor]_vars

\* The catch-up guarantee: when the host starts serving after a drain in
\* which nothing failed, no sequence is left armed on a step that was due.
CatchUpIsComplete ==
  [][host = "launching" /\ host' = "serving" /\ spent'.fault = 0 =>
       \A i \in Items :
         inst[i].status \in Selectable /\ inst[i].due <= drain.at =>
           DueSteps(Content[inst[i].pin], inst[i].anchor, inst[i].cursor, drain.at) = {}]_vars

\* A reply that was handled to the end leaves no sequence of its thread
\* running, however many items were enrolled on the thread.
ReplyStopsThread ==
  [][serve.pc = "set_stage" /\ serve.event = "reply_received" /\ serve'.pc = "idle"
       /\ host' = "serving" /\ spent' = spent =>
       \A j \in Items : ThreadOf[j] = ThreadOf[serve.cur] =>
         inst'[j].status \in Terminal \cup {"engaged", "unarmed"}]_vars

\* While the worker runs, a due step does not stay due for ever: it is
\* drafted, lapses, or the user moves or ends the sequence.
Overdue(i) ==
  /\ inst[i].status \in Selectable /\ inst[i].due <= now
  /\ DueSteps(Content[inst[i].pin], inst[i].anchor, inst[i].cursor, now) # {}

DueIsHandled == \A i \in Items : Overdue(i) ~> ~Overdue(i)

\* The documented lifecycle: seen from outside, each row moves only along the
\* edges of its state machine, as if every request and every drained row were
\* one atomic step on the row as it is at that moment.
Promise == INSTANCE Lifecycle WITH inst <- inst, current <- current, now <- now

ImplementsLifecycle == Promise!Spec

\* FollowUpScheduler::recover: a drain advances an instance only after its
\* draft is on record, so a host that is down leaves no step half fired: no
\* sequence is armed on a step that already has its feedback row.
NoHalfFiredStep ==
  host = "down" =>
    \A i \in Items, k \in Steps :
      inst[i].status \in Selectable /\ k >= inst[i].cursor => surfaced[i][k] = 0
=============================================================================

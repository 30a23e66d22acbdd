--------------------------- MODULE SessionBuffer ---------------------------
(***************************************************************************)
(* What extension/background.js keeps for the dashboard: the review queue  *)
(* and the list of stale follow-ups, both in storage.session, and the      *)
(* badge that counts them with the host's pending proposals.               *)
(*                                                                         *)
(* The event page is single-threaded, but its handlers are async: at every *)
(* await another handler may run.  A handler in flight is a task, and each *)
(* action is the code between two awaits, together with the storage call   *)
(* or host request it waited for.                                          *)
(***************************************************************************)
EXTENDS Integers, FiniteSets, SequencesExt

CONSTANTS
  Decisions,     \* decision ids
  Instances,     \* ids of follow-up instances
  Tasks,         \* handlers that may be in flight at once
  Cap,           \* REVIEW_CAP
  MaxEvents,     \* bound: notifications, requests and status changes
  MaxRestarts,   \* bound: suspensions of the event page
  MaxFailures    \* bound: storage calls, requests and badge updates that fail

ASSUME ConstantsAssumption ==
  /\ Cap \in Nat \ {0}
  /\ MaxEvents \in Nat /\ MaxRestarts \in Nat /\ MaxFailures \in Nat

VARIABLES
  queue,       \* mm:reviewQueue: buffered decisions, newest last
  attention,   \* mm:followupAttention: distinct stale instances
  proposals,   \* the host's pending proposals
  ready,       \* host.status.phase is ready
  space,       \* spaceId is known
  badge,       \* what the space button shows
  task,        \* the handlers in flight
  spent,       \* what the bounds have left room for
  \* History: what one handler at a time would have left in storage, and
  \* whether two that write met, or one was cut off or failed.
  ideal, reported, met

stored  == <<queue, attention>>
history == <<ideal, reported, met>>
bufferVars == <<stored, proposals, ready, space, badge, task, spent, history>>

\* A decision whose actions are applied already is kept for Undo; only one
\* with a suggestion is work.
Card == [id : Decisions, work : BOOLEAN]

Idle == [pc |-> "idle", queue |-> <<>>, attention |-> {}, op |-> "none",
         card |-> CHOOSE c \in Card : TRUE, instance |-> CHOOSE i \in Instances : TRUE,
         count |-> 0, red |-> FALSE]

Without(items, d) == SelectSeq(items, LAMBDA c : c.id # d)

\* Classified again, a decision is replaced; slice(-REVIEW_CAP).
Buffered(items, card) ==
  LET all == Append(Without(items, card.id), card)
  IN  IF Len(all) <= Cap THEN all ELSE SubSeq(all, Len(all) - Cap + 1, Len(all))

Work(items) == Len(SelectSeq(items, LAMBDA c : c.work))

\* The page runs from its top: nothing is in flight but the search for the
\* space.
PageStart ==
  {[u \in Tasks |-> IF u = t THEN [Idle EXCEPT !.pc = "space"] ELSE Idle] : t \in Tasks}

BufferInit ==
  /\ queue = <<>> /\ attention = {} /\ proposals = 0
  /\ ready = FALSE /\ space = FALSE
  /\ badge = [count |-> 0, red |-> FALSE]
  /\ task \in PageStart
  /\ spent = [events |-> 0, restarts |-> 0, failures |-> 0]
  /\ ideal = <<>> /\ reported = {} /\ met = FALSE

Busy(t)    == task[t].pc # "idle"
Writing(t) == task[t].pc \in {"queue_get", "queue_set", "attention_get", "attention_set"}

Event == spent.events < MaxEvents /\ spent' = [spent EXCEPT !.events = @ + 1]

Fail == spent.failures < MaxFailures /\ spent' = [spent EXCEPT !.failures = @ + 1]

Begin(t, handler) == ~Busy(t) /\ task' = [task EXCEPT ![t] = handler]

Refreshing == [Idle EXCEPT !.pc = "badge_queue"]

-----------------------------------------------------------------------------
(* Handlers begin *)

\* classification_ready, and the decision has something to act on.
ClassificationReady(t, card) ==
  /\ Event
  /\ Begin(t, [Idle EXCEPT !.pc = "queue_get", !.op = "buffer", !.card = card])
  /\ ideal' = Buffered(ideal, card)
  /\ met' = (met \/ \E u \in Tasks : Writing(u))
  /\ UNCHANGED <<stored, proposals, ready, space, badge, reported>>

\* A decision nobody can act on is not buffered.
NothingToReview(t) ==
  /\ Event
  /\ Begin(t, Refreshing)
  /\ UNCHANGED <<stored, proposals, ready, space, badge, history>>

\* mm:resolveReview: the user approved or dismissed a card.
ResolveReview(t, d) ==
  /\ Event
  /\ \E n \in 1 .. Len(queue) : queue[n].id = d
  /\ Begin(t, [Idle EXCEPT !.pc = "queue_get", !.op = "resolve", !.card.id = d])
  /\ ideal' = Without(ideal, d)
  /\ met' = (met \/ \E u \in Tasks : Writing(u))
  /\ UNCHANGED <<stored, proposals, ready, space, badge, reported>>

\* followup_needs_attention.
NeedsAttention(t, i) ==
  /\ Event
  /\ Begin(t, [Idle EXCEPT !.pc = "attention_get", !.instance = i])
  /\ reported' = reported \cup {i}
  /\ met' = (met \/ \E u \in Tasks : Writing(u))
  /\ UNCHANGED <<stored, proposals, ready, space, badge, ideal>>

\* proposal_ready: the host has one more.
ProposalReady(t) ==
  /\ Event
  /\ Begin(t, Refreshing)
  /\ proposals' = proposals + 1
  /\ UNCHANGED <<stored, ready, space, badge, history>>

\* The host decides one; the page recomputes nothing.
ReviewProposal ==
  /\ Event /\ ready /\ proposals > 0
  /\ proposals' = proposals - 1
  /\ UNCHANGED <<stored, ready, space, badge, task, history>>

\* The port answers its handshake, or is given up. A new connection has
\* rejected what waited for an answer on the old one.
StatusChange(t) ==
  /\ Event
  /\ ~Busy(t)
  /\ task' = [u \in Tasks |->
               IF u = t THEN Refreshing
               ELSE IF task[u].pc = "badge_host" /\ ~ready
                    THEN [task[u] EXCEPT !.pc = "badge_update"]
                    ELSE task[u]]
  /\ ready' = ~ready
  /\ UNCHANGED <<stored, proposals, space, badge, history>>

\* A heartbeat was answered: lastPongAt is patched, and with it everything
\* that hangs on the status is told.
Pong(t) ==
  /\ ready
  /\ Begin(t, Refreshing)
  /\ UNCHANGED <<stored, proposals, ready, space, badge, spent, history>>

-----------------------------------------------------------------------------
(* Between two awaits *)

Go(t, pc) == task' = [task EXCEPT ![t].pc = pc]

\* The space is found or created, or neither, and is not looked for again.
EnsureSpace(t) ==
  /\ task[t].pc = "space"
  /\ \/ space' = TRUE /\ task' = [task EXCEPT ![t] = Refreshing]
     \/ UNCHANGED space /\ task' = [task EXCEPT ![t] = Idle]
  /\ UNCHANGED <<stored, proposals, ready, badge, spent, history>>

\* What a handler will write, computed as soon as it has read.
Revised(h, items) ==
  IF h.op = "buffer" THEN Buffered(items, h.card) ELSE Without(items, h.card.id)

QueueGet(t) ==
  /\ task[t].pc = "queue_get"
  /\ task' = [task EXCEPT ![t].pc = "queue_set", ![t].queue = Revised(task[t], queue)]
  /\ UNCHANGED <<stored, proposals, ready, space, badge, spent, history>>

QueueSet(t) ==
  /\ task[t].pc = "queue_set"
  /\ queue' = task[t].queue
  /\ task' = [task EXCEPT ![t] = Refreshing]
  /\ UNCHANGED <<attention, proposals, ready, space, badge, spent, history>>

\* Mutant: the list is replaced, not extended.
AttentionGetAlone(t) ==
  /\ task[t].pc = "attention_get"
  /\ task' = IF task[t].instance \in attention THEN [task EXCEPT ![t] = Refreshing]
             ELSE [task EXCEPT ![t].pc = "attention_set", ![t].attention = {task[t].instance}]
  /\ UNCHANGED <<stored, proposals, ready, space, badge, spent, history>>

AttentionGet(t) ==
  /\ task[t].pc = "attention_get"
  /\ task' = IF task[t].instance \in attention THEN [task EXCEPT ![t] = Refreshing]
             ELSE [task EXCEPT ![t].pc = "attention_set",
                               ![t].attention = attention \cup {task[t].instance}]
  /\ UNCHANGED <<stored, proposals, ready, space, badge, spent, history>>

AttentionSet(t) ==
  /\ task[t].pc = "attention_set"
  /\ attention' = task[t].attention
  /\ task' = [task EXCEPT ![t] = Refreshing]
  /\ UNCHANGED <<queue, proposals, ready, space, badge, spent, history>>

\* The catch branches of sessionGet and sessionSet: a read that fails counts as
\* an empty list, which is then written back; a write that fails is lost.
StorageFails(t) ==
  /\ Fail
  /\ \/ /\ task[t].pc = "queue_get"
        /\ task' = [task EXCEPT ![t].pc = "queue_set", ![t].queue = Revised(task[t], <<>>)]
     \/ /\ task[t].pc = "attention_get"
        /\ task' = [task EXCEPT ![t].pc = "attention_set", ![t].attention = {task[t].instance}]
     \/ /\ task[t].pc \in {"queue_set", "attention_set"}
        /\ task' = [task EXCEPT ![t] = Refreshing]
     \/ /\ task[t].pc = "badge_queue" /\ space
        /\ task' = [task EXCEPT ![t].pc = "badge_attention"]
     \/ /\ task[t].pc = "badge_attention"
        /\ task' = [task EXCEPT ![t].pc = IF ready THEN "badge_host" ELSE "badge_update"]
  /\ met' = (met \/ Writing(t))
  /\ UNCHANGED <<stored, proposals, ready, space, badge, ideal, reported>>

\* recomputeSpaceBadge.
NoSpace(t) ==
  /\ task[t].pc = "badge_queue" /\ ~space
  /\ task' = [task EXCEPT ![t] = Idle]
  /\ UNCHANGED <<stored, proposals, ready, space, badge, spent, history>>

BadgeQueue(t) ==
  /\ task[t].pc = "badge_queue" /\ space
  /\ task' = [task EXCEPT ![t].pc = "badge_attention", ![t].count = Work(queue),
                          ![t].red = Work(queue) > 0]
  /\ UNCHANGED <<stored, proposals, ready, space, badge, spent, history>>

\* The status is looked at before the host is asked, not after.
BadgeAttention(t) ==
  /\ task[t].pc = "badge_attention"
  /\ task' = [task EXCEPT ![t].pc = IF ready THEN "badge_host" ELSE "badge_update",
                          ![t].count = @ + Cardinality(attention)]
  /\ UNCHANGED <<stored, proposals, ready, space, badge, spent, history>>

\* Given up, a port may still answer: a missed heartbeat does not close it.
BadgeHost(t) ==
  /\ task[t].pc = "badge_host"
  /\ task' = [task EXCEPT ![t].pc = "badge_update", ![t].count = @ + proposals]
  /\ UNCHANGED <<stored, proposals, ready, space, badge, spent, history>>

\* The request was rejected, by the host or with its port: the count goes
\* without the proposals.
BadgeHostFails(t) ==
  /\ task[t].pc = "badge_host"
  /\ IF ready THEN Fail ELSE UNCHANGED spent
  /\ Go(t, "badge_update")
  /\ UNCHANGED <<stored, proposals, ready, space, badge, history>>

\* Mutant: the badge is written only to show something.
BadgeUpdateNonZero(t) ==
  /\ task[t].pc = "badge_update"
  /\ badge' = IF task[t].count = 0 THEN badge
              ELSE [count |-> task[t].count, red |-> task[t].red]
  /\ task' = [task EXCEPT ![t] = Idle]
  /\ UNCHANGED <<stored, proposals, ready, space, spent, history>>

BadgeUpdate(t) ==
  /\ task[t].pc = "badge_update"
  /\ badge' = [count |-> task[t].count, red |-> task[t].red]
  /\ task' = [task EXCEPT ![t] = Idle]
  /\ UNCHANGED <<stored, proposals, ready, space, spent, history>>

\* spaces.update throws, and the badge stays what it was.
BadgeUpdateFails(t) ==
  /\ Fail
  /\ task[t].pc = "badge_update"
  /\ task' = [task EXCEPT ![t] = Idle]
  /\ UNCHANGED <<stored, proposals, ready, space, badge, history>>

\* The event page is suspended and woken: storage.session stays, what was in
\* flight is gone, the port and the space are looked for again.
Restart ==
  /\ spent.restarts < MaxRestarts
  /\ spent' = [spent EXCEPT !.restarts = @ + 1]
  /\ task' \in PageStart
  /\ ready' = FALSE /\ space' = FALSE
  /\ met' = (met \/ \E t \in Tasks : Writing(t))
  /\ UNCHANGED <<stored, proposals, badge, ideal, reported>>

-----------------------------------------------------------------------------

Run(t) ==
  \/ EnsureSpace(t)
  \/ QueueGet(t) \/ QueueSet(t)
  \/ AttentionGet(t) \/ AttentionSet(t)
  \/ NoSpace(t) \/ BadgeQueue(t) \/ BadgeAttention(t)
  \/ BadgeHost(t) \/ BadgeHostFails(t) \/ BadgeUpdate(t) \/ BadgeUpdateFails(t)
  \/ StorageFails(t)

Start(t) ==
  \/ \E c \in Card : ClassificationReady(t, c)
  \/ NothingToReview(t)
  \/ \E d \in Decisions : ResolveReview(t, d)
  \/ \E i \in Instances : NeedsAttention(t, i)
  \/ ProposalReady(t) \/ StatusChange(t) \/ Pong(t)

BufferNext == (\E t \in Tasks : Run(t) \/ Start(t)) \/ ReviewProposal \/ Restart

BufferSpec == BufferInit /\ [][BufferNext]_bufferVars

\* A call of storage or the host ends, and the heartbeat goes on while the host
\* is connected. No event and no success is assumed to happen.
FairBufferSpec ==
  /\ BufferSpec
  /\ \A t \in Tasks : WF_bufferVars(Run(t))
  /\ WF_bufferVars(\E t \in Tasks : Pong(t))

-----------------------------------------------------------------------------
(* Properties *)

Task ==
  [pc : {"idle", "space", "queue_get", "queue_set", "attention_get", "attention_set",
         "badge_queue", "badge_attention", "badge_host", "badge_update"},
   queue : Seq(Card), attention : SUBSET Instances, op : {"none", "buffer", "resolve"},
   card : Card, instance : Instances, count : Nat, red : BOOLEAN]

\* The buffers hold cards and instances, the queue no more than its cap
\* (slice(-REVIEW_CAP)), and every count is one.
BufferTypeOK ==
  /\ queue \in Seq(Card) /\ Len(queue) <= Cap /\ attention \subseteq Instances
  /\ proposals \in Nat /\ ready \in BOOLEAN /\ space \in BOOLEAN
  /\ badge \in [count : Nat, red : BOOLEAN]
  /\ task \in [Tasks -> Task]
  /\ spent \in [events : Nat, restarts : Nat, failures : Nat]
  /\ ideal \in Seq(Card) /\ reported \subseteq Instances /\ met \in BOOLEAN

\* Handlers that do not meet, and whose storage calls succeed, leave in storage
\* exactly what they were told: the last Cap decisions nobody has resolved, and
\* every stale follow-up.
BuffersAreExact ==
  ~met /\ (\A t \in Tasks : ~Writing(t)) => queue = ideal /\ attention = reported

BadgeIsCurrent ==
  badge = [count |-> Work(queue) + Cardinality(attention) + proposals, red |-> Work(queue) > 0]

\* The badge catches up: while the host stays connected, it ends up at what
\* the user must act on now, whatever order the recomputations finished in and
\* whichever of their calls failed before.
BadgeCatchesUp == <>[](ready /\ space => BadgeIsCurrent)

\* bumpFollowupAttention: "the count is correct in the meantime". When no
\* handler is running, every stale follow-up that was reported is counted.
AttentionIsCounted ==
  (\A t \in Tasks : ~Busy(t)) /\ spent.restarts = 0 => attention = reported
=============================================================================

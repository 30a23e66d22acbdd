# MailMate in TLA+

MailMate is a mail assistant for Thunderbird: a WebExtension (`extension/`) talks over native
messaging to a Rust host (`crates/`), which classifies mail, proposes safe actions, learns
rules and chases quotes with follow-up drafts. This directory models the parts of it whose
correctness depends on the order of steps: what a crash, a failed call, a second thread, a
second process or a late answer can do between two of them; and, beside them, the pure
algorithms on which those parts rest.

Paths below are relative to the repository's root. `PROJECT.json` maps each definition to the
lines it models.

## 1. Inventory

The host is one process. `serve` (`mailmate-native-host/src/runtime.rs:303`) opens the database,
drains overdue follow-ups, spawns a worker thread when `followups.tick_seconds > 0`, and then
serves one request at a time from stdin until the pipe closes. All state that survives is in one
SQLite file behind one connection and one mutex: **a repository call is atomic, two calls are not**.
The extension's background page owns the only port; its state lives in the page and in
`storage.session`. Panels and the dashboard talk to the background page by messages.

| component | state | operations | what is hard | what makes it correct |
|---|---|---|---|---|
| Follow-ups (`mailmate-workflow`) | items, instances, versions, follow-up feedback | enroll, drain, review, reschedule, exits | two threads, stale snapshots, crashes between two writes, boundaries in time | each step is drafted when due, once, from the pinned version; an ended sequence stays ended |
| Host configuration (`config.rs`, `router.rs`) | live config, saved file, keys, pause switch | set_settings, set_provider, set_pause, launch | write before validation, a failed save, settings read only at launch | what was acknowledged survives a restart; a paused host applies nothing |
| Proposal review (`mailmate-learning`) | proposals, rules and versions, feedback, audit | review, import, promote | five transactions per review; retries; one snapshot of the rules per launch | a decision takes effect once; nothing is evaluated that nobody approved |
| Learning (`mailmate-learning`, `-ml`) | feedback, proposals, conflicts, weights | correct, propose, back-test, scan, curate | tables that change under a pass; a model that may answer anything | no contradiction is overlooked; the curator only ever advises |
| Decision spine (`-planner`, `-rules`, `-policy`, `-core`) | the rule snapshot, decisions | new_mail, classify | precedence, conflicts, guard, pause, fields that are missing | only allowed, crystallized actions are applied without review |
| Mail commands (`drafts.js`) | moves and tags in Thunderbird, the marks of own moves (in memory, by Message-ID) | run a command, observe a move | handlers interleave; a move and its echo | a host's move is not learned as the user's as long as its mark can tell it apart; each command is answered |
| Native port (`native.js`) | status, pending requests, timers | hello, heartbeat, request, reconnect | late answers, timeouts, an old port's handlers | every request settles; status never claims too much |
| Wire (`native_stdio.rs`, `dispatch.rs`) | two pipes, a lock, two threads | read, write, shut down | two writes to a frame, oversized frames, a closed pipe | frames stay whole; the host comes to its end |
| Session buffers (`background.js`) | review queue, attention list, badge | buffer, resolve, count | read-modify-write across `await` | no entry is lost or comes back, the badge catches up |
| Dashboard and panel (`dashboard.js`, `panel.js`) | tabs, cards, buttons, a verdict | render, press, refresh | renders that finish out of order, a connection that drops | at rest a page shows what there is |
| Storage (`mailmate-storage`) | database file, write-ahead log, snapshot; the tables | migrate, backup, restore; repository calls | crashes between file operations; two builds; time compared as text | it opens as one database; fakes and tables agree |
| Training (`mailmate-training`) | datasets, adapters, evaluations | run, promote, export | overlapping runs, tables that grow, the order of reduce, select, count | an approved adapter, an untouched hold-out, an export as declared |
| Providers (`mailmate-ai`) | none | generate, parse, validate | anything may come back | nothing invalid is used |

Who calls whom: the extension's requests reach `HostRouter::route`; follow-up requests go to
`WorkflowEngine` and `ExitDetector`, and the drain to `FollowUpScheduler`, all over the same
repositories; new mail goes through the classifier, the planner and the guard to the mail client,
whose commands travel back to the extension as notifications; corrections become feedback rows that
the learning engine and the curator turn into proposals; a reviewed proposal becomes a rule or
workflow version; the training pipeline reads the feedback rows.

## 2. The modules

| part | modules | composed in | proofs |
|---|---|---|---|
| Follow-ups | `Cadence`, `Workflow`, `FollowUp`; abstract `Lifecycle` | `MCFollowUp` | `FollowUpProofs` |
| Channel | `NativeChannel` (page, pipes, hosts), `HostWire` (one host) | `MCChannel` | `ExtensionProofs` |
| Background page | `SessionBuffer` | `MCSessionBuffer` | `ExtensionProofs` |
| Pages | `PageLink`, under `Dashboard` and `Panel` | `MCPages` | `DashboardProofs` |
| Review | `ProposalReview` | `MCProposalReview` | `ProposalReviewProofs` |
| Configuration | `HostConfig` | `MCHostConfig` | `PersistenceProofs` |
| Mail | `Decision` under `MailActions`; `Conditions` under `RuleEngine` | `MCMailActions` | `MailActionsProofs` |
| Learning | `Learning`; `Provider` under `Curation` | `MCLearning` | `LearningProofs` |
| Storage | `Storage`; abstract `Database`; `Stores` under `Records` | `MCStorage` | `PersistenceProofs` |
| Training | `Training`; `Export` | `MCTraining` | `TrainingProofs` |

Where an MC module holds two specifications, a variable (`side`, `who`, `open`) says which of them a
behaviour follows; the other one's variables stay as they are. They share a run, not state.

### Follow-ups

**State.** `stage`, `inst`, `current`, `surfaced` and `expired` are rows on disk (`pipeline_items`,
`workflow_instances`, `workflow_definitions`, `followup_feedback`); `shown` counts the
`followup_draft_ready` frames; `drain` is the thread inside `drain_followups` with its program counter, its
list of rows **as they were when listed**, and its report; `serve` is the request loop in the middle of a request;
`host` is the process.

**Actions.** One repository call, one action. A sweep is `StartDrain` (list), then per row
`Decide`, `AppendFeedback`, `AdvanceInstance` (or `SkipInstance`, `DraftFails`), then
`FinishSweep`, `EmitDraft`/`EmitStale`, `EndDrain`; a failed storage call is `AbortDrain`, which drops the report as
`drain_followups` does. A request is an action that reads and checks (`Enroll`, `RequestExit` and
`ReadForExit`, `RequestPostpone`, `RequestReview`) and one that writes (`Arm`, `ExitInstance` and `SetStage`,
`Postpone`, `ResolveReview`); `FailRequest` ends it half-way. `Crash` stops both threads anywhere.
`update_state` is unconditional in the code and therefore in `UpdateState`.

`Lifecycle` is what all of this promises of one instance: each operation one atomic step.
`ImplementsLifecycle` instantiates it with the rows as they are on disk.

**Abstractions.** The clock counts ticks, `Day` to a day (two in the runs), so that `whole_days_since` truncates: a step is half a day, one day or one and a half days late. Due times
are whole ticks as they are whole seconds in the store. `handle_enroll` is the only caller of `arm`, on a fresh item, so an
instance is named by its item. Step indexes are distinct and offsets not negative. The audit log is written best-effort and
read by nobody here: left out. A failed send of a frame ends the host at launch, which is
`Crash`. Items, thread, counterparty and draft texts are data. There is one host process: after a Retry the old host may
still be draining when the new one starts; their storage calls interleave as those of the worker thread do.

### Channel

**`NativeChannel`** is `NativeHost` of `native.js` with the pipes and the host processes at their other
end. One event handler of the page, with the promise callbacks it sets off, is one action: `Post` is the common
part of `request` and `notifyHost` (`Call`, `NewMail`, `Heartbeat`), `HandleAnswer` is `_onMessage` with
what the handlers of a `hello` or a `ping` make of the answer, `Timeout` the
timer of `_withTimeout`, `OnDisconnect` and `Reconnect` their namesakes. `pending` and `timed` are the keys of the map and
the running timers: a request whose timer fired stays in `pending`, as in the code. Every connection has its own host process,
which is `launching` (the drain before `serve_blocking`), `serving`, or `gone`; a host whose port was
replaced reads on until its pipe is empty. `speaks` is whether that host's build has the page's protocol version: one that does not
answers everything with an error (`handle`, `router.rs:255`).

**`HostWire`** is one host process at the level of frames: two threads (the request loop, after the launch drain, and the
follow-up worker) write a frame as its length and its body under the lock of `FrameWriter`; a frame of more than 1 MiB is
withheld and a small error with its id goes out instead; the input ends, breaks off in a frame or carries a frame that is
not JSON; the extension may close the output at any moment. `Main` and `Worker` are the threads, down to the join at the end.
The encoded size is a bit of the frame.

### Background page and pages

**`SessionBuffer`** is the dashboard part of `background.js`. A handler in flight is a *task* with a program
counter, one action is the code between two awaits, so that two handlers interleave as they do in the event page. `queue` and
`attention` are the two keys of `storage.session`, `proposals` the host's pending proposals, `badge` what the space button
shows. `Restart` is a suspension of the page: storage stays, handlers in flight are
lost. A storage call may fail (`StorageFails`): `sessionGet` and `sessionSet` catch that, so a failed read counts as empty and a failed write is dropped, and the handler goes on. So may a call of the
host while the badge is computed (`BadgeHostFails`), and the one that sets the badge (`BadgeUpdateFails`). `ideal`, `reported` and `met` are history: what one handler at a time would have stored, and whether two that
write have met, or one was cut off or had a storage call fail.

**`PageLink`** is how a page calls the background page: `send()` never rejects, calls are answered in any order with what is
true at that moment, broadcasts and answers arrive in the order they were sent. A drop is a loss of the connection or a silence
(`wedged`) longer than the heartbeat waits. **`Dashboard`** is `dashboard.js`: four tabs over one content element, badges, chips,
cards and their buttons, the debounced refresh of the review tab that waits for buttons in flight; each handler from one
await to the next, with the render tokens where the code has them. `Only` picks from a list by position. **`Panel`** is `panel.js`: status, displayed message, classification, the
verdict and its buttons, the recovery card. Wording, layout and styling are left out.

### Review

**`ProposalReview`** is `review` and `materialize` (`mailmate-learning/src/review.rs`) over the proposal, rule,
feedback and audit tables. Each storage call is a transaction and therefore an action: for a `new_rule`
`SaveRuleDraft`, `UpdateRuleStatus`, `AppendStatusAudit`; for a refinement `CreateRuleVersion`; for a
retirement `RetireRule`; then `SetStatus`, `AppendFeedback`, `AppendReviewAudit`. `BeginReview` is the read and the
`is_terminal` check, `Refused` a UNIQUE or FOREIGN KEY constraint that fails, `StorageFails` any other error, and `Relaunch` a host that
stops anywhere and reads its rule snapshot anew. Rows appear by `Emit`, `Import` and `Promote`.
`rule` is keyed by stable name: `curated-<id>` is the proposal's own id here. `cut` and `promoted` are
history: which proposals had a review cut short, which rules a person activated; `approved` is which proposals a person has accepted, whether or not the acceptance got through. A `refine_rule` without a rule draft materializes nothing (`NothingToMaterialize`). `merge_rules` stands for `split_rule` too.
Nothing in the repository activates a rule, other than tests; `Promote` is external.

### Configuration

**`HostConfig`** has the configuration four times: the file, the live copy that requests change, the copy the running host was
wired from, and what the user was told. `set_settings` and `set_provider` write the live copy, validate, then save; `set_pause`
saves without validating; keys go to their own file first. A save fails or is cut off (`broken`), a person edits the file, the host is launched again. `warned` is history: whether, since the last launch and the last settings write answered as
saved, the user was told of a refused or a failed write, or the host died in one, or a person wrote the file.

### Mail

**`Decision`** is a function: which rules apply and who wins, the cascade of tiers, the plan, and what the policy guard leaves of
it. **`MailActions`** carries its outcome across the wire: the host's handler sends one `mail_command` per allowed action and then the card; the
extension runs each command in a handler of its own, awaiting Thunderbird, and reports the moves it observes except the echoes of
the host's. Before it moves a mail, a handler leaves a mark under the mail's Message-ID, if it has one, in a `Map` of the page (`hostMoves`); the next event of any mail with that Message-ID uses the mark up; a suspension of the page (`SuspendPage`) empties
the `Map` and ends the handlers and the port, while the events of moves already made still arrive. Two mails may be copies of each other. A command fails when the mail is not found any more or the folder is unknown. The user moves, accepts, undoes, pauses; the port may be lost. `Decided` is what the handler keeps of a decision, `Plans` the decision for
each rule snapshot and mail; `Kept` is what the policy guard keeps of a list of actions, written as a function of the length so that
it can be proved about. `StoresAssumption` says what a rule snapshot is: a sequence of rules whose tags are texts.

**`Conditions`** is the condition language: values with their types, the operators of `evaluator.rs` with every type mismatch, `all`, `any`,
`not`, and equivalence. A condition is the sequence of the nodes of its tree, the children before their parents, so that evaluation and equivalence
are functions over the places of nodes and can be proved about. **`RuleEngine`** lets two rules meet a message whose fields become known one by one.
What a text contains, matches, or means as a time is given.

### Learning

**`Learning`**: a correction is `Capture` and then `Teach`; a pass clusters the rows it reads and persists one proposal per call; a
candidate is back-tested; the conflict scan goes through the two kinds of rules, or the one it was asked for, and for each through the five scopes, in the order of the code; it lists one scope per call and appends one conflict per call, while rules come and go.
A row is what is clustered on and its number among the rows like it, so that a set of rows counts what a table would. **`Provider`** says where each adapter finds the text of a reply and what `curate_rules` and `draft_reply` demand of it;
**`Curation`** is the curator's pass over it: ask, validate as a whole, pass over what was not requested (`PassOver`, unless `Wanted`), clamp, save, audit, one call at a time, cut at any
of them; and the drafting of a reply.

### Storage

**`Storage`** is the file: what was committed and checkpointed, what is in the log, who has it open. Processes of two builds and the command
line open, migrate (one transaction per version), write, checkpoint, `VACUUM INTO` a backup, and restore (validate, copy, remove the
log, then its index), killed at any step. `dbFile` is the database file as last checkpointed, `OpenFile` a process that opens it. **`Database`** is the promise: a database that is created, migrated one version at a time, written, backed
up and replaced as a whole; `ImplementsDatabase` maps the file *with its log played back* to it.

**`Stores`** gives each call of the workflow, instance, item, audit and conflict repositories to the tables and to the fakes of
`mailmate-test-support`, on which the tests of the host run. Times are texts where the tables hold texts: a fraction is rendered
only when it is not zero. A list is the rows `Sorted` by a key; rows with the same key, which the tables put in the order of ids drawn at random, stay in the order of insertion,
and no property looks at their order.

**`Records`** has the repositories without a fake: messages with their features, threads, senders, drafts, proposals with their evidence, feedback,
conflicts, shadow firings, and the tables of the training layer. Its tables (`kept`) stand against what each caller was last told (`told`), and its queries
return rows in the order of their texts. Most of these tables have no caller outside the tests yet, but their ports promise something, and
`RecordsHold` says what comes of that: a body is on disk by the retention its message came in with and no later write brings it there; no reference
dangles; the last acknowledged write is what is read, in its row and in the list it belongs to; a proposal has the whole of its evidence; and lists are in order to the second.

### Training

**`Training`** is `DefaultTrainingPipeline::run`, call by call, over tables that grow: collect, two datasets, train, register, evaluate, record, set
the status. Only feedback of the live kinds exists, and those examples are at the metadata level, so no ceiling changes them there. Its requests passed
the checks of steps 0 and 1. **`Export`** takes up the ceiling: examples of the live kinds, and examples with bodies as the type allows, are
reduced, selected into one of four views, counted, and rendered into lines or handed to an external trainer. A text is a sequence of kinds of characters, so that redaction is
what it does; what a line may quote is told by where it comes from: a label, or what redaction leaves of a body. `sender_domain`, `extra`, `forbidden_commitments`, `instruction` and the system prompt, which a line quotes as they are,
are declared not sensitive by their types and are left out. An example keeps its place among those collected, so a line that is missing is missed.

## 3. Runs

| run | question | bounds |
|---|---|---|
| `followup_launch` | the default host, no worker thread: one sequence, everything that can happen to it | 1 item, 2 versions (3 steps in order with a gap, coalescing, a horizon of 0 days; 2 steps of which the later is due first), 5 half-days, 2 crashes, 1 failed call, 1 postponement |
| `followup_thread` | two deals on one mail thread; completeness of the catch-up drain | 2 items, 1 version, 4 half-days |
| `followup_ticker` | the worker thread beside the request loop, every interleaving of their calls | 1 item, 1 version, 3 half-days, 1 crash, 1 fault |
| `native_channel` | the status, the pending map and every caller, over crashes, retries, late answers and hosts of another protocol; the frames and the end of one host | 3 connections, 4 requests; 2 frames, 1 drain of the worker |
| `session_buffer` | the two buffers and the badge under interleaved handlers, failed calls and a suspension | 3 decisions, cap 2, 2 instances, 2 handlers at once, 3 events, 1 suspension, 1 failed call |
| `pages` | what a page shows once everything has come in | 2 decisions, of which one may come, 1 proposal, 1 deal, 2 filters, 2 clicks, 1 arrival, 1 drop (from the boot of the dashboard one click or the arrival less, from the app at rest one of the three) |
| `proposal_review` | every review over failures, retries and relaunches between any two calls | 2 proposals of any kind, 1 import, 2 recommended statuses |
| `host_config` | what the user was told against what the next launch does | 2 providers, 3 requests, 2 launches, 1 edit by a person |
| `mail_actions` | commands, cards, moves and their echoes; the engine on a growing message | 2 mails of 4 contents (copies of each other, different ones, without a Message-ID), 4 rule stores, 1 user act, 1 pause, 1 loss or suspension; 21 conditions, 3 effects |
| `learning` | the learning pass, the back-test, the scan; the AI curator and its provider | 3 rows, 2 folders, 2 imported rules, 2 kinds by 5 scopes; 6 offers, 4 requests, 3 providers |
| `storage` | three processes of two builds over one file; tables against fakes, or against what the callers were told | builds of 2 and of 3 migrations and the command line, 2 facts; 3 calls, 3 ticks of half a second, one family of tables at a time |
| `training` | two overlapping training runs; what a dataset lets out | 4 rows, 2 policies; 2 examples, 2 bodies, 4 splits, 3 ceilings, 4 views |

The bounds are chosen for the cases the code distinguishes: two steps due at once with and without coalescing, a
stale step behind a fresh one, a step half a day late that is still fresh and one a day late that is not, a due time exactly now, a version change between
two steps, a second crash after a recovery, a failure at each call. Instances of follow-ups meet only in the
sweep and in a shared thread, for which two items are enough. Three connections allow a retry during a handshake and one
after it, and four requests a handshake with another request on either side of a retry; two frames with one drain allow both
threads to want the output, and an oversized frame beside another. A cap of two with three decisions overflows, and a
read-modify-write race needs two handlers. Two calls of a page may be answered in the wrong order, which needs two clicks or a click and an arrival.
Two proposals and an import allow one proposal to refine or retire the other's rule, or one that was never
stored. Three configuration requests allow a refused write, a saved one and an action between two launches. Two processes of different builds meet at
every migration, and a third restores under them. Two folders are the least that contradict. Two mails are the least of which one can use up the mark of the other. Two examples are the least whose counts and levels a
dataset has to combine. No foreign key and no query joins two families of `Records`, so one at a time loses nothing; three calls write a row twice or two rows and an update, and three half seconds hold a fraction on either side of a whole second. Every counter that would otherwise grow for ever has a named bound, and a model stops
when its bounds are used up, which is why no run checks for deadlock; that something *must* still happen is said by the liveness properties.

What the properties say:

- **Follow-ups.** `NoSilentSkip` (a step the cursor passes, of a cadence whose dates are in order, was drafted itself or was due when it was folded into a later step that was drafted, due and within the horizon), `OneDraftPerStep` (a second record of a step
  is paid for by a drain that was cut off exactly between its two writes), `ShownAtMostOnce`, `AwaitingIsRecorded` (no draft without a record),
  `ReplyStopsThread`, `CatchUpIsComplete`, `ImplementsLifecycle`, and that every due step is handled in the end, `DueIsHandled`.
- **Channel.** `ReadyIsAnswered` (ready means that *this* port's handshake was answered), `EveryCallSettles`; `FramesAreWhole` (a body follows its own length, and no
  frame is too large), `HostEnds` (a host whose input ended comes to its end).
- **Pages.** `BuffersAreExact` (handlers that do not meet, and whose storage calls succeed, lose nothing and bring nothing back), `BadgeCatchesUp`; `FiltersNeverMix`, `PagesSettle` (when nothing is
  under way, badges, lists, header and recovery card are those of the state behind them; the review badge on another tab only if the page did not come through boot or walkthrough), `RefreshComes` (a refresh that waits for a button comes).
- **Review.** `AcceptedTookEffect`, `DecisionsRecorded`, `OnlyApprovedIsEvaluated` (what a host evaluates is an import's content or that of an accepted proposal for this very rule; without a promotion only a new rule in shadow whose proposal was neither risky nor in conflict).
- **Configuration.** `UnstartableIsForetold` (when the file does not load, the user was told of a refused or failed write and of no settings saved after it, the host died in a write, or a person wrote the file), `NoApplyWhilePaused`, `RestartTakesEffect`.
- **Mail.** `SafetyFloor` (at the far end of the wire: no sensitive mail is moved, no shadow rule acts), `CardFollowsCommands`,
  `HostMovesAreNotLearned` (of a mail with a Message-ID that no other moved mail has, unless the page was suspended between the move and its event; section 4), `CommandsAreAnswered`; `ConflictIsReal`, `MatchSurvivesMoreFields` (a rule without negation that fired goes on firing as more of the message is known).
- **Learning.** `ContradictingCandidatesCannotBothClear`, `ScanMissesNothing` (a scan that ends has recorded every contradiction of a kind and a scope it went through); `AdviceIsHarmless`, `CurationIsTraced`.
- **Storage.** `ServingSchemaIsComplete`, `RestoreIsExact`, `ImplementsDatabase`; `RepositoriesHold` (`StoresAgree`: every query of the fakes returns the rows of the tables, and the drain is right to the second; `RecordsHold`, above).
- **Training.** `ActiveWasApproved`, `HoldoutIsNeverTrained`; `ExportIsAsDeclared` (no line is more sensitive than it says, than the ceiling, than the dataset's record; counts are those of the lines).

Each of them has a mutant of the code in `PROJECT.json` under which it fails.

**Fairness.** Follow-ups: the worker loop (`runtime.rs:462-479`) sleeps and drains for as long as the host runs, a
thread inside a sweep or a request goes on, and Thunderbird starts the host again
when the port is opened again; no request is assumed to arrive, failures are bounded, so a sweep eventually succeeds.
Channel: the page's event loop delivers answers, disconnects and timers, a host that did not crash gets on with its
input, and both threads of a host get on; nobody is assumed to retry. Session buffers: awaited calls return, and the heartbeat (`native.js:134`), whose answer
recomputes the badge, goes on while the host is connected; without it a recomputation that overtook another would leave the badge wrong for good.
Pages: handlers run, a connected host answers, the timer comes round. Mail: the host handles its next frame, a handler of the extension goes on. The other
runs check safety and state none.

## 4. Statements the code does not keep

These come from comments, ports and designs of the repository. TLC refutes each, with a trace of a few steps. They are run by hand, beside the runs of section 3, and are not in `PROJECT.json`. Three have a configuration of their own:

| configuration, module | statement | what happens |
|---|---|---|
| `followup_race`, `MCFollowUp` | `TerminalIsFinal`: a terminal sequence stays so (`workflow.rs:314`) | with the worker thread: `drain_due` lists the due rows once and later writes each without looking again, while the request loop ended the sequence. It becomes `awaiting_review` again. The default has no worker thread; there the statement is proved |
| `followup_half_fired`, `MCFollowUp` | `NoHalfFiredStep`: nothing is half fired after a crash (`follow_up_scheduler.rs:26-27`) | the feedback row and the instance are two transactions. `OneDraftPerStep` says what holds instead |
| `native_mismatch`, `NativeChannel` | `MismatchIsReported`: a host of another protocol ends in `version_mismatch` (`native.js:107`) | `handle` checks the version of every frame before its type, so such a host cannot answer `hello` with success, and `_handshake` reports `disconnected` |

The others use the configuration of a run: replace its INVARIANTS and PROPERTIES by the statement.

| run | replace by | what happens |
|---|---|---|
| `session_buffer` | INVARIANT `AttentionIsCounted` (`background.js:531-532`) | `bumpFollowupAttention` is a read, an await and a write; a sweep emits its stale frames back to back, and one is not counted |
| `proposal_review` | INVARIANT `RejectedLeavesNothing` (`curation.rs:80-82`) | the rule is committed before the proposal is decided: after a failure between the two, the second acceptance meets the taken name, the proposal can only be rejected, and the rule stays |
| `proposal_review` | INVARIANT `RiskyContentWaits` (`review.rs:4-9`: a risky rule needs "a further, separate human action") | a risky `refine_rule` of a rule that is active or in shadow: `create_version` makes the new content current at once, the status stays, and the next launch evaluates it on the acceptance alone. `OnlyApprovedIsEvaluated` says what holds instead |
| `host_config` | PROPERTY `PausedHostIsQuiet` (`config.rs:66-68`) | `drain_followups` does not look at the pause switch |
| `host_config` | INVARIANT `ValidatedBeforePersisting` | settings are written into the live configuration before `validate()`; a refused value stays live, and the next pause saves it: the host does not start |
| `mail_actions` | INVARIANT `HeldKindsWaitForReview` (`rules/effect.rs:20-22`) | `require_review_for` adds a review action and holds nothing back |
| `mail_actions` | PROPERTY `TagsArePreserved` (`drafts.js:138`) | two tag commands of one mail each read the tags, then write: one is lost |
| `mail_actions` | PROPERTY `MissingFieldNeverFires` (`evaluator.rs:24`, fail-closed) | under a negation a missing field makes a rule fire |
| `learning` | INVARIANT `RecommendsShadowOrReview` (`common/curator.rs:5-9`) | a proposal that is neither risky nor in conflict keeps a recommended `draft`; `active` is refused by the validator (`schemas.rs:224`) and by the clamp (`curator.rs:258`) |
| `pages` | INVARIANT `LateVerdictNeedsHost` | a classification answered after the heartbeat gave up is shown, with its buttons, under "offline" |
| `pages` | INVARIANT `TabShowsItsOwn` | a render of a tab that has been left finishes late and paints into the new tab |
| `pages` | INVARIANT `ResolvedCardsGo` (`dashboard.js:499-500`) | a card resolved or dismissed comes back with an older `renderReview` in flight |
| `pages`, with `MaxArrivals = 2` and `Waiting = {"f1"}` | INVARIANT `ReviewBadgeSettles` (`dashboard.js:1134-1135`, "Refresh counts always") | a classification that comes before the walkthrough sets the review badge, the next one is dropped since the app is hidden (`dashboard.js:1117`), and `enterApp` on another tab does not ask for the count again: the badge stays behind. `PagesSettle` therefore claims that badge on its own tab, and everywhere for an app that is open (`open = "app"`) |
| `storage` | INVARIANT `NewestFirst` (`pipeline_items.rs:47`, `audit.rs:21`, `workflows.rs:150`) | times are compared as text; within a second the whole second sorts after its fractions, since `Z` sorts after `.` |
| `storage` | INVARIANT `OrdersAgree` | the fakes order by insertion, the tables by time |
| `training`, with `Bodies <- OddTexts` | INVARIANT `AddressesAreScrubbed` (`privacy.rs:35-39`) | `redact_emails` looks at the first `@` of a run only: of `@a@b` nothing is scrubbed |
| `training`, with `Bodies <- OddNumber` | INVARIANT `RedactionIsIdempotent` (`privacy.rs:102`, and the test at `privacy.rs:253`) | of `@1234567a@b` the number is scrubbed after the address was looked for; what stands behind it, `a@b`, is an address only now, and goes when the text is redacted again |

Other things a reader of the code may want to know, met while modelling:

- *Follow-ups.* Where a later step is dated before an earlier one, the drain fires the later one and its cursor passes the earlier, which was not due and is never drafted. `step_index` is documented as "0-based, monotonic"
  (`workflow.rs`), nothing orders the offsets; `NoSilentSkip` speaks of cadences whose dates are in order (`InOrder`). A reply after a deal was won sets the stage of the item all the same (`exit.rs:54`). A shadow cadence and its report have no writer.
- *Storage.* Nothing keeps a second profile of an address out, and of two within a second `get_by_email` may return the older. `add_features` has no transaction: a
  call that fails leaves its first rows, beside which a retry puts all of them again. Of the updates by id only
  `set_status` of an adapter answers with an error when no row has the id. `threads.last_summary` is written whatever the retention; the caller is trusted there.
- *Session buffers.* A `sessionGet` that fails counts as empty, and the handler writes the empty list with its own entry back: the other cards of the queue are gone (`background.js:478-493`).
- *Configuration.* A refused settings write stays in the live configuration; a pause after it saves it and is answered as saved, and the host does not start again. The refusal is the only warning. The settings page shows "no key" for a key kept in the file of another provider id. The pause label reads "not paused" while settings are unavailable.
- *Mail.* `router.rs:391-393` says a paused host applies nothing; `convert.rs:121-143` still lists the plan's actions as applicable. Of two bands the lower one's effects win, against `architecture.md:4238`. A host move that failed
  leaves its mark in `hostMoves`, so the next move by the user of that mail, or of a copy of it, to whatever folder is taken for its echo. In turn a host's move is reported as the user's when the mail has no Message-ID, when a copy was moved as well and its event
  used up the mark, and when the page was suspended in between (`drafts.js:31-50`). The branch for `create_draft` (`drafts.js:90-98`) is never reached: no effect is translated into that action (`translate_effect`), and the host sends no such command. Further, a move cannot be undone from the dashboard, since its undo is refused. The extension does not send `sender_domain`. `new_mail` that arrives while the port is down is not classified later.
- *Rules.* An untagged condition with `all` and `not` is read as its `all` alone; an empty `all` fires on everything; equivalence is structural, so `{all: [A]}` and `A` are different, and `eq` on sets of texts depends on their order; `detect_conflicts` does not look at the
  status of the existing rule.
- *Learning.* Nothing in the host calls `propose_candidates`, `curate` or `back_test`: only tests do. Each pass proposes again what it proposed before; conflict records are appended again by each scan; shadow outcomes are never persisted; a pass of the curator pinned to one rule kind keeps proposals of the other.
  The tier-2 model's features are empty and its weights are lost with the process. The curator's schema requires `proposals`, while its type defaults them. No host code emits `proposal_ready`.
- *Wire.* A length that breaks off is read as a clean end of input; a replacement of an oversized notification is a response the extension ignores; an oversized `mail_command` is withheld and still reported as applied; an id of more than a frame would make the
  replacement too large and end the loop. The engine's map of decisions is never pruned.
- *Storage.* `VACUUM INTO` removes the old backup first, so a failing backup loses it; `backup` migrates the live database; a launch does not refuse a newer schema; nothing enforces that a restore is offline. One row that does not parse fails a whole query. Fakes know no UNIQUE or FOREIGN KEY
  constraint: `create_version` of an unknown definition is accepted by them; they ignore the rule filter of the audit query. The drain may list a row up to the rest of a second early. `add_features` is not one transaction. The message, thread, sender and draft repositories have no caller outside tests.
- *Pages.* After a connection that was not ready at opening or at a reconnect only the active tab pulls again, and the other badges stay 0. `approveAllSafe` and `dismissCard` disable no button and send approved rows again. A failed classification after a drop overwrites the recovery card.
- *Training.* `evaluate_adapter` runs the base provider; the compatibility hashes come from the artifact itself; no promotion demotes an earlier active adapter; the user's approval (`architecture.md:3043`) is never asked; a crash between the evaluation run and `set_status` leaves
  a candidate; two rows about one message may fall in different splits; `InProcessTrainer` makes no LoRA adapter.
- *Providers.* `runtime.rs:179` wires the unavailable provider; `classify_email`, `summarize_thread`, `extract_tasks` and `ProviderRegistry` have no caller in the host.

## 5. Proofs

Everything here is for all items, versions, cadences, builds, rules, mails, requests and bounds, from the named assumptions on the constants alone.
Each theorem of the form `Spec => []Inv` has an inductive invariant, one lemma per action that touches it, and a last step by temporal logic.

- `FollowUpProofs`, first half, with or without the worker thread. First what `EvaluateDue`, `NextDueAfter` and `AdvanceAfterReview` return: a fired step is due, fresh
  and not passed by the cursor; a next due time is absent exactly when no step is ahead. Then `TypeCorrect`, `DueExactlyWhenArmed`,
  `AwaitingReviewIsRecorded`, `NotifiedDraftsAreRecorded`. The last three are not inductive: a thread writes what it decided from a snapshot,
  so `RecordInv` adds what each snapshot must carry at each program counter (a listed row was
  armed; between the append and the update, the fired step is on record; what the report holds was recorded and not yet shown).
- `FollowUpProofs`, second half, assuming `~TickerOn` (the default, `tick_seconds = 0`). `FreshInv` says that the drain and a request never
  overlap, so that a snapshot still equals its row when it is used and separate calls act as one step. On it rest
  - `TerminalStaysFinal`, `CursorAdvances` and the refinement `LifecycleIsImplemented`;
  - `StepsAreDraftedOnce`: `CountInv` bounds the rows of a step by the drains cut off *so far* for as long as the step can still be drafted, and allows one
    more only between the append and the update. Which steps can still be drafted shrinks as the row moves on;
  - `StepsAreAnnouncedOnce`: `ToldInv`, a step that can still be drafted is neither announced nor in a report, and one in a report is not announced;
  - `NoStepIsSkippedSilently`: what a sweep folds into the step it drafts lies below it and, the dates being in order, was due when that one was (`EarlierIsDueFirst`); the step that is drafted is due, within the horizon, and recorded before the cursor moves;
  - `CatchUpCoversAll`: `SweepCovers`, as long as no call has failed a row that was due at the start of the sweep is on its list or has no due step any more;
  - `ReplyStopsItsThread`: `ReplyCovers`, an item of the thread is on the request's list or already stopped.
- `ExtensionProofs`, the native port: `TypeCorrect` and `ReadyIsNeverClaimedLate`. That *ready* means that this port was answered is not inductive: an answer of an old port must not
  count. `PendingIsCurrent` adds that every pending request was posted on the port the page holds, which `onDisconnect` and `retry` maintain by
  clearing the map; `RequestsKept`, that a request never changes its port and is settled once, holds of every step.
- `ExtensionProofs`, the wire: `FramesGoOutWhole`, for frames and drains of any number. `WireInv` says who may leave the output in the middle of a frame: the thread that holds the lock
  has sent the length of its first frame and no more, with nobody in the writer the output ends with a body unless the pipe broke (`LockInv`), and a thread
  takes up new frames only when it has none left (`NothingLeftBehind`).
- `ExtensionProofs`, the buffers: `BuffersLoseNothing`. Between its read and its write a handler holds what storage is going to be, so exactness is not inductive: `ExactInv` says
  what a handler has yet to do to each buffer (`QueueLeft`, `AttentionLeft`), that this is what it was told, and that as long as none have met, been cut off or had a storage call fail there is one writer at most.
- `DashboardProofs`: `FiltersStayApart`, and of the two pages together `FiltersStayApartInPages`, for any decisions, cards and filters and any number of clicks and drops. Filters are
  mixed by an answer that arrives late, so `FilterInv` speaks of what is under way: the newest request for events, on its way or answered, is for the filter that is pressed, and
  an answer has the events that were asked for (`LinkFits`); a chip bar has the pressed filter and its events (`PaneFits`). Of `Only`, the selection from a list, the lemmas
  show that the positions it picks, the n-th smallest of a finite set of numbers, exist: the rank of a position is injective into an interval of the same size, hence onto it.
- `DashboardProofs`, second half: `PagesAlwaysSettle`, whatever is lost, refused, overtaken or comes meanwhile, and however much of it. What a page shows is what it was told last, and each
  thing it shows is a key (the phase, the pause switch, a badge, a list); a message tells a key one value or none (`Says`). `Settles` says that the last message in the inbox that tells a key,
  else the page, has it right; `Fresh` that this holds or a call that asks for the key is in flight. On these, `SettleInv`: a key that is not fresh has a broadcast on the way, or a
  timer or a review under way, that makes the page ask; once the connection was interrupted only the header is claimed, but it is claimed for good. A call that a newer paint of its list has overtaken
  does not count, as its answer is dropped (`Older`, `Aged`); the open tab is the one whose list is asked for (`TabsFollow`). `PanelInv` is the same for the panel, with the call that each
  transient card waits for. One lemma per handler says what it takes, asks and shows (`TurnOk`, `PanelTurn`); one for all of them says that such a turn keeps every key fresh.
- `LearningProofs`: `HistoryVouchesForOne`, for a promotion bar above one half and tables of any size: rows of two folders are counted apart (`CountsApart`), and two shares
  of more than half are more than there is (`TwoMajorities`). `ScansAreComplete`: `ScanInv` says of two rules of one kind and scope
  that were active all through a scan and contradict that the turn of their kind and scope is still to come, or the pair is on the list of the turn under way, or it is recorded. `CuratorIsHarmless`: what is kept of an answer was valid as a whole and asked for (`AdviceInv`). `CuratorIsTraced`:
  `TraceInv` names a proposal by its pass and its place, so that at most one is between its save and its audit entry, and pays for each unheard one with a pass that was cut short.
- `PersistenceProofs`, the configuration: `TypeCorrect`, `UnstartableFilesAreForetold`, `PauseSurvives`, `SavedSettingsTakeEffect`. The inductive invariant `ConfigInv` relates what the user was
  told to the live copy while a host runs (`PauseHolds`), and to the file when it was answered as saved (`PauseHolds`, `SavedIsInFile`): a launch reads the file, so it
  is the file that has to carry the answer. That a file that does not load was foretold is not inductive, as a pause saves whatever is live: `RefusedIsForetold` says the same of the live configuration.
- `PersistenceProofs`, the file: `SchemaIsAlwaysAPrefix`, `SchemaIsAlwaysComplete`, `RestoreIsAlwaysExact` and the refinement `DatabaseIsImplemented`. The
  inductive invariant says of every image there is, in the file, in a log, in a snapshot or half-way through a copy, that its applied versions are an
  initial segment and that their tables are there; what each program counter of a process knows of the file; and when a log may be played back over a restored file: never.
- `PersistenceProofs`, tables and fakes: `FakesMirrorTheTables` (every query of the fakes returns the rows of the tables, whatever was called, up to the first call that only the database refuses) and `DrainIsToTheSecond`. `MirrorInv` says what the two hold in
  common, `Alike`: the same rows, and versions numbered from 1 without a gap on both sides, so that the greatest number is also the count that the fake goes by.
- `PersistenceProofs`, the tables without a fake: `NoBodyWithoutConsent`, `NothingIsOrphaned`, `TheLastWordIsKept`, `EvidenceIsNeverHalf`, `ListsAreInOrder`, `ColumnsKeepTheirTypes`, for any number of calls; with the two above they
  are `RepositoriesAlwaysHold`, all of what the run checks of the repositories. `RecordsInv` ties the tables to
  what their callers were told: a row has the columns of its table (`Whole`), it is the row that was last told of (`TwinInv`), what it points to exists (`LinkInv`), a proposal has
  the sources it was saved with (`SourceInv`), and a feature that was told of is there (`FeatureInv`). `TypedInv` adds what each column may hold; that a time is a natural number is what the order
  of lists needs. A list is put in order by rank, the number of rows that come before a row: among rows that are finitely many the rank goes through `1 .. n` once (`RankFacts`), so a list has
  every row that was asked for and no row twice (`SortedFacts`). The order of two texts is that of their seconds (`TextFacts`), for fractions of one digit, though not that of their fractions.
- `MailActionsProofs`: `PolicyHoldsAtTheMailbox`, `CardsFollowTheirCommands`, `EchoesAreNotLearned`, for any rule snapshots, any mails and any number of handlers in
  flight. `MailInv` has three parts. What is on the wire or in a handler was computed by the host: `PlanType` and the lemmas under it prove
  that the translation, the planner and the guard let through effects of applied active action rules only, and no move when the classification is sensitive.
  A mail is handled by the host once (`ReportedOnce`, `NothingBefore`), so the decision a command was made by is still the one on record when it arrives
  (`CommandsDecided`), and the card is behind the commands (`ReadyIsLast`). A move by the host is the mail's first, and the Message-ID of a mail that can be told apart (`ToldApart`) is marked from before the
  move until the event is delivered (`MovesRemembered`, `EventsOK`): no event of the user's, of this mail or of another, can come before it and use up the mark.
- `MailActionsProofs`, the rules: `RulesNeverFireForWant` and `ReportedConflictsAreReal`, for conditions of any shape. A node stands over earlier nodes, so a claim about conditions goes
  from node to node (`NodeByNode`). By that the evaluation of a condition exists and is the one value `EvaluateCondition` can pick (`Evaluated`), two messages that agree on
  what the predicates see evaluate alike (`OnlyPartsMatter`), a condition without negation that holds goes on holding as fields are added, and two equivalent
  conditions hold of the same messages (`EquivalentAgree`): a permutation that matches the parts of two nodes carries the witness of one to the other.
- `ProposalReviewProofs`: every invariant `proposal_review` checks
  (`AcceptanceIsDone`, `DecisionIsRecorded`, `EvaluatedIsApproved`), and `TypeCorrect`, `DecidedOnce`, `NoTraceUndecided`. They rest on
  one inductive invariant, `ReviewInv`, which adds what each program counter of a review implies (its verdict, that the
  proposal is undecided before `SetStatus` and decided after, that the effect is there once `note` is reached), that
  only decided proposals have feedback, who may have written to a rule, and how a rule can have come to a status that a snapshot takes up (`Held`).
  What is said of `engine` is not inductive, since a later `Relaunch` reads the tables: `Consented` says the same of the current content of each rule (`ContentHasAnAuthor`), and needs that
  what a proposal asks for is fixed when it is emitted (`RequestIsFixed`) and that a person's approval is not taken back (`ApprovalIsKept`).
- `TrainingProofs`: `ActiveWasAlwaysApproved`, `HoldoutIsNeverTrainedOn` and, of what a dataset lets out, `ExportsAreAlwaysAsDeclared`, for any labels, bodies and number of examples. The last takes redaction as it is
  (`Enforced`: an example that is let through quotes nothing its level does not allow; `SelectedHasLine`: what is selected is rendered; `Built`: the level declared is the greatest there is). The first needs what a run carries from its evaluation to `set_status`; the
  second that a dataset holds only rows of the splits of its view, whatever the tables held when it was collected.

Functions over the length of a sequence (`Kept`, the flattening of the rules' actions) are proved about through the set of lengths for which the claim holds: it
contains 0 and each successor, hence every length (`UpTo`, `Recursion` in `MailActionsProofs`). This is possible because the functions are defined by recursion over a number.

Only model-checked:

- liveness under fairness and `ENABLED`, which are out of the prover's reach;
- the five properties of the second half of `FollowUpProofs` in the presence of the worker thread, as far as they hold there.

## 6. What is not modelled

`PROJECT.json` lists every component with its status and reason. Left out are: the conflict check between workflow definitions, which nothing on the live path calls; the workflow kinds of
proposals, which take the same calls as a rule's; the handlers that only read; DTOs, manifest and conversions, which are data; the settings form, the compose panel, the
context menu and the reading of a message, straight-line code without state of its own; HTTP; the regression of the tier-2 model, which is floating point; the detection of
safety flags by keywords; simulation and benchmark. Two host processes over one database after a Retry are argued for (section 2), not modelled.

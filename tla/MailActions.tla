----------------------------- MODULE MailActions -----------------------------
(***************************************************************************)
(* From a new mail to what becomes of it in Thunderbird.  The extension    *)
(* reports the mail; the host decides (module Decision), sends one         *)
(* mail_command for each allowed action and then classification_ready; the *)
(* extension runs every command in a handler of its own, and reports the   *)
(* moves it observes, except the echoes of the host's own.                 *)
(*                                                                         *)
(* The host serves one frame at a time, so a handler of it is one step.    *)
(* The extension's handlers are async: a handler in flight is a task, and  *)
(* between two awaits of one another may run.  The calls to Thunderbird    *)
(* are external: a message has a numeric id, which a move of it changes,   *)
(* and the Message-ID its sender gave it, which it keeps.  Two copies of   *)
(* one mail have the same, and a mail may have none.                       *)
(***************************************************************************)
EXTENDS Decision, FiniteSets

CONSTANTS
  Messages,       \* the mails that arrive
  Contents,       \* what a mail may be: [fields, model, header]
  Stores,         \* the rules a host may be launched with: sequences of rules
  Inbox,          \* where mails arrive
  UserFolders,    \* where the user moves mails
  MaxUserActs,    \* bound: moves, acceptances and reversals of the user
  MaxPauses,      \* bound: switches of the pause
  MaxLosses       \* bound: losses of the native port, suspensions of the page

ASSUME ConstantsAssumption ==
  /\ MaxUserActs \in Nat /\ MaxPauses \in Nat /\ MaxLosses \in Nat
  /\ Inbox \notin UserFolders

\* A store is a sequence of rules, an effect has a list of tags and a list of
\* the kinds of action to be reviewed.
ASSUME StoresAssumption ==
  \A rules \in Stores :
    /\ rules \in Seq(Range(rules))
    /\ \A i \in DOMAIN rules :
         /\ rules[i].effect.tag \in Seq(STRING)
         /\ rules[i].effect.review_for \in Seq(STRING)

VARIABLES
  store,      \* the rules the host was launched with
  paused,     \* the pause switch
  box,        \* the mailbox: for each mail its content, folder, id, tags, junk
  toHost,     \* frames on the way to the host
  toExt,      \* frames on the way to the extension
  tasks,      \* the extension's mail_command handlers in flight
  hostMoves,  \* the Message-IDs whose next move is taken for an echo
  events,     \* onMoved events not delivered yet
  filings,    \* moves the host has learned a filing from: [mail, by]
  spent,      \* what the bounds have left room for
  \* History: what was decided of each mail, the commands answered for, the
  \* mails whose classification_ready has arrived, and those whose coming
  \* echo a suspension of the page forgot.
  decided, answered, ready, forgotten

thunderbird == <<box, events>>
extension   == <<tasks, hostMoves, ready, forgotten>>
host        == <<store, paused, filings, decided>>
wire        == <<toHost, toExt>>
vars == <<thunderbird, extension, host, wire, spent, answered>>

-----------------------------------------------------------------------------
Undecided == [allowed |-> <<>>, review |-> <<>>, applied |-> <<>>]

\* What is kept of a plan, and what of it was applied.
Decided(plan, applied) ==
  [classification |-> plan.classification, allowed |-> plan.allowed,
   review |-> plan.review, applied |-> applied]

Frame(kind, mail) == [kind |-> kind, mail |-> mail]

\* A mail_command: the n-th action of the plan for a mail, by the mail's id.
Command(mail, id, n, action) ==
  [kind |-> "mail_command", mail |-> mail, id |-> id, n |-> n, action |-> action]

Arrived == {m \in Messages : box[m].id > 0}

\* headerMessageId: "" is a mail without one.
MessageId(m) == box[m].content.header

Init ==
  /\ store \in Stores
  /\ paused \in BOOLEAN
  /\ box \in [Messages -> {[content |-> c, folder |-> Inbox, id |-> 0,
                            tags |-> {}, junk |-> "no"] : c \in Contents}]
  /\ toHost = <<>> /\ toExt = <<>> /\ events = <<>>
  /\ tasks = {} /\ hostMoves = {} /\ filings = {}
  /\ spent = [acts |-> 0, pauses |-> 0, losses |-> 0]
  /\ decided = [m \in Messages |-> Undecided]
  /\ answered = {} /\ ready = {} /\ forgotten = {}

-----------------------------------------------------------------------------
(* Thunderbird and its user *)

\* onNewMailReceived: the mail is read and reported.
NewMail(m) ==
  /\ m \notin Arrived
  /\ box' = [box EXCEPT ![m].id = 1]
  /\ toHost' = Append(toHost, [kind |-> "new_mail", mail |-> m, id |-> 1])
  /\ UNCHANGED <<toExt, events, extension, host, spent, answered>>

\* A move gives the mail a new id, and is announced as an event.
Moved(m, folder, by) ==
  /\ box' = [box EXCEPT ![m].folder = folder, ![m].id = @ + 1]
  /\ events' = Append(events, [mail |-> m, by |-> by])

UserMoves(m, folder) ==
  /\ m \in Arrived /\ box[m].folder # folder /\ spent.acts < MaxUserActs
  /\ Moved(m, folder, "user")
  /\ spent' = [spent EXCEPT !.acts = @ + 1]
  /\ UNCHANGED <<wire, extension, host, answered>>

SetPause ==
  /\ spent.pauses < MaxPauses
  /\ paused' = ~paused
  /\ spent' = [spent EXCEPT !.pauses = @ + 1]
  /\ UNCHANGED <<thunderbird, wire, extension, store, filings, decided, answered>>

\* The port closes, with it the host and what is on the wire; the next
\* message of the extension finds a new host, launched with the same rules.
LosePort ==
  /\ spent.losses < MaxLosses
  /\ toHost' = <<>> /\ toExt' = <<>>
  /\ spent' = [spent EXCEPT !.losses = @ + 1]
  /\ UNCHANGED <<thunderbird, extension, host, answered>>

\* The event page is suspended: its handlers, its Map and its port are gone,
\* and the next event starts it anew.  A call to Thunderbird that was under
\* way has taken effect by then, or does not.
SuspendPage ==
  /\ spent.losses < MaxLosses
  /\ toHost' = <<>> /\ toExt' = <<>> /\ tasks' = {} /\ hostMoves' = {}
  /\ forgotten' = forgotten \cup {m \in Messages : MessageId(m) \in hostMoves}
  /\ spent' = [spent EXCEPT !.losses = @ + 1]
  /\ UNCHANGED <<thunderbird, ready, host, answered>>

-----------------------------------------------------------------------------
(* The host *)

\* What is applied: every allowed action, in the order of the plan.
Commands(m, id, plan) ==
  [n \in DOMAIN plan.allowed |-> Command(m, id, n, plan.allowed[n])]

\* Mutant: the notification leaves before the commands.
NotifyFirst(m, id, plan) ==
  <<Frame("classification_ready", m)>> \o (IF paused THEN <<>> ELSE Commands(m, id, plan))

Sent(m, id, plan) ==
  (IF paused THEN <<>> ELSE Commands(m, id, plan)) \o <<Frame("classification_ready", m)>>

\* What is decided is a function of the rules and of the mail: its table.
Plans == {[rules |-> r, content |-> c, plan |-> Decide(r, c)] : r \in Stores, c \in Contents}

\* handle_new_mail: decide, apply what is allowed unless paused, and notify.
HandleNewMail ==
  /\ toHost # <<>> /\ Head(toHost).kind = "new_mail"
  /\ LET m == Head(toHost).mail
     IN  \E p \in Plans :
           /\ p.rules = store /\ p.content = box[m].content
           /\ toExt' = toExt \o Sent(m, Head(toHost).id, p.plan)
           /\ decided' = [decided EXCEPT ![m] =
                            Decided(p.plan, IF paused THEN <<>> ELSE p.plan.allowed)]
  /\ toHost' = Tail(toHost)
  /\ UNCHANGED <<thunderbird, extension, store, paused, filings, spent, answered>>

\* record_user_action: a move is a filing to learn, a result only audited.
HandleRecord ==
  /\ toHost # <<>> /\ Head(toHost).kind \in {"result", "message_moved"}
  /\ LET f == Head(toHost)
     IN  /\ answered' = IF f.kind = "result" /\ f.n > 0 THEN answered \cup {<<f.mail, f.n>>} ELSE answered
         /\ filings' = IF f.kind = "message_moved"
                       THEN filings \cup {[mail |-> f.mail, by |-> f.by]} ELSE filings
  /\ toHost' = Tail(toHost)
  /\ UNCHANGED <<thunderbird, extension, store, paused, decided, toExt, spent>>

-----------------------------------------------------------------------------
(* The extension *)

Result(c) == [kind |-> "result", mail |-> c.mail, n |-> c.n]

\* The id a command carries still names the mail.
Found(c) == box[c.mail].id = c.id

\* What the user asked for on the card is not a command of the host: it has
\* a number below 0, and is recorded only when it was done.
ByUser(c) == c.n < 0

Reported(c, done) == IF ByUser(c) /\ ~done THEN toHost ELSE Append(toHost, Result(c))

\* applyPlannedAction to its first await: a tag reads the tags the mail has,
\* a move its header.
Started(c) == tasks \cup {[command |-> c, at |-> c.action.kind, tags |-> box[c.mail].tags]}

\* A notification arrives: the review queue takes the decision.
ReceiveReady ==
  /\ toExt # <<>> /\ Head(toExt).kind = "classification_ready"
  /\ ready' = ready \cup {Head(toExt).mail}
  /\ toExt' = Tail(toExt)
  /\ UNCHANGED <<thunderbird, tasks, hostMoves, forgotten, host, toHost, spent, answered>>

\* Mutant: a message that is not found leaves the handler without an answer.
ReceiveUncaught ==
  /\ toExt # <<>> /\ Head(toExt).kind = "mail_command"
  /\ LET c == Head(toExt)
     IN  /\ c.action.kind \in {"tag", "move"}
         /\ tasks' = IF Found(c) THEN Started(c) ELSE tasks
  /\ toExt' = Tail(toExt)
  /\ UNCHANGED <<thunderbird, hostMoves, ready, forgotten, host, toHost, spent, answered>>

\* A command arrives, and its handler starts.
ReceiveCommand ==
  /\ toExt # <<>> /\ Head(toExt).kind = "mail_command"
  /\ LET c == Head(toExt)
     IN  /\ c.action.kind \in {"tag", "move"}
         /\ IF Found(c) THEN tasks' = Started(c) /\ UNCHANGED toHost
                        ELSE toHost' = Reported(c, Found(c)) /\ UNCHANGED tasks
  /\ toExt' = Tail(toExt)
  /\ UNCHANGED <<thunderbird, hostMoves, ready, forgotten, host, spent, answered>>

\* The junk flag is set with one call.
MarkJunk ==
  /\ toExt # <<>> /\ Head(toExt).kind = "mail_command"
  /\ LET c == Head(toExt)
     IN  /\ c.action.kind = "mark_junk"
         /\ box' = IF Found(c) THEN [box EXCEPT ![c.mail].junk = c.action.to] ELSE box
         /\ toHost' = Reported(c, Found(c))
  /\ toExt' = Tail(toExt)
  /\ UNCHANGED <<events, extension, host, spent, answered>>

\* addTag and applyReverse: the tags that were read, with one more or one
\* less, replace those there are.
WriteTags(t) ==
  /\ t \in tasks /\ t.at \in {"tag", "untag"}
  /\ LET c    == t.command
         tags == IF t.at = "tag" THEN t.tags \cup {c.action.to} ELSE t.tags \ {c.action.to}
     IN  /\ box' = IF Found(c) THEN [box EXCEPT ![c.mail].tags = tags] ELSE box
         /\ toHost' = Reported(c, Found(c))
  /\ tasks' = tasks \ {t}
  /\ UNCHANGED <<events, hostMoves, ready, forgotten, toExt, host, spent, answered>>

\* The header is there: the coming echo is remembered under its Message-ID,
\* if it has one, and the move asked for.
RememberHostMove(t) ==
  /\ t \in tasks /\ t.at = "move"
  /\ hostMoves' = hostMoves \cup ({MessageId(t.command.mail)} \ {""})
  /\ tasks' = (tasks \ {t}) \cup {[t EXCEPT !.at = "moving"]}
  /\ UNCHANGED <<thunderbird, ready, forgotten, wire, host, spent, answered>>

\* Mutant: a move that failed takes back what was remembered.
MoveOrForget(t) ==
  /\ t \in tasks /\ t.at = "moving"
  /\ LET c == t.command
     IN  \E done \in {FALSE, Found(c)} :
           /\ IF done THEN Moved(c.mail, c.action.to, "host") ELSE UNCHANGED thunderbird
           /\ hostMoves' = IF done THEN hostMoves ELSE hostMoves \ {MessageId(c.mail)}
           /\ toHost' = Reported(c, done)
  /\ tasks' = tasks \ {t}
  /\ UNCHANGED <<ready, forgotten, toExt, host, spent, answered>>

\* Thunderbird moves the mail, or no longer finds it, or knows no such folder.
MoveMessage(t) ==
  /\ t \in tasks /\ t.at = "moving"
  /\ LET c == t.command
     IN  \E done \in {FALSE, Found(c)} :
           /\ IF done THEN Moved(c.mail, c.action.to, "host") ELSE UNCHANGED thunderbird
           /\ toHost' = Reported(c, done)
  /\ tasks' = tasks \ {t}
  /\ UNCHANGED <<hostMoves, ready, forgotten, toExt, host, spent, answered>>

\* onMoved: a move of a Message-ID that is remembered is dropped as the echo,
\* whichever folder or copy it is of, and any other move reported.
Observe ==
  /\ events # <<>>
  /\ LET m == Head(events).mail
     IN  /\ hostMoves' = hostMoves \ {MessageId(m)}
         /\ toHost' = IF MessageId(m) \in hostMoves THEN toHost
                      ELSE Append(toHost, [kind |-> "message_moved", mail |-> m,
                                           by |-> Head(events).by])
  /\ events' = Tail(events)
  /\ UNCHANGED <<box, tasks, ready, forgotten, toExt, host, spent, answered>>

\* The user accepts a move that awaits review (applySuggestion), or reverses
\* a tag that was applied (undoAuto).
ActOnCard(m, action) ==
  /\ m \in ready /\ spent.acts < MaxUserActs
  /\ LET c == Command(m, 1, -1 - spent.acts, action)
     IN  tasks' = IF Found(c) THEN Started(c) ELSE tasks
  /\ spent' = [spent EXCEPT !.acts = @ + 1]
  /\ UNCHANGED <<thunderbird, hostMoves, ready, forgotten, wire, host, answered>>

Accept(m) ==
  \E a \in Range(decided[m].review) : a.kind = "move" /\ ActOnCard(m, a)

UndoTag(m) ==
  \E a \in Range(decided[m].applied) :
    a.kind = "tag" /\ ActOnCard(m, [a EXCEPT !.kind = "untag"])

-----------------------------------------------------------------------------
ExtensionSteps ==
  \/ ReceiveReady \/ ReceiveCommand \/ MarkJunk \/ Observe
  \/ \E t \in tasks : WriteTags(t) \/ RememberHostMove(t) \/ MoveMessage(t)

Next ==
  \/ \E m \in Messages : NewMail(m) \/ \E f \in UserFolders : UserMoves(m, f)
  \/ \E m \in Messages : Accept(m) \/ UndoTag(m)
  \/ SetPause \/ LosePort \/ SuspendPage
  \/ HandleNewMail \/ HandleRecord
  \/ ExtensionSteps

\* The request loop reads on; the event loop runs what is pending; a call to
\* Thunderbird returns.
Fairness ==
  /\ WF_vars(HandleNewMail \/ HandleRecord)
  /\ WF_vars(ExtensionSteps)

Spec == Init /\ [][Next]_vars /\ Fairness

-----------------------------------------------------------------------------
(* Properties *)

\* The host's commands on their way or being run.
InFlight ==
  {c \in Range(toExt) : c.kind = "mail_command"}
    \cup {c \in {t.command : t \in tasks} : ~ByUser(c)}

\* The policy of policy/src/lib.rs:9-14 at the far end of the wire: whatever
\* the rules ask for and however frames and handlers interleave, no handler
\* of the extension is about to move a mail classified as sensitive, and what
\* it runs is the effect of an active rule, never only of a shadow rule.
SafetyFloor ==
  \A c \in InFlight :
    /\ c.action.kind = "move" => ~Sensitive(decided[c.mail].classification)
    /\ \E i \in DOMAIN store :
         /\ store[i].kind = "action" /\ store[i].status = "active"
         /\ c.action \in Range(Translate(store[i].effect))

\* router.rs:391-393: a paused host does not act on its own.  Every command
\* the extension runs was sent while the host was not paused, and none for a
\* mail is still to come when the mail's card says what has been applied.
CardFollowsCommands ==
  \A c \in InFlight :
    /\ c.n \in DOMAIN decided[c.mail].applied
    /\ c.mail \in ready => c \notin Range(toExt)

\* The mails whose moves the extension can tell apart: those with a Message-ID
\* that no other moved mail has, and that no suspension made it forget.
ToldApart(m) ==
  /\ MessageId(m) # "" /\ m \notin forgotten
  /\ \A k \in Messages : k # m /\ MessageId(k) = MessageId(m) => box[k].id <= 1

\* drafts.js:31-34: a move that MailMate made is not learned as one the user
\* taught, although handlers, failed moves, user moves and events interleave.
\* The comment excepts nothing; the code does not keep it of a mail without a
\* Message-ID, of one of which another copy was moved too, and of one whose
\* mark was lost when the page was suspended between the move and its event.
HostMovesAreNotLearned == \A f \in filings : f.by = "host" => ~ToldApart(f.mail)

\* drafts.js:79-80: unless the port is lost or the page suspended, every command
\* that was sent is answered with a result.
CommandsAreAnswered ==
  \A m \in Messages :
    decided[m].applied # <<>> ~>
      \/ \A n \in DOMAIN decided[m].applied : <<m, n>> \in answered
      \/ spent.losses > 0

\* rules/effect.rs:20-22: the kinds of action a rule names are held for human
\* review.  Stated of every rule that applied to the mail.
HeldKindsWaitForReview ==
  \A c \in InFlight :
    LET fields  == ActionFields(box[c.mail].content, decided[c.mail].classification)
        applied == Range(AppliedRules(Snapshot(store, "action"), fields))
    IN  \A r \in applied : c.action.kind \notin Range(r.effect.review_for)

\* drafts.js:138: adding a tag preserves the tags the mail has.
TagsArePreserved ==
  [][\A t \in tasks \ tasks' :
       t.at = "tag" => box[t.command.mail].tags \subseteq box'[t.command.mail].tags]_vars
=============================================================================

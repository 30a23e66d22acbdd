----------------------------- MODULE Dashboard -----------------------------
(***************************************************************************)
(* The dashboard (dashboard.js): four tabs over one content element, their *)
(* badges, the header, the cards and what their buttons start.  Every      *)
(* handler runs from one await to the next; in between, the background     *)
(* answers other calls and broadcasts what the host sent.                  *)
(***************************************************************************)
EXTENDS PageLink, FiniteSets

CONSTANTS
  Decisions,    \* decisions that may wait in the review queue
  Suggested,    \* Suggested[d]: the applicable suggestions of a decision, in order
  Reversible,   \* decisions with an auto-applied action that can be undone
  Fixed,        \* decisions with an auto-filed move: its Undo is disabled for good
  Proposals,    \* rule proposals
  Deals,        \* deals of the follow-up pipeline
  Filters,      \* filter chips of the activity tab
  Waiting,      \* what waits when the page is opened
  MaxClicks,    \* bound: what the user does
  MaxArrivals   \* bound: what the host sends

\* The ids of decisions, proposals and deals are not mixed up.
ASSUME DashboardAssumption ==
  /\ Decisions \intersect Proposals = {} /\ Decisions \intersect Deals = {}
  /\ Proposals \intersect Deals = {}
  /\ Suggested \in [Decisions -> Seq(STRING)]
  /\ Reversible \subseteq Decisions /\ Fixed \subseteq Decisions
  /\ "all" \in Filters /\ MaxClicks \in Nat /\ MaxArrivals \in Nat

Tabs   == {"review", "followups", "proposals", "activity"}
Badges == Tabs \ {"activity"}

VARIABLES
  \* the page
  screen,       \* "boot", "step1" .. "step4" of the walkthrough, "app"
  activeTab, activityFilter,
  pane,         \* content(): [of, bar, events], whose it is, its chip bar, its events
  cards,        \* the cards in it, and the detached ones a handler still holds
  counts,       \* the tabs' badges, None before the first
  timer,        \* reviewRefreshTimer
  header,       \* [last, banner, pause]: lastPhase, the banner, the pause label
  \* what it shows
  queue,        \* the buffered review queue
  proposals,    \* pending proposals of the host
  deals,        \* actionable deals of the host
  paused,       \* the host's pause switch
  stash,        \* mm:focusTab in storage.session
  owed,         \* broadcasts the background has yet to send
  clicks, arrivals

page  == <<screen, activeTab, activityFilter, pane, cards, counts, timer, header>>
world == <<queue, proposals, deals, paused, stash, owed>>
spent == <<clicks, arrivals>>
vars  == <<link, page, world, spent>>

-----------------------------------------------------------------------------
\* Calls.  A "paint" rebuilds the content, a "count" only sets a badge.
Lists == [review |-> "queue", proposals |-> "proposals",
          followups |-> "followups", activity |-> "activity"]

Count(tab) == [Call(Lists[tab]) EXCEPT !.way = "count"]

Paint(tab, then) ==
  [Call(Lists[tab]) EXCEPT !.way = "paint", !.then = then,
                           !.item = IF tab = "activity" THEN activityFilter ELSE None]

\* A newer paint of a tab takes the sequence number from those in flight.
Request(in, new) ==
  LET started == {new[i].ask : i \in {j \in DOMAIN new : new[j].way = "paint"}}
      old(c)  == IF c.way = "paint" /\ c.ask \in started THEN [c EXCEPT !.newest = FALSE] ELSE c
  IN  Send([i \in DOMAIN calls |-> old(calls[i])],
           [i \in DOMAIN in |-> IF in[i].kind = "answer" THEN [in[i] EXCEPT !.call = old(@)]
                                                         ELSE in[i]],
           new)

\* The next message, an answer or an event, and what its handler then asks.
Message == Head(inbox)
Asked   == Message.call
Answered(ask, way) ==
  /\ inbox # <<>> /\ Message.kind = "answer"
  /\ Asked.ask = ask /\ Asked.way = way
Reply(new) == Request(Tail(inbox), new) /\ UNCHANGED <<world, spent>>

Click(new) ==
  /\ clicks < MaxClicks /\ clicks' = clicks + 1
  /\ Request(inbox, new)
  /\ UNCHANGED <<world, arrivals>>

-----------------------------------------------------------------------------
\* Cards.  One is known by its item and a number: the same decision may be on
\* the page while a handler still holds the card it was on before.
Id(c) == [item |-> c.item, n |-> c.n]

Held == {calls[i].card : i \in DOMAIN calls}
          \union {inbox[i].call.card : i \in {j \in DOMAIN inbox : inbox[j].kind = "answer"}}

Detached == {[c EXCEPT !.shown = FALSE] : c \in {d \in cards : Id(d) \in Held}}

Card(tab, item) ==
  [item |-> item, tab |-> tab, busy |-> {}, shown |-> TRUE,
   n    |-> CHOOSE n \in 1..Cardinality(cards) + 1 :
              /\ [item |-> item, n |-> n] \notin {Id(c) : c \in cards}
              /\ \A k \in 1..n - 1 : [item |-> item, n |-> k] \in {Id(c) : c \in cards},
   rows |-> IF tab = "review" THEN ToSet(Suggested[item]) ELSE {}]

Shown == {c \in cards : c.shown}

\* The one card a handler works on, changed.
Edit(id, op(_)) == cards' = {IF Id(c) = id THEN op(c) ELSE c : c \in cards}
Enable(id, button) == Edit(id, LAMBDA c : [c EXCEPT !.busy = @ \ {button}])
TakeOff(id)         == Edit(id, LAMBDA c : [c EXCEPT !.shown = FALSE])
RemoveRow(id, row) == Edit(id, LAMBDA c : [c EXCEPT !.rows = @ \ {row}, !.busy = @ \ {row}])
Disable(c, button) == Edit(Id(c), LAMBDA d : [d EXCEPT !.busy = @ \union {button}])

\* clear(c) and rebuild
Show(tab, items) ==
  /\ pane' = [of |-> tab, bar |-> None, events |-> {}]
  /\ cards' = Detached \union {Card(tab, k) : k \in items}

\* renderTab up to its first await; the activity tab has its chip bar at once.
RenderTab(tab) ==
  /\ pane' = IF tab = "activity" THEN [of |-> tab, bar |-> activityFilter, events |-> {}]
                                 ELSE [of |-> "loading", bar |-> None, events |-> {}]
  /\ cards' = Detached

SetCount(tab, n) == counts' = [counts EXCEPT ![tab] = n]

\* enterApp goes on when its render is over, painted or superseded.
Prime == IF Asked.then # "prime" THEN <<>>
         ELSE (IF activeTab # "proposals" THEN <<Count("proposals")>> ELSE <<>>)
                \o (IF activeTab # "followups" THEN <<Count("followups")>> ELSE <<>>)

-----------------------------------------------------------------------------
World ==
  /\ queue = Decisions \intersect Waiting
  /\ proposals = Proposals \intersect Waiting
  /\ deals = Deals \intersect Waiting
  /\ paused \in BOOLEAN
  /\ owed = {} /\ timer = FALSE /\ activityFilter = "all"

\* The document is loaded, by hand or by a notification.
Opened ==
  /\ LinkInit /\ calls = <<>> /\ World
  /\ screen = "boot" /\ activeTab = "review"
  /\ pane = [of |-> "empty", bar |-> None, events |-> {}]
  /\ cards = {} /\ counts = [t \in Badges |-> None]
  /\ header = [last |-> None, banner |-> FALSE, pause |-> FALSE]
  /\ stash \in {None, "proposals"}

Init == Opened /\ clicks = 0 /\ arrivals = 0

-----------------------------------------------------------------------------
\* Boot and walkthrough.
EnterApp ==
  /\ screen' = "app"
  /\ Request(inbox, <<Call("stash")>>)
  /\ UNCHANGED <<activeTab, activityFilter, pane, cards, counts, timer, header, world, spent>>

Boot ==
  /\ screen = "boot"
  /\ \/ EnterApp
     \/ screen' = "step1"
        /\ UNCHANGED <<link, activeTab, activityFilter, pane, cards, counts, timer, header,
                       world, spent>>

\* Back, Continue and the second step's Retry; that step asks for the status.
Steps == <<"step1", "step2", "step3", "step4">>

OnboardStep ==
  \E i, j \in 1..4 :
    /\ screen = Steps[i] /\ j \in {i - 1, i + 1} \union ({2} \intersect {i})
    /\ clicks < MaxClicks /\ clicks' = clicks + 1
    /\ screen' = Steps[j]
    /\ Request(inbox, IF j = 2 THEN <<[Call("status") EXCEPT !.way = "count"]>> ELSE <<>>)
    /\ UNCHANGED <<activeTab, activityFilter, pane, cards, counts, timer, header, world, arrivals>>

FinishOnboarding == screen \in {"step1", "step4"} /\ EnterApp

\* The answer fills the card of the step that asked, on the page or not.
OnStepStatus == Answered("status", "count") /\ Reply(<<>>) /\ UNCHANGED page

\* consumeFocusTab
OnStash ==
  /\ Answered("stash", "act")
  /\ activeTab' = IF Message.value = None THEN activeTab ELSE Message.value
  /\ Reply(<<Call("status")>>)
  /\ UNCHANGED <<screen, activityFilter, pane, cards, counts, timer, header>>

Banner(p) == [header EXCEPT !.last = p, !.banner = p # "ready"]

OnStatus ==
  /\ Answered("status", "act")
  /\ header' = Banner(Message.value)
  /\ Reply(<<[Call("settings") EXCEPT !.then = "boot"]>>)
  /\ UNCHANGED <<screen, activeTab, activityFilter, pane, cards, counts, timer>>

\* refreshSettings, and the render that waits for it
OnSettings ==
  /\ Answered("settings", "act")
  /\ header' = [header EXCEPT !.pause = Message.ok /\ Message.value]
  /\ RenderTab(activeTab)
  /\ Reply(<<Paint(activeTab, IF Asked.then = "boot" THEN "prime" ELSE "stop")>>)
  /\ UNCHANGED <<screen, activeTab, activityFilter, counts, timer>>

-----------------------------------------------------------------------------
\* Header and tabs.
Refresh ==
  /\ screen = "app"
  /\ Click(<<Call("settings")>>) /\ UNCHANGED page

Reconnect ==
  /\ screen = "app" /\ header.banner
  /\ Click(<<Call("reconnect")>>) /\ UNCHANGED page

OnReconnect ==
  /\ Answered("reconnect", "act")
  /\ header' = Banner(Message.value)
  /\ Reply(<<>>)
  /\ UNCHANGED <<screen, activeTab, activityFilter, pane, cards, counts, timer>>

DismissBanner ==
  /\ screen = "app" /\ header.banner
  /\ header' = [header EXCEPT !.banner = FALSE]
  /\ Click(<<>>)
  /\ UNCHANGED <<screen, activeTab, activityFilter, pane, cards, counts, timer>>

TogglePause ==
  /\ screen = "app"
  /\ Click(<<[Call("pause") EXCEPT !.item = IF header.pause THEN "resume" ELSE "pause"]>>) /\ UNCHANGED page

OnPause ==
  /\ Answered("pause", "act")
  /\ header' = IF Message.ok THEN [header EXCEPT !.pause = Message.value] ELSE header
  /\ Reply(<<>>)
  /\ UNCHANGED <<screen, activeTab, activityFilter, pane, cards, counts, timer>>

\* A tab is clicked, or Explain on a card.
SelectTab(tab) ==
  /\ screen = "app"
  /\ activeTab' = tab
  /\ RenderTab(tab)
  /\ Click(<<Paint(tab, "stop")>>)
  /\ UNCHANGED <<screen, activityFilter, counts, timer, header>>

SelectFilter(f) ==
  /\ pane.bar # None
  /\ activityFilter' = f
  /\ pane' = [of |-> "activity", bar |-> f, events |-> {}]
  /\ cards' = Detached
  /\ Click(<<[Paint("activity", "stop") EXCEPT !.item = f]>>)
  /\ UNCHANGED <<screen, activeTab, counts, timer, header>>

-----------------------------------------------------------------------------
\* Renders go on with the list they asked for, whatever tab is open by then.
OnPaintReview ==
  /\ Answered("queue", "paint")
  /\ SetCount("review", Cardinality(Message.value))
  /\ Show("review", Message.value)
  /\ Reply(Prime)
  /\ UNCHANGED <<screen, activeTab, activityFilter, timer, header>>

\* Mutant: every answer is painted, the newest or not.
OnPaintActivityLate ==
  /\ Answered("activity", "paint")
  /\ pane' = IF Message.ok THEN [pane EXCEPT !.events = @ \union {Message.value}] ELSE pane
  /\ Reply(Prime)
  /\ UNCHANGED <<screen, activeTab, activityFilter, cards, counts, timer, header>>

OnPaintActivity ==
  /\ Answered("activity", "paint")
  /\ pane' = IF Asked.newest /\ Message.ok
             THEN [pane EXCEPT !.events = @ \union {Message.value}] ELSE pane
  /\ Reply(Prime)
  /\ UNCHANGED <<screen, activeTab, activityFilter, cards, counts, timer, header>>

OnPaintList(tab) ==
  /\ tab \in {"proposals", "followups"} /\ Answered(Lists[tab], "paint")
  /\ IF Asked.newest
     THEN LET items == IF Message.ok THEN Message.value ELSE {}
          IN  Show(tab, items) /\ SetCount(tab, Cardinality(items))
     ELSE UNCHANGED <<pane, cards, counts>>
  /\ Reply(Prime)
  /\ UNCHANGED <<screen, activeTab, activityFilter, timer, header>>

OnCount(tab) ==
  /\ tab \in Badges /\ Answered(Lists[tab], "count")
  /\ SetCount(tab, IF Message.ok THEN Cardinality(Message.value) ELSE 0)
  /\ Reply(<<>>)
  /\ UNCHANGED <<screen, activeTab, activityFilter, pane, cards, timer, header>>

-----------------------------------------------------------------------------
\* Cards of the review queue.
ReviewCall(c, ask) == [Call(ask) EXCEPT !.item = c.item, !.card = Id(c)]
Onward(ask)        == [Asked EXCEPT !.ask = ask, !.way = "act"]

Press(c, button, new) ==
  /\ Disable(c, button)
  /\ Click(<<new>>)
  /\ UNCHANGED <<screen, activeTab, activityFilter, pane, counts, timer, header>>

Approve ==
  \E c \in Shown : \E row \in c.rows \ c.busy :
    c.tab = "review" /\ Press(c, row, [ReviewCall(c, "apply") EXCEPT !.row = row])

\* maybeResolve: with its last suggestion the card is resolved.
OnApply ==
  /\ Answered("apply", "act")
  /\ IF Message.ok
     THEN /\ RemoveRow(Asked.card, Asked.row)
          /\ Reply(IF \E c \in cards : Id(c) = Asked.card /\ c.rows \subseteq {Asked.row}
                   THEN <<Onward("resolve")>> ELSE <<>>)
     ELSE Enable(Asked.card, Asked.row) /\ Reply(<<>>)
  /\ UNCHANGED <<screen, activeTab, activityFilter, pane, counts, timer, header>>

Undo ==
  \E c \in Shown :
    /\ c.tab = "review" /\ c.item \in Reversible /\ "undo" \notin c.busy
    /\ Press(c, "undo", ReviewCall(c, "undo"))

\* row.remove() or the button again; a removed Undo has no use for the model.
OnUndo ==
  /\ Answered("undo", "act")
  /\ Enable(Asked.card, "undo")
  /\ Reply(<<>>)
  /\ UNCHANGED <<screen, activeTab, activityFilter, pane, counts, timer, header>>

\* approveAllSafe and dismissCard disable no button, and go through all the
\* suggestions the card was built with.
ApproveAll ==
  \E c \in Shown :
    /\ c.tab = "review" /\ Suggested[c.item] # <<>>
    /\ Click(<<[ReviewCall(c, "apply") EXCEPT !.way = "all", !.row = Head(Suggested[c.item]),
                                              !.todo = Tail(Suggested[c.item])]>>)
    /\ UNCHANGED page

NextOf(call) == [call EXCEPT !.row = Head(call.todo), !.todo = Tail(call.todo)]

OnApplyAll ==
  /\ Answered("apply", "all")
  /\ LET sofar == [Asked EXCEPT !.all = @ /\ Message.ok]
     IN  Reply(<<CASE sofar.todo # <<>> -> NextOf(sofar)
                   [] sofar.todo = <<>> /\ sofar.all -> Onward("resolve")
                   [] OTHER -> Paint("review", "stop")>>)
  /\ UNCHANGED page

Dismiss ==
  \E c \in Shown :
    /\ c.tab = "review"
    /\ LET rows == Suggested[c.item]
       IN  Click(<<IF rows = <<>> THEN ReviewCall(c, "resolve")
                   ELSE [ReviewCall(c, "dismiss") EXCEPT !.row = Head(rows), !.todo = Tail(rows)]>>)
    /\ UNCHANGED page

OnDismiss ==
  /\ Answered("dismiss", "act")
  /\ Reply(<<IF Asked.todo # <<>> THEN NextOf(Asked) ELSE Onward("resolve")>>)
  /\ UNCHANGED page

\* resolveReview has returned: the card goes, the badge is read again.
OnResolved ==
  /\ Answered("resolved", "act")
  /\ TakeOff(Asked.card)
  /\ Reply(<<Count("review")>>)
  /\ UNCHANGED <<screen, activeTab, activityFilter, pane, counts, timer, header>>

\* Cards of the proposals and of the pipeline: all their buttons go together.
Actions == [proposals |-> "decide", followups |-> "act"]

PressAll ==
  \E c \in Shown :
    /\ c.tab \in DOMAIN Actions /\ c.busy = {}
    /\ Press(c, "all", ReviewCall(c, Actions[c.tab]))

\* reviewProposal removes the card at once, runFollowupAction leaves it to the
\* render.
OnPressed(tab) ==
  /\ tab \in DOMAIN Actions /\ Answered(Actions[tab], "act")
  /\ IF ~Message.ok THEN Enable(Asked.card, "all") /\ Reply(<<>>)
     ELSE /\ IF tab = "proposals" THEN TakeOff(Asked.card) ELSE UNCHANGED cards
          /\ Reply(<<Paint(tab, "stop")>>)
  /\ UNCHANGED <<screen, activeTab, activityFilter, pane, counts, timer, header>>

-----------------------------------------------------------------------------
\* Live updates.
Told(name) == inbox # <<>> /\ Message.kind = "event" /\ Message.name = name

\* The walkthrough owns the screen: nothing is taken in.
OnEventHidden ==
  /\ inbox # <<>> /\ Message.kind = "event" /\ screen \in ToSet(Steps)
  /\ Reply(<<>>) /\ UNCHANGED page

Visible == screen \in {"boot", "app"}

\* Recovered: what was missed while the host was down is read again.
OnStatusChanged ==
  /\ Told("status") /\ Visible
  /\ LET p == Message.value
         recovered == p = "ready" /\ header.last \notin {None, "ready"}
     IN  /\ header' = IF p # "ready" \/ recovered THEN Banner(p) ELSE [header EXCEPT !.last = p]
         /\ Reply(IF recovered THEN <<Call("settings")>> ELSE <<>>)
  /\ UNCHANGED <<screen, activeTab, activityFilter, pane, cards, counts, timer>>

OnReviewEvent ==
  /\ Told("review") /\ Visible
  /\ timer' = (timer \/ activeTab = "review")
  /\ Reply(<<Count("review")>>)
  /\ UNCHANGED <<screen, activeTab, activityFilter, pane, cards, counts, header>>

\* Mutant: the open tab is rebuilt only, its badge is left to the render.
OnListEventOpen(tab) ==
  /\ tab \in {"proposals", "followups"} /\ Told(tab) /\ Visible
  /\ Reply(IF activeTab = tab THEN <<Paint(tab, "stop")>> ELSE <<>>)
  /\ UNCHANGED page

OnListEvent(tab) ==
  /\ tab \in {"proposals", "followups"} /\ Told(tab) /\ Visible
  /\ Reply(<<Count(tab)>> \o IF activeTab = tab THEN <<Paint(tab, "stop")>> ELSE <<>>)
  /\ UNCHANGED page

OnFocusTab ==
  /\ Told("focusTab") /\ Visible
  /\ activeTab' = Message.value
  /\ RenderTab(Message.value)
  /\ Request(Tail(inbox), <<Paint(Message.value, "stop")>>)
  /\ stash' = None
  /\ UNCHANGED <<screen, activityFilter, counts, timer, header,
                 queue, proposals, deals, paused, owed, spent>>

\* Mutant: a button that is disabled for good counts too.
MidActionStatic == \E c \in Shown : c.busy # {} \/ c.item \in Fixed

\* A card with a button that is disabled for the time of a call.
MidAction == \E c \in Shown : c.busy # {}

TimerFires ==
  /\ timer /\ (activeTab = "review" => ~MidAction)
  /\ timer' = FALSE
  /\ Request(inbox, IF activeTab = "review" THEN <<Paint("review", "stop")>> ELSE <<>>)
  /\ UNCHANGED <<screen, activeTab, activityFilter, pane, cards, counts, header, world, spent>>

-----------------------------------------------------------------------------
\* What the host sends, and the background's handler of it: the list first,
\* the broadcast after the badge was computed.
Arrive(kind) ==
  /\ arrivals < MaxArrivals /\ arrivals' = arrivals + 1
  /\ phase = "ready" /\ kind \notin owed /\ owed' = owed \union {kind}
  /\ UNCHANGED <<link, page, paused, stash, clicks>>

Classified(d) ==
  d \notin queue /\ queue' = queue \union {d} /\ Arrive("review") /\ UNCHANGED <<proposals, deals>>

ProposalReady(p) ==
  p \notin proposals /\ proposals' = proposals \union {p} /\ Arrive("proposals")
    /\ UNCHANGED <<queue, deals>>

FollowupDue(f) ==
  f \notin deals /\ deals' = deals \union {f} /\ Arrive("followups")
    /\ UNCHANGED <<queue, proposals>>

Broadcast(kind) ==
  /\ kind \in owed /\ owed' = owed \ {kind}
  /\ inbox' = Append(inbox, Event(kind, None))
  /\ UNCHANGED <<phase, calls, drops, wedged, page, queue, proposals, deals, paused, stash, spent>>

\* A desktop notification is clicked: the tab is stashed, then broadcast.
NotificationClicked(tab) ==
  /\ arrivals < MaxArrivals /\ arrivals' = arrivals + 1
  /\ stash' = tab
  /\ inbox' = Append(inbox, Event("focusTab", tab))
  /\ UNCHANGED <<phase, calls, drops, wedged, page, queue, proposals, deals, paused, owed, clicks>>

-----------------------------------------------------------------------------
\* The background answers, the host behind it.
Reads(call) ==
  CASE call.ask = "queue"     -> queue
    [] call.ask = "proposals" -> proposals
    [] call.ask = "followups" -> deals
    [] call.ask = "settings"  -> paused
    [] call.ask = "activity"  -> call.item

Reading == {"queue", "proposals", "followups", "settings", "activity"}

ServeRead(i) ==
  /\ calls[i].ask \in Reading
  /\ Served(i, TRUE, Reads(calls[i]))
  /\ UNCHANGED world

ServeStash(i) ==
  /\ calls[i].ask = "stash"
  /\ Served(i, TRUE, stash) /\ stash' = None
  /\ UNCHANGED <<queue, proposals, deals, paused, owed>>

\* Mail operations and user actions, which may fail.
ServeAction(i) ==
  /\ calls[i].ask \in {"apply", "undo", "dismiss"}
  /\ \E ok \in BOOLEAN : Served(i, ok, None)
  /\ UNCHANGED world

\* resolveReview of the background: the buffer, then the badge, then the reply.
ServeResolve(i) ==
  /\ calls[i].ask = "resolve"
  /\ queue' = queue \ {calls[i].item}
  /\ calls' = [calls EXCEPT ![i].ask = "resolved"]
  /\ UNCHANGED <<phase, inbox, drops, wedged, proposals, deals, paused, stash, owed>>

ServeResolved(i) == calls[i].ask = "resolved" /\ Served(i, TRUE, None) /\ UNCHANGED world

\* What the host does for a call; a deal may stay actionable (snoozed, skipped).
HostDoes(call) ==
  /\ CASE call.ask = "decide" -> proposals' = proposals \ {call.item} /\ UNCHANGED <<deals, paused>>
       [] call.ask = "act"    -> deals' \in {deals, deals \ {call.item}} /\ UNCHANGED <<proposals, paused>>
       [] call.ask = "pause"  -> paused' = (call.item = "pause") /\ UNCHANGED <<proposals, deals>>
  /\ UNCHANGED <<queue, stash, owed>>

Changing == {"decide", "act", "pause"}

ServeHost(i) ==
  /\ calls[i].ask \in Changing
  /\ \/ HostDoes(calls[i]) /\ Served(i, TRUE, calls[i].item = "pause")
     \/ UNCHANGED world /\ Served(i, FALSE, None)

\* The host did it and died before its answer was read.
DoneAndLost(i) ==
  calls[i].ask \in Changing /\ phase = "ready" /\ HostDoes(calls[i]) /\ Drop

-----------------------------------------------------------------------------
UserActs ==
  \/ Refresh \/ Reconnect \/ DismissBanner \/ TogglePause
  \/ (\E tab \in Tabs : SelectTab(tab)) \/ (\E f \in Filters : SelectFilter(f))
  \/ Approve \/ Undo \/ ApproveAll \/ Dismiss \/ PressAll

PageHandles ==
  \/ OnStepStatus \/ OnStash \/ OnStatus \/ OnSettings \/ OnReconnect \/ OnPause
  \/ OnPaintReview \/ OnPaintActivity \/ (\E tab \in Badges : OnPaintList(tab) \/ OnCount(tab))
  \/ OnApply \/ OnUndo \/ OnApplyAll \/ OnDismiss \/ OnResolved
  \/ (\E tab \in DOMAIN Actions : OnPressed(tab))
  \/ OnEventHidden \/ OnStatusChanged \/ OnReviewEvent
  \/ (\E tab \in Badges : OnListEvent(tab)) \/ OnFocusTab

\* One host works off the requests one by one; what the background does by
\* itself may overtake them.
Due(i) == calls[i].ask \in Local \/ \A j \in 1..i - 1 : calls[j].ask \in Local

Serve ==
  \E i \in {j \in DOMAIN calls : Due(j)} :
    ServeRead(i) \/ ServeStash(i) \/ ServeAction(i) \/ ServeResolve(i)
      \/ ServeResolved(i) \/ ServeHost(i)

Arrivals ==
  \/ (\E d \in Decisions : Classified(d)) \/ (\E p \in Proposals : ProposalReady(p))
  \/ (\E f \in Deals : FollowupDue(f)) \/ (\E tab \in {"proposals", "followups"} : NotificationClicked(tab))
  \/ (\E kind \in Badges : Broadcast(kind))

Next ==
  \/ Boot \/ OnboardStep \/ FinishOnboarding
  \/ UserActs \/ PageHandles \/ TimerFires \/ Arrivals
  \/ (Serve /\ UNCHANGED <<page, spent>>)
  \/ ((\E i \in DOMAIN calls : Due(i) /\ DoneAndLost(i)) /\ UNCHANGED <<page, spent>>)
  \/ (LinkSteps /\ UNCHANGED <<page, world, spent>>)

HostAnswers == phase = "ready" /\ Serve /\ UNCHANGED <<page, spent>>

\* Handlers run, a connected host answers, the timer comes round.
Fairness ==
  /\ WF_vars(PageHandles)
  /\ WF_vars(HostAnswers)
  /\ WF_vars(TimerFires)

Spec == Init /\ [][Next]_vars /\ Fairness

-----------------------------------------------------------------------------
TypeOK ==
  /\ activeTab \in Tabs /\ activityFilter \in Filters
  /\ pane.of \in Tabs \union {"loading", "empty"} /\ pane.events \subseteq Filters
  /\ \A c \in cards : c.item \in Decisions \union Proposals \union Deals /\ c.shown \in BOOLEAN
  /\ \A t \in Badges : counts[t] = None \/ counts[t] \in Nat
  /\ timer \in BOOLEAN /\ paused \in BOOLEAN /\ queue \subseteq Decisions

\* The events under a chip bar are those of one filter, the pressed one: "two
\* filters' events can never interleave under one chip bar" (renderActivity).
FiltersNeverMix == pane.bar # None => pane.events \subseteq {pane.bar}

\* Nothing under way, nothing on its way.
Rest == calls = <<>> /\ inbox = <<>> /\ owed = {} /\ ~timer /\ screen = "app"

Truth(tab) == CASE tab = "review" -> queue [] tab = "proposals" -> proposals
                [] tab = "followups" -> deals

\* At rest, a badge and the list of the open tab show what there is, however
\* renders, counts, events and reviews overlapped, while the connection held:
\* "so overlapping renders ... can't interleave or show a stale count"
\* (renderProposals).  The header tells the connection and the pause switch as
\* they are, over losses and recoveries.  The badge of the review tab is sure
\* only while that tab is open: enterApp does not prime it.
BadgeSettles(t) == drops = 0 => counts[t] \in {None, Cardinality(Truth(t))}

BadgesSettle == \A t \in Badges : (t = "review" => activeTab = t) => BadgeSettles(t)

ListsSettle ==
  \A t \in {"proposals", "followups"} :
    drops = 0 /\ activeTab = t /\ pane.of = t => {c.item : c \in Shown} = Truth(t)

HeaderSettles ==
  header.last # None =>
    /\ header.last = phase
    /\ header.banner => phase # "ready"
    /\ phase = "ready" => header.pause = paused

DashboardSettles == Rest => BadgesSettle /\ ListsSettle /\ HeaderSettles

\* A scheduled refresh of the review tab comes: an in-flight button delays it,
\* a statically disabled one does not "stall the refresh forever".
RefreshComes == timer ~> (~timer \/ phase # "ready")

-----------------------------------------------------------------------------
\* What the code does not keep: see README.

\* At rest the review badge is right on every tab: "Refresh counts always".
\* What comes during the walkthrough is not taken in and not made up for.
ReviewBadgeSettles == Rest => BadgeSettles("review")

\* At rest the open tab shows its own content.
TabShowsItsOwn == Rest => pane.of = activeTab

\* At rest no card is left of a decision that was resolved: "so the card and
\* counts can't survive a bulk approve" (approveAllSafe).
ResolvedCardsGo == Rest /\ drops = 0 /\ pane.of = "review" => {c.item : c \in Shown} \subseteq queue
=============================================================================

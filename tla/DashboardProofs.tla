---------------------------- MODULE DashboardProofs ----------------------------
(***************************************************************************)
(* What the pages show.  First, that the dashboard never shows an answer   *)
(* under a filter it was not asked with, alone and inside the pages, for   *)
(* every bound and whatever else the panes, the port and the host do.  What*)
(* an answer was asked with travels through four places (a call of the     *)
(* pane, the request on the port, the message that answers it, the activity*)
(* pane), so the inductive invariant says of each that an answer has what  *)
(* was asked for and that whatever is still marked the newest was asked for*)
(* the filter that is pressed.                                             *)
(*                                                                         *)
(* Then, that pages settle: once nothing is in flight any more, the panel  *)
(* and the dashboard show what there is.  Its invariant says of each thing *)
(* shown that the page is about to ask for it, has a call for it under way,*)
(* or was told it as it is by the last message that tells it.              *)
(***************************************************************************)
EXTENDS MCPages, FiniteSetTheorems, SequenceTheorems, TLAPS

-----------------------------------------------------------------------------
(* Sequences, and what PageLink picks out of them                          *)

\* A sequence, whatever of.
IsRow(s) == s \in Seq(ToSet(s))

\* What is known of any sequence.
LEMMA RowFacts ==
  ASSUME NEW s, NEW S, s \in Seq(S)
  PROVE  /\ IsRow(s) /\ ToSet(s) \subseteq S
         /\ Len(s) \in Nat /\ DOMAIN s = 1 .. Len(s)
         /\ \A i \in DOMAIN s : s[i] \in ToSet(s)
<1>1. Len(s) \in Nat /\ DOMAIN s = 1 .. Len(s) /\ \A i \in 1 .. Len(s) : s[i] \in S
  OBVIOUS
<1>2. s \in [1 .. Len(s) -> ToSet(s)]
  BY <1>1 DEF ToSet
<1>3. s \in Seq(ToSet(s))
  BY <1>1, <1>2, SeqDef
<1>. QED BY <1>1, <1>3 DEF IsRow, ToSet

\* What two hold together.
LEMMA Joined ==
  ASSUME NEW s, NEW t, IsRow(s), IsRow(t)
  PROVE  IsRow(s \o t) /\ ToSet(s \o t) \subseteq ToSet(s) \cup ToSet(t)
<1>. DEFINE U == ToSet(s) \cup ToSet(t)
<1>1. s \in Seq(U) /\ t \in Seq(U)
  <2>1. s \in Seq(ToSet(s)) /\ t \in Seq(ToSet(t))
    BY DEF IsRow
  <2>. QED BY <2>1, SeqMonotonic
<1>2. s \o t \in Seq(U)
  BY <1>1
<1>. QED BY <1>2, RowFacts

\* One more at the end.
LEMMA Appended ==
  ASSUME NEW s, NEW e, IsRow(s)
  PROVE  IsRow(Append(s, e)) /\ ToSet(Append(s, e)) \subseteq ToSet(s) \cup {e}
<1>. DEFINE U == ToSet(s) \cup {e}
<1>1. s \in Seq(U)
  BY SeqMonotonic DEF IsRow
<1>2. Append(s, e) \in Seq(U)
  BY <1>1
<1>. QED BY <1>2, RowFacts

\* The first and the rest.
LEMMA TailOfRow ==
  ASSUME NEW s, IsRow(s), s # <<>>
  PROVE  IsRow(Tail(s)) /\ ToSet(Tail(s)) \subseteq ToSet(s) /\ Head(s) \in ToSet(s)
<1>1. Tail(s) \in Seq(ToSet(s)) /\ Head(s) \in ToSet(s)
  BY DEF IsRow
<1>. QED BY <1>1, RowFacts

\* RemoveAt adds nothing.
LEMMA Removed ==
  ASSUME NEW s, IsRow(s), NEW i \in DOMAIN s
  PROVE  IsRow(RemoveAt(s, i)) /\ ToSet(RemoveAt(s, i)) \subseteq ToSet(s)
<1>1. s \in Seq(ToSet(s))
  BY DEF IsRow
<1>2. i \in 1 .. Len(s) /\ Len(s) \in Nat
  BY <1>1
<1>3. RemoveAt(s, i) \in Seq(ToSet(s))
  BY <1>1, <1>2 DEF RemoveAt
<1>. QED BY <1>3, RowFacts

\* A sequence made element by element.
LEMMA Mapped ==
  ASSUME NEW s, NEW t, IsRow(s), DOMAIN t = DOMAIN s, t = [i \in DOMAIN t |-> t[i]]
  PROVE  IsRow(t)
<1>1. Len(s) \in Nat /\ DOMAIN s = 1 .. Len(s)
  BY RowFacts DEF IsRow
<1>2. t \in [1 .. Len(s) -> ToSet(t)]
  BY <1>1 DEF ToSet
<1>. QED BY <1>1, <1>2, SeqDef DEF IsRow

\* The number of a place among the others is its own: every number is that
\* of a place, and every place has one.
LEMMA NthFacts ==
  ASSUME NEW K, K \in SUBSET Nat, IsFiniteSet(K)
  PROVE  /\ \A n \in 1 .. Cardinality(K) :
              Nth(K, n) \in K /\ Cardinality({j \in K : j <= Nth(K, n)}) = n
         /\ \A i \in K : \E n \in 1 .. Cardinality(K) : Nth(K, n) = i
<1>. DEFINE To(i) == {j \in K : j <= i}
            f == [i \in K |-> Cardinality(To(i))]
<1>1. \A i \in K : IsFiniteSet(To(i)) /\ To(i) \subseteq K /\ i \in To(i)
  BY FS_Subset
<1>2. ASSUME NEW i \in K PROVE Cardinality(To(i)) \in 1 .. Cardinality(K)
  <2>1. IsFiniteSet(To(i)) /\ To(i) \subseteq K /\ To(i) # {}
    BY <1>1
  <2>. HIDE DEF To
  <2>2. Cardinality(To(i)) <= Cardinality(K) /\ Cardinality(To(i)) # 0
    BY <2>1, FS_Subset, FS_EmptySet
  <2>. QED BY <2>1, <2>2, FS_CardinalityType
<1>3. \A i, j \in K : i < j => Cardinality(To(i)) < Cardinality(To(j))
  <2>. SUFFICES ASSUME NEW i \in K, NEW j \in K, i < j
                PROVE  Cardinality(To(i)) < Cardinality(To(j))
    OBVIOUS
  <2>1. i \in Nat /\ j \in Nat
    OBVIOUS
  <2>2. \A k \in To(i) : k \in Nat /\ k <= i
    OBVIOUS
  <2>3. To(i) \subseteq To(j) /\ j \in To(j) /\ j \notin To(i)
    <3>1. ASSUME NEW k \in To(i) PROVE k \in To(j)
      <4>1. k \in K /\ k \in Nat /\ k <= i
        BY <2>2
      <4>2. k <= j
        BY <2>1, <4>1
      <4>. QED BY <4>1, <4>2
    <3>2. j \in To(j)
      BY <2>1
    <3>3. j \notin To(i)
      BY <2>1
    <3>. QED BY <3>1, <3>2, <3>3
  <2>. HIDE DEF To
  <2>4. To(i) # To(j) /\ IsFiniteSet(To(j))
    BY <1>1, <2>3
  <2>. QED BY <2>3, <2>4, FS_Subset, FS_CardinalityType
<1>4. f \in Injection(K, 1 .. Cardinality(K))
  <2>1. f \in [K -> 1 .. Cardinality(K)]
    BY <1>2
  <2>2. \A i, j \in K : f[i] = f[j] => i = j
    <3>1. \A i \in K : f[i] \in Nat
      BY <2>1, FS_CardinalityType
    <3>2. \A i, j \in K : i < j => f[i] < f[j]
      BY <1>3
    <3>. HIDE DEF f
    <3>. QED BY <3>1, <3>2
  <2>. HIDE DEF f
  <2>. QED BY <2>1, <2>2 DEF Injection, IsInjective
<1>5. IsFiniteSet(1 .. Cardinality(K)) /\ Cardinality(1 .. Cardinality(K)) = Cardinality(K)
  BY FS_Interval, FS_CardinalityType
<1>6. f \in Surjection(K, 1 .. Cardinality(K))
  BY <1>4, <1>5, FS_Injection
<1>7. ASSUME NEW n \in 1 .. Cardinality(K)
      PROVE  Nth(K, n) \in K /\ Cardinality(To(Nth(K, n))) = n
  <2>1. PICK i \in K : f[i] = n
    BY <1>6 DEF Surjection
  <2>2. Cardinality(To(i)) = n
    BY <2>1
  <2>. QED BY <2>2 DEF Nth
<1>8. ASSUME NEW i \in K PROVE \E n \in 1 .. Cardinality(K) : Nth(K, n) = i
  <2>. DEFINE n == Cardinality(To(i))
  <2>1. n \in 1 .. Cardinality(K)
    BY <1>2
  <2>2. Nth(K, n) \in K /\ f[Nth(K, n)] = n /\ f[i] = n
    BY <1>7, <2>1
  <2>. HIDE DEF f, n
  <2>3. Nth(K, n) = i
    BY <1>4, <2>2 DEF Injection, IsInjective
  <2>. QED BY <2>1, <2>3
<1>. QED BY <1>7, <1>8

\* A finite set of places has a last one.
LEMMA MaxExists ==
  ASSUME NEW K, K \in SUBSET Nat, IsFiniteSet(K), K # {}
  PROVE  \E i \in K : \A j \in K : j <= i
<1>. DEFINE n == Cardinality(K)
            below == {j \in K : j <= Nth(K, n)}
<1>1. n \in 1 .. n
  BY FS_EmptySet, FS_CardinalityType
<1>2. Nth(K, n) \in K /\ Cardinality(below) = n
  BY <1>1, NthFacts
<1>3. below = K
  <2>. HIDE DEF n
  <2>1. below \subseteq K
    OBVIOUS
  <2>. HIDE DEF below
  <2>. QED BY <1>2, <2>1, FS_Subset DEF n
<1>. QED BY <1>2, <1>3


\* Only keeps a subsequence.
LEMMA OnlyRow ==
  ASSUME NEW s, IsRow(s), NEW K, K \subseteq DOMAIN s
  PROVE  IsRow(Only(s, K)) /\ ToSet(Only(s, K)) \subseteq ToSet(s)
<1>1. Len(s) \in Nat /\ DOMAIN s = 1 .. Len(s) /\ \A i \in DOMAIN s : s[i] \in ToSet(s)
  BY RowFacts DEF IsRow
<1>2. IsFiniteSet(K) /\ Cardinality(K) \in Nat /\ K \in SUBSET Nat
  <2>1. IsFiniteSet(1 .. Len(s))
    BY <1>1, FS_Interval
  <2>2. K \in SUBSET (1 .. Len(s))
    BY <1>1
  <2>3. K \in SUBSET Nat
    BY <1>1, <2>2
  <2>. QED BY <2>1, <2>2, <2>3, FS_Subset, FS_CardinalityType
<1>3. \A n \in 1 .. Cardinality(K) : s[Nth(K, n)] \in ToSet(s)
  BY <1>1, <1>2, NthFacts
<1>4. Only(s, K) \in Seq(ToSet(s))
  BY <1>2, <1>3, SeqDef DEF Only
<1>. QED BY <1>4, RowFacts

-----------------------------------------------------------------------------
\* The newest request for events, on its way or answered, is for the filter
\* that is pressed; an answer has the events that were asked for.
Fields == {"ask", "way", "item", "row", "card", "todo", "all", "newest", "then"}

ForEvents(c) == c.ask = "activity" /\ c.way = "paint"

CallFits(c, filter) ==
  DOMAIN c = Fields /\ (ForEvents(c) /\ c.newest => c.item = filter)

MessageFits(m, filter) ==
  /\ m.kind = "answer" =>
       /\ DOMAIN m = {"kind", "call", "ok", "value", "why"} /\ CallFits(m.call, filter)
       /\ ForEvents(m.call) /\ m.ok => m.value = m.call.item
       /\ m.call.ask = "stash" => m.value \in Tabs \cup {None}
  /\ m.kind = "event" /\ m.name = "focusTab" => m.value \in Tabs

CallsFit(s, filter)    == IsRow(s) /\ \A c \in ToSet(s) : CallFits(c, filter)
MessagesFit(s, filter) == IsRow(s) /\ \A m \in ToSet(s) : MessageFits(m, filter)

LinkFits == CallsFit(calls, activityFilter) /\ MessagesFit(inbox, activityFilter)

\* A chip bar has the pressed filter, and its events.
PaneFits ==
  /\ DOMAIN pane = {"of", "bar", "events"}
  /\ pane.bar # None => pane.bar = activityFilter /\ pane.events \subseteq {pane.bar}

TabsFit == activeTab \in Tabs /\ stash \in Tabs \cup {None}

FilterInv == LinkFits /\ PaneFits /\ TabsFit

LEMMA NoCalls == ASSUME NEW g PROVE CallsFit(<<>>, g) /\ MessagesFit(<<>>, g)
<1>1. IsRow(<<>>)
  BY DEF IsRow
<1>2. ToSet(<<>>) = {}
  BY DEF ToSet
<1>. QED BY <1>1, <1>2 DEF CallsFit, MessagesFit

LEMMA OneCall ==
  ASSUME NEW g, NEW c, CallFits(c, g)
  PROVE  CallsFit(<<c>>, g)
<1>1. <<c>> \in Seq({c})
  OBVIOUS
<1>2. IsRow(<<c>>) /\ ToSet(<<c>>) \subseteq {c}
  BY <1>1, RowFacts
<1>. QED BY <1>2 DEF CallsFit

LEMMA OneMessage ==
  ASSUME NEW g, NEW m, MessageFits(m, g)
  PROVE  MessagesFit(<<m>>, g)
<1>1. <<m>> \in Seq({m})
  OBVIOUS
<1>2. IsRow(<<m>>) /\ ToSet(<<m>>) \subseteq {m}
  BY <1>1, RowFacts
<1>. QED BY <1>2 DEF MessagesFit

LEMMA MoreCalls ==
  ASSUME NEW g, NEW s, NEW t, CallsFit(s, g), CallsFit(t, g)
  PROVE  CallsFit(s \o t, g)
BY Joined DEF CallsFit

LEMMA MoreMessages ==
  ASSUME NEW g, NEW s, NEW t, MessagesFit(s, g), MessagesFit(t, g)
  PROVE  MessagesFit(s \o t, g)
BY Joined DEF MessagesFit

LEMMA AMessage ==
  ASSUME NEW g, NEW s, NEW m, MessagesFit(s, g), MessageFits(m, g)
  PROVE  MessagesFit(Append(s, m), g)
BY Appended DEF MessagesFit

LEMMA OnlyCalls ==
  ASSUME NEW g, NEW s, CallsFit(s, g), NEW K, K \subseteq DOMAIN s
  PROVE  CallsFit(Only(s, K), g)
BY OnlyRow DEF CallsFit

\* A rejected call fits whatever it was for.
LEMMA FailedMessages ==
  ASSUME NEW g, NEW s, CallsFit(s, g), NEW why
  PROVE  MessagesFit(FailAll(s, why), g)
<1>. DEFINE t == FailAll(s, why)
<1>1. t = [i \in DOMAIN s |-> [Answer(s[i], FALSE, None) EXCEPT !.why = why]]
  BY DEF FailAll
<1>2. IsRow(t)
  BY <1>1, Mapped DEF CallsFit
<1>3. ASSUME NEW i \in DOMAIN s PROVE MessageFits(t[i], g)
  BY <1>1, <1>3 DEF CallsFit, ToSet, MessageFits, Answer
<1>4. DOMAIN t = DOMAIN s
  BY <1>1
<1>. HIDE DEF t
<1>5. \A m \in ToSet(t) : \E i \in DOMAIN s : m = t[i]
  BY <1>4 DEF ToSet
<1>. QED BY <1>2, <1>3, <1>5 DEF t, MessagesFit

LEMMA SentFit ==
  ASSUME NEW g, NEW cs, NEW in, NEW new,
         CallsFit(cs, g), MessagesFit(in, g), CallsFit(new, g), Send(cs, in, new)
  PROVE  CallsFit(calls', g) /\ MessagesFit(inbox', g)
<1>. DEFINE accepted == {i \in DOMAIN new : Accepts(new[i])}
<1>1. /\ calls' = cs \o Only(new, accepted)
      /\ inbox' = in \o FailAll(Only(new, DOMAIN new \ accepted), phase)
  BY DEF Send
<1>2. CallsFit(Only(new, accepted), g) /\ CallsFit(Only(new, DOMAIN new \ accepted), g)
  BY OnlyCalls
<1>. HIDE DEF accepted
<1>. QED BY <1>1, <1>2, FailedMessages, MoreCalls, MoreMessages

\* A new request for events makes those before it old.
LEMMA RequestFits ==
  ASSUME NEW f, NEW g, NEW in, NEW new,
         CallsFit(calls, f), MessagesFit(in, f), CallsFit(new, g), Request(in, new),
         f = g \/ \E i \in DOMAIN new : ForEvents(new[i])
  PROVE  CallsFit(calls', g) /\ MessagesFit(inbox', g)
<1>. DEFINE started == {new[i].ask : i \in {j \in DOMAIN new : new[j].way = "paint"}}
            old(c)  == IF c.way = "paint" /\ c.ask \in started THEN [c EXCEPT !.newest = FALSE] ELSE c
            cs == [i \in DOMAIN calls |-> old(calls[i])]
            ms == [i \in DOMAIN in |-> IF in[i].kind = "answer" THEN [in[i] EXCEPT !.call = old(@)]
                                                                 ELSE in[i]]
<1>1. Send(cs, ms, new)
  BY DEF Request
<1>2. ASSUME NEW c, CallFits(c, f) PROVE CallFits(old(c), g)
  <2>1. f = g \/ "activity" \in started
    BY DEF ForEvents
  <2>. HIDE DEF started
  <2>. QED BY <1>2, <2>1 DEF CallFits, ForEvents, Fields
<1>3. ASSUME NEW c
      PROVE  \/ old(c).item = c.item /\ old(c).ask = c.ask /\ old(c).way = c.way
             \/ DOMAIN c # Fields
  <2>. HIDE DEF started
  <2>. QED BY DEF Fields
<1>4. CallsFit(cs, g)
  <2>1. IsRow(cs)
    BY Mapped DEF CallsFit
  <2>2. ASSUME NEW i \in DOMAIN calls PROVE CallFits(cs[i], g)
    <3>1. CallFits(calls[i], f)
      BY <2>2 DEF CallsFit, ToSet
    <3>. HIDE DEF old
    <3>. QED BY <1>2, <2>2, <3>1
  <2>3. ToSet(cs) = {cs[i] : i \in DOMAIN calls}
    BY DEF ToSet
  <2>. HIDE DEF cs
  <2>. QED BY <2>1, <2>2, <2>3 DEF CallsFit
<1>5. MessagesFit(ms, g)
  <2>1. IsRow(ms)
    BY Mapped DEF MessagesFit
  <2>2. ASSUME NEW i \in DOMAIN in PROVE MessageFits(ms[i], g)
    <3>1. MessageFits(in[i], f)
      BY <2>2 DEF MessagesFit, ToSet
    <3>2. CASE in[i].kind # "answer"
      <4>1. ms[i] = in[i]
        BY <2>2, <3>2
      <4>. HIDE DEF ms
      <4>. QED BY <3>1, <3>2, <4>1 DEF MessageFits
    <3>3. CASE in[i].kind = "answer"
      <4>1. CallFits(in[i].call, f) /\ DOMAIN in[i] = {"kind", "call", "ok", "value", "why"}
        BY <3>1, <3>3 DEF MessageFits
      <4>2. CallFits(old(in[i].call), g) /\ DOMAIN in[i].call = Fields
        BY <1>2, <4>1 DEF CallFits
      <4>3. old(in[i].call).item = in[i].call.item /\ old(in[i].call).ask = in[i].call.ask
              /\ old(in[i].call).way = in[i].call.way
        BY <1>3, <4>2
      <4>. HIDE DEF old
      <4>4. ms[i] = [in[i] EXCEPT !.call = old(in[i].call)]
        BY <2>2, <3>3
      <4>. HIDE DEF ms
      <4>. QED BY <3>1, <3>3, <4>1, <4>2, <4>3, <4>4 DEF MessageFits, ForEvents
    <3>. QED BY <3>2, <3>3
  <2>3. ToSet(ms) = {ms[i] : i \in DOMAIN in}
    BY DEF ToSet
  <2>. HIDE DEF ms
  <2>. QED BY <2>1, <2>2, <2>3 DEF MessagesFit
<1>. HIDE DEF cs, ms
<1>. QED BY <1>1, <1>4, <1>5, SentFit

-----------------------------------------------------------------------------
\* The calls the handlers make.
LEMMA CallFacts ==
  ASSUME NEW ask, NEW g
  PROVE  /\ DOMAIN Call(ask) = Fields
         /\ Call(ask).ask = ask /\ Call(ask).way = "act"
         /\ CallFits(Call(ask), g)
BY DEF Call, Fields, CallFits, ForEvents

LEMMA CountFits ==
  ASSUME NEW g, NEW tab
  PROVE  CallFits(Count(tab), g)
<1>1. DOMAIN Count(tab) = Fields /\ Count(tab).way = "count"
  BY DEF Count, Call, Fields
<1>. QED BY <1>1 DEF CallFits, ForEvents

LEMMA PaintFacts ==
  ASSUME NEW tab \in Tabs, NEW then
  PROVE  /\ DOMAIN Paint(tab, then) = Fields /\ CallFits(Paint(tab, then), activityFilter)
         /\ tab = "activity" => ForEvents(Paint(tab, then))
<1>1. DOMAIN Paint(tab, then) = Fields
  BY DEF Paint, Call, Fields
<1>2. Paint(tab, then).ask = Lists[tab] /\ Paint(tab, then).way = "paint"
  BY DEF Paint, Call
<1>3. Paint(tab, then).item = IF tab = "activity" THEN activityFilter ELSE None
  BY DEF Paint, Call
<1>4. (tab = "activity") <=> Lists[tab] = "activity"
  BY DEF Lists, Tabs
<1>. QED BY <1>1, <1>2, <1>3, <1>4 DEF CallFits, ForEvents

LEMMA PrimeFits == CallsFit(Prime, activityFilter)
<1>1. CallsFit(<<Count("proposals")>>, activityFilter) /\ CallsFit(<<Count("followups")>>, activityFilter)
  BY CountFits, OneCall
<1>. QED BY <1>1, NoCalls, MoreCalls DEF Prime

\* The message at the head, when it is an answer.
LEMMA AskedFacts ==
  ASSUME FilterInv, inbox # <<>>, Message.kind = "answer"
  PROVE  /\ DOMAIN Asked = Fields /\ CallFits(Asked, activityFilter)
         /\ ForEvents(Asked) /\ Message.ok => Message.value = Asked.item
         /\ Asked.ask = "stash" => Message.value \in Tabs \cup {None}
<1>1. Message \in ToSet(inbox)
  BY TailOfRow DEF FilterInv, LinkFits, MessagesFit, Message
<1>2. MessageFits(Message, activityFilter)
  BY <1>1 DEF FilterInv, LinkFits, MessagesFit
<1>. QED BY <1>2 DEF MessageFits, CallFits, Asked

LEMMA FocusFacts ==
  ASSUME FilterInv, Told("focusTab")
  PROVE  Message.value \in Tabs
<1>1. Message \in ToSet(inbox)
  BY TailOfRow DEF FilterInv, LinkFits, MessagesFit, Message, Told
<1>. QED BY <1>1 DEF FilterInv, LinkFits, MessagesFit, MessageFits, Told

\* A handler answers a message, or a click: what it asks fits.
LEMMA AskFits ==
  ASSUME FilterInv, UNCHANGED activityFilter, NEW new, CallsFit(new, activityFilter),
         \/ inbox # <<>> /\ Request(Tail(inbox), new)
         \/ Request(inbox, new)
  PROVE  LinkFits'
<1>1. ASSUME inbox # <<>> PROVE MessagesFit(Tail(inbox), activityFilter)
  BY <1>1, TailOfRow DEF FilterInv, LinkFits, MessagesFit
<1>2. CallsFit(calls', activityFilter) /\ MessagesFit(inbox', activityFilter)
  BY <1>1, RequestFits DEF FilterInv, LinkFits
<1>3. LinkFits' <=> CallsFit(calls', activityFilter') /\ MessagesFit(inbox', activityFilter')
  BY DEF LinkFits, CallsFit, MessagesFit, CallFits, MessageFits, IsRow
<1>. QED BY <1>2, <1>3

\* Where the content goes that is not painted with events.
Repainted ==
  \/ UNCHANGED pane
  \/ DOMAIN pane' = {"of", "bar", "events"} /\ pane'.bar = None
  \/ pane' = [of |-> "activity", bar |-> activityFilter, events |-> {}]

LEMMA PaneStays ==
  ASSUME FilterInv, UNCHANGED activityFilter, Repainted
  PROVE  PaneFits'
BY DEF FilterInv, PaneFits, Repainted

LEMMA TabsStay ==
  ASSUME FilterInv, UNCHANGED <<activeTab, stash>>
  PROVE  TabsFit'
BY DEF FilterInv, TabsFit

LEMMA Renders ==
  ASSUME NEW tab
  PROVE  /\ RenderTab(tab) => Repainted
         /\ \A items : Show(tab, items) => Repainted
BY DEF RenderTab, Show, Repainted

-----------------------------------------------------------------------------
\* What the handlers do.
LEMMA HandlersFit ==
  ASSUME FilterInv, PageHandles
  PROVE  FilterInv'
<1>. USE DEF Answered, Reply, world
<1>1. CASE OnStepStatus
  BY <1>1, NoCalls, AskFits, PaneStays, TabsStay DEF OnStepStatus, page, Repainted, FilterInv
<1>2. CASE OnStash
  <2>1. TabsFit'
    BY <1>2, AskedFacts DEF OnStash, FilterInv, TabsFit
  <2>. QED BY <1>2, <2>1, CallFacts, OneCall, AskFits, PaneStays DEF OnStash, Repainted, FilterInv
<1>3. CASE OnStatus
  <2>1. CallFits([Call("settings") EXCEPT !.then = "boot"], activityFilter)
    BY DEF Call, Fields, CallFits, ForEvents
  <2>. QED BY <1>3, <2>1, OneCall, AskFits, PaneStays, TabsStay DEF OnStatus, Repainted, FilterInv
<1>4. CASE OnSettings
  <2>1. activeTab \in Tabs
    BY DEF FilterInv, TabsFit
  <2>2. CallsFit(<<Paint(activeTab, IF Asked.then = "boot" THEN "prime" ELSE "stop")>>, activityFilter)
    BY <2>1, PaintFacts, OneCall
  <2>3. Repainted
    BY <1>4, Renders DEF OnSettings
  <2>. QED BY <1>4, <2>2, <2>3, AskFits, PaneStays, TabsStay DEF OnSettings, FilterInv
<1>5. CASE OnReconnect
  BY <1>5, NoCalls, AskFits, PaneStays, TabsStay DEF OnReconnect, Repainted, FilterInv
<1>6. CASE OnPause
  BY <1>6, NoCalls, AskFits, PaneStays, TabsStay DEF OnPause, Repainted, FilterInv
<1>7. CASE OnPaintReview
  <2>1. Repainted
    BY <1>7, Renders DEF OnPaintReview
  <2>. QED BY <1>7, <2>1, PrimeFits, AskFits, PaneStays, TabsStay DEF OnPaintReview, FilterInv
<1>8. CASE OnPaintActivity
  <2>1. LinkFits'
    BY <1>8, PrimeFits, AskFits DEF OnPaintActivity
  <2>2. Asked.newest /\ Message.ok => Message.value = activityFilter
    BY <1>8, AskedFacts DEF OnPaintActivity, CallFits, ForEvents
  <2>3. PaneFits'
    BY <1>8, <2>2 DEF OnPaintActivity, FilterInv, PaneFits
  <2>4. TabsFit'
    BY <1>8, TabsStay DEF OnPaintActivity
  <2>. QED BY <2>1, <2>3, <2>4 DEF FilterInv
<1>9. ASSUME NEW tab \in Badges, OnPaintList(tab) PROVE FilterInv'
  <2>1. Repainted
    BY <1>9, Renders DEF OnPaintList, Repainted
  <2>. QED BY <1>9, <2>1, PrimeFits, AskFits, PaneStays, TabsStay DEF OnPaintList, FilterInv
<1>10. ASSUME NEW tab \in Badges, OnCount(tab) PROVE FilterInv'
  BY <1>10, NoCalls, AskFits, PaneStays, TabsStay DEF OnCount, Repainted, FilterInv
<1>11. CASE OnApply
  <2>1. CallFits(Onward("resolve"), activityFilter)
    BY <1>11, AskedFacts DEF OnApply, Onward, CallFits, ForEvents, Fields
  <2>. QED BY <1>11, <2>1, NoCalls, OneCall, AskFits, PaneStays, TabsStay DEF OnApply, Repainted, FilterInv
<1>12. CASE OnUndo
  BY <1>12, NoCalls, AskFits, PaneStays, TabsStay DEF OnUndo, Repainted, FilterInv
<1>13. CASE OnApplyAll
  <2>. DEFINE sofar == [Asked EXCEPT !.all = @ /\ Message.ok]
  <2>1. DOMAIN Asked = Fields /\ Asked.ask = "apply"
    BY <1>13, AskedFacts DEF OnApplyAll
  <2>2. DOMAIN sofar = Fields /\ sofar.ask = "apply"
    BY <2>1 DEF Fields
  <2>3. CallFits(NextOf(sofar), activityFilter)
    BY <2>2 DEF NextOf, CallFits, ForEvents, Fields
  <2>4. CallFits(Onward("resolve"), activityFilter)
    BY <2>1 DEF Onward, CallFits, ForEvents, Fields
  <2>5. CallFits(Paint("review", "stop"), activityFilter)
    BY PaintFacts DEF Tabs
  <2>6. PICK new : new \in {NextOf(sofar), Onward("resolve"), Paint("review", "stop")} /\ Reply(<<new>>)
    BY <1>13 DEF OnApplyAll
  <2>7. CallsFit(<<new>>, activityFilter)
    BY <2>3, <2>4, <2>5, <2>6, OneCall
  <2>. QED BY <1>13, <2>6, <2>7, AskFits, PaneStays, TabsStay DEF OnApplyAll, page, Repainted, FilterInv
<1>14. CASE OnDismiss
  <2>1. DOMAIN Asked = Fields /\ Asked.ask = "dismiss"
    BY <1>14, AskedFacts DEF OnDismiss
  <2>2. CallFits(NextOf(Asked), activityFilter) /\ CallFits(Onward("resolve"), activityFilter)
    BY <2>1 DEF NextOf, Onward, CallFits, ForEvents, Fields
  <2>. QED BY <1>14, <2>2, OneCall, AskFits, PaneStays, TabsStay DEF OnDismiss, page, Repainted, FilterInv
<1>15. CASE OnResolved
  BY <1>15, CountFits, OneCall, AskFits, PaneStays, TabsStay DEF OnResolved, Repainted, FilterInv
<1>16. ASSUME NEW tab \in DOMAIN Actions, OnPressed(tab) PROVE FilterInv'
  <2>1. CallFits(Paint(tab, "stop"), activityFilter)
    BY PaintFacts DEF Tabs, Actions
  <2>. QED BY <1>16, <2>1, NoCalls, OneCall, AskFits, PaneStays, TabsStay DEF OnPressed, Repainted, FilterInv
<1>17. CASE OnEventHidden
  BY <1>17, NoCalls, AskFits, PaneStays, TabsStay DEF OnEventHidden, page, Repainted, FilterInv
<1>18. CASE OnStatusChanged
  BY <1>18, CallFacts, NoCalls, OneCall, AskFits, PaneStays, TabsStay DEF OnStatusChanged, Told, Repainted, FilterInv
<1>19. CASE OnReviewEvent
  BY <1>19, CountFits, OneCall, AskFits, PaneStays, TabsStay DEF OnReviewEvent, Told, Repainted, FilterInv
<1>20. ASSUME NEW tab \in Badges, OnListEvent(tab) PROVE FilterInv'
  <2>1. CallFits(Paint(tab, "stop"), activityFilter)
    BY PaintFacts DEF Badges
  <2>2. CallsFit(<<Count(tab)>> \o IF activeTab = tab THEN <<Paint(tab, "stop")>> ELSE <<>>, activityFilter)
    BY <2>1, CountFits, NoCalls, OneCall, MoreCalls
  <2>. QED BY <1>20, <2>2, AskFits, PaneStays, TabsStay DEF OnListEvent, Told, page, Repainted, FilterInv
<1>21. CASE OnFocusTab
  <2>1. Message.value \in Tabs
    BY <1>21, FocusFacts DEF OnFocusTab
  <2>2. CallsFit(<<Paint(Message.value, "stop")>>, activityFilter)
    BY <2>1, PaintFacts, OneCall
  <2>3. Repainted
    BY <1>21, Renders DEF OnFocusTab
  <2>4. TabsFit'
    BY <1>21, <2>1 DEF OnFocusTab, TabsFit
  <2>. QED BY <1>21, <2>2, <2>3, <2>4, AskFits, PaneStays DEF OnFocusTab, Told, FilterInv
<1>. QED
  BY <1>1, <1>2, <1>3, <1>4, <1>5, <1>6, <1>7, <1>8, <1>9, <1>10, <1>11, <1>12, <1>13, <1>14, <1>15,
     <1>16, <1>17, <1>18, <1>19, <1>20, <1>21 DEF PageHandles

\* What the user does.
LEMMA ClicksFit ==
  ASSUME FilterInv, UserActs
  PROVE  FilterInv'
<1>. USE DEF Click, world
<1>1. CASE Refresh
  BY <1>1, CallFacts, OneCall, AskFits, PaneStays, TabsStay DEF Refresh, page, Repainted, FilterInv
<1>2. CASE Reconnect
  BY <1>2, CallFacts, OneCall, AskFits, PaneStays, TabsStay DEF Reconnect, page, Repainted, FilterInv
<1>3. CASE DismissBanner
  BY <1>3, NoCalls, AskFits, PaneStays, TabsStay DEF DismissBanner, Repainted, FilterInv
<1>4. CASE TogglePause
  <2>1. CallFits([Call("pause") EXCEPT !.item = IF header.pause THEN "resume" ELSE "pause"], activityFilter)
    BY DEF Call, Fields, CallFits, ForEvents
  <2>. QED BY <1>4, <2>1, OneCall, AskFits, PaneStays, TabsStay DEF TogglePause, page, Repainted, FilterInv
<1>5. ASSUME NEW tab \in Tabs, SelectTab(tab) PROVE FilterInv'
  <2>1. CallsFit(<<Paint(tab, "stop")>>, activityFilter)
    BY PaintFacts, OneCall
  <2>2. Repainted
    BY <1>5, Renders DEF SelectTab
  <2>3. TabsFit'
    BY <1>5 DEF SelectTab, FilterInv, TabsFit
  <2>. QED BY <1>5, <2>1, <2>2, <2>3, AskFits, PaneStays DEF SelectTab, FilterInv
<1>6. ASSUME NEW f \in Filters, SelectFilter(f) PROVE FilterInv'
  <2>. DEFINE new == [Paint("activity", "stop") EXCEPT !.item = f]
  <2>1. CallFits(new, f) /\ ForEvents(new)
    BY PaintFacts DEF Tabs, CallFits, ForEvents, Fields
  <2>2. Request(inbox, <<new>>) /\ activityFilter' = f
    BY <1>6 DEF SelectFilter
  <2>. HIDE DEF new
  <2>3. CallsFit(<<new>>, f) /\ \E i \in DOMAIN <<new>> : ForEvents(<<new>>[i])
    BY <2>1, OneCall
  <2>4. CallsFit(calls', f) /\ MessagesFit(inbox', f)
    BY <2>2, <2>3, RequestFits DEF FilterInv, LinkFits
  <2>5. LinkFits' <=> CallsFit(calls', activityFilter') /\ MessagesFit(inbox', activityFilter')
    BY DEF LinkFits, CallsFit, MessagesFit, CallFits, MessageFits, IsRow
  <2>6. PaneFits'
    BY <1>6 DEF SelectFilter, PaneFits
  <2>. QED BY <1>6, <2>2, <2>4, <2>5, <2>6, TabsStay DEF SelectFilter, FilterInv
<1>7. ASSUME NEW c, NEW button, NEW new, CallFits(new, activityFilter), Press(c, button, new)
      PROVE  FilterInv'
  BY <1>7, OneCall, AskFits, PaneStays, TabsStay DEF Press, Repainted, FilterInv
<1>8. ASSUME NEW c PROVE \A ask \in {"apply", "undo", "resolve", "dismiss", "decide", "act"} :
        LET new == ReviewCall(c, ask)
        IN  DOMAIN new = Fields /\ new.ask = ask /\ CallFits(new, activityFilter)
  BY DEF ReviewCall, Call, Fields, CallFits, ForEvents
<1>9. CASE Approve
  <2>1. PICK c \in Shown : \E row \in c.rows \ c.busy :
              Press(c, row, [ReviewCall(c, "apply") EXCEPT !.row = row])
    BY <1>9 DEF Approve
  <2>2. PICK row \in c.rows : Press(c, row, [ReviewCall(c, "apply") EXCEPT !.row = row])
    BY <2>1
  <2>3. DOMAIN ReviewCall(c, "apply") = Fields /\ ReviewCall(c, "apply").ask = "apply"
    BY <1>8
  <2>4. CallFits([ReviewCall(c, "apply") EXCEPT !.row = row], activityFilter)
    BY <2>3 DEF CallFits, ForEvents, Fields
  <2>. QED BY <1>7, <2>2, <2>4
<1>10. CASE Undo
  <2>1. PICK c : Press(c, "undo", ReviewCall(c, "undo"))
    BY <1>10 DEF Undo
  <2>. QED BY <1>7, <1>8, <2>1
<1>11. CASE ApproveAll
  <2>1. PICK c \in Shown :
              Click(<<[ReviewCall(c, "apply") EXCEPT !.way = "all", !.row = Head(Suggested[c.item]),
                                                     !.todo = Tail(Suggested[c.item])]>>)
    BY <1>11 DEF ApproveAll
  <2>2. DOMAIN ReviewCall(c, "apply") = Fields /\ ReviewCall(c, "apply").ask = "apply"
    BY <1>8
  <2>3. CallFits([ReviewCall(c, "apply") EXCEPT !.way = "all", !.row = Head(Suggested[c.item]),
                                                !.todo = Tail(Suggested[c.item])], activityFilter)
    BY <2>2 DEF CallFits, ForEvents, Fields
  <2>. QED BY <1>11, <2>1, <2>3, OneCall, AskFits, PaneStays, TabsStay
           DEF ApproveAll, page, Repainted, FilterInv
<1>12. CASE Dismiss
  <2>1. PICK c \in Shown :
              LET rows == Suggested[c.item]
              IN  Click(<<IF rows = <<>> THEN ReviewCall(c, "resolve")
                          ELSE [ReviewCall(c, "dismiss") EXCEPT !.row = Head(rows), !.todo = Tail(rows)]>>)
    BY <1>12 DEF Dismiss, Click
  <2>. DEFINE rows == Suggested[c.item]
              new  == IF rows = <<>> THEN ReviewCall(c, "resolve")
                      ELSE [ReviewCall(c, "dismiss") EXCEPT !.row = Head(rows), !.todo = Tail(rows)]
  <2>2. CallFits(ReviewCall(c, "resolve"), activityFilter)
    BY <1>8
  <2>3. DOMAIN ReviewCall(c, "dismiss") = Fields /\ ReviewCall(c, "dismiss").ask = "dismiss"
    BY <1>8
  <2>4. CallFits([ReviewCall(c, "dismiss") EXCEPT !.row = Head(rows), !.todo = Tail(rows)], activityFilter)
    BY <2>3 DEF CallFits, ForEvents, Fields
  <2>5. CallFits(new, activityFilter) /\ Click(<<new>>)
    BY <2>1, <2>2, <2>4
  <2>. HIDE DEF new
  <2>. QED BY <1>12, <2>5, OneCall, AskFits, PaneStays, TabsStay DEF Dismiss, page, Repainted, FilterInv
<1>13. CASE PressAll
  <2>1. PICK c \in Shown : c.tab \in DOMAIN Actions /\ Press(c, "all", ReviewCall(c, Actions[c.tab]))
    BY <1>13 DEF PressAll
  <2>2. Actions[c.tab] \in {"decide", "act"}
    BY <2>1 DEF Actions
  <2>. QED BY <1>7, <1>8, <2>1, <2>2
<1>. QED
  BY <1>1, <1>2, <1>3, <1>4, <1>5, <1>6, <1>9, <1>10, <1>11, <1>12, <1>13 DEF UserActs

\* What the host sends: a broadcast fits.
LEMMA ArrivalsFit ==
  ASSUME FilterInv, Arrivals
  PROVE  FilterInv'
<1>1. ASSUME UNCHANGED <<calls, page>>, NEW m, MessageFits(m, activityFilter),
             inbox' = inbox \/ inbox' = Append(inbox, m), stash' \in Tabs \cup {None}
      PROVE  FilterInv'
  <2>1. MessagesFit(inbox', activityFilter) /\ CallsFit(calls', activityFilter)
    BY <1>1, AMessage DEF FilterInv, LinkFits
  <2>2. LinkFits' <=> CallsFit(calls', activityFilter') /\ MessagesFit(inbox', activityFilter')
    BY DEF LinkFits, CallsFit, MessagesFit, CallFits, MessageFits, IsRow
  <2>3. PaneFits' /\ TabsFit'
    BY <1>1 DEF page, FilterInv, PaneFits, TabsFit
  <2>. QED BY <1>1, <2>1, <2>2, <2>3 DEF page, FilterInv
<1>2. \A kind \in Badges \cup {"focusTab"}, tab \in Tabs :
        MessageFits(Event(IF kind = "focusTab" THEN "focusTab" ELSE kind, tab), activityFilter)
  BY DEF Event, MessageFits, Badges, Tabs
<1>3. \A kind \in Badges : MessageFits(Event(kind, None), activityFilter)
  BY DEF Event, MessageFits, Badges, Tabs
<1>4. stash \in Tabs \cup {None}
  BY DEF FilterInv, TabsFit
<1>5. ASSUME NEW kind, Arrive(kind), UNCHANGED stash PROVE FilterInv'
  BY <1>1, <1>3, <1>4, <1>5 DEF Arrive, link, Badges, Tabs
<1>6. ASSUME NEW kind \in Badges, Broadcast(kind) PROVE FilterInv'
  BY <1>1, <1>3, <1>4, <1>6 DEF Broadcast
<1>7. ASSUME NEW tab \in {"proposals", "followups"}, NotificationClicked(tab) PROVE FilterInv'
  BY <1>1, <1>2, <1>7 DEF NotificationClicked, Tabs
<1>. QED BY <1>5, <1>6, <1>7 DEF Arrivals, Classified, ProposalReady, FollowupDue, Arrive

\* What becomes of the calls in flight while the page waits.
LEMMA WaitFits ==
  ASSUME FilterInv, UNCHANGED page, stash' \in Tabs \cup {None},
         CallsFit(calls', activityFilter), MessagesFit(inbox', activityFilter)
  PROVE  FilterInv'
<1>1. LinkFits' <=> CallsFit(calls', activityFilter') /\ MessagesFit(inbox', activityFilter')
  BY DEF LinkFits, CallsFit, MessagesFit, CallFits, MessageFits, IsRow
<1>2. PaneFits' /\ TabsFit'
  BY DEF page, FilterInv, PaneFits, TabsFit
<1>. QED BY <1>1, <1>2 DEF page, FilterInv

LEMMA CallInFlight ==
  ASSUME FilterInv, NEW i \in DOMAIN calls
  PROVE  CallFits(calls[i], activityFilter) /\ CallsFit(RemoveAt(calls, i), activityFilter)
<1>1. calls[i] \in ToSet(calls)
  BY DEF ToSet
<1>. QED BY <1>1, Removed DEF FilterInv, LinkFits, CallsFit

LEMMA AnswerFits ==
  ASSUME FilterInv, NEW i \in DOMAIN calls, NEW ok, NEW value,
         ForEvents(calls[i]) /\ ok => value = calls[i].item,
         calls[i].ask = "stash" => value \in Tabs \cup {None}
  PROVE  MessageFits(Answer(calls[i], ok, value), activityFilter)
BY CallInFlight DEF Answer, MessageFits

LEMMA ServedFit ==
  ASSUME FilterInv, NEW i \in DOMAIN calls, NEW ok, NEW value, Served(i, ok, value),
         ForEvents(calls[i]) /\ ok => value = calls[i].item,
         calls[i].ask = "stash" => value \in Tabs \cup {None}
  PROVE  CallsFit(calls', activityFilter) /\ MessagesFit(inbox', activityFilter)
BY AnswerFits, CallInFlight, AMessage DEF Served, FilterInv, LinkFits

LEMMA ServeFits ==
  ASSUME FilterInv, Serve, UNCHANGED page
  PROVE  FilterInv'
<1>. PICK i \in DOMAIN calls :
            ServeRead(i) \/ ServeStash(i) \/ ServeAction(i) \/ ServeResolve(i)
              \/ ServeResolved(i) \/ ServeHost(i)
  BY DEF Serve
<1>0. stash \in Tabs \cup {None}
  BY DEF FilterInv, TabsFit
<1>1. CASE ServeRead(i)
  <2>1. calls[i].ask = "activity" => Reads(calls[i]) = calls[i].item
    BY DEF Reads
  <2>. QED BY <1>0, <1>1, <2>1, ServedFit, WaitFits DEF ServeRead, Reading, ForEvents, world
<1>2. CASE ServeStash(i)
  BY <1>0, <1>2, ServedFit, WaitFits DEF ServeStash, ForEvents
<1>3. CASE ServeAction(i)
  BY <1>0, <1>3, ServedFit, WaitFits DEF ServeAction, ForEvents, world
<1>4. CASE ServeResolve(i)
  <2>1. calls' = [calls EXCEPT ![i].ask = "resolved"] /\ UNCHANGED <<inbox, stash>>
    BY <1>4 DEF ServeResolve
  <2>2. IsRow(calls')
    <3>1. DOMAIN calls' = DOMAIN calls /\ calls' = [j \in DOMAIN calls' |-> calls'[j]]
      BY <2>1
    <3>2. IsRow(calls)
      BY DEF FilterInv, LinkFits, CallsFit
    <3>. QED BY <3>1, <3>2, Mapped
  <2>3. \A j \in DOMAIN calls : CallFits(calls[j], activityFilter)
    BY CallInFlight
  <2>4. \A j \in DOMAIN calls : CallFits(calls'[j], activityFilter)
    BY <2>1, <2>3 DEF CallFits, ForEvents, Fields
  <2>5. \A c \in ToSet(calls') : \E j \in DOMAIN calls : c = calls'[j]
    BY <2>1 DEF ToSet
  <2>6. CallsFit(calls', activityFilter)
    BY <2>2, <2>4, <2>5 DEF CallsFit
  <2>. QED BY <1>0, <2>1, <2>6, WaitFits DEF FilterInv, LinkFits
<1>5. CASE ServeResolved(i)
  BY <1>0, <1>5, ServedFit, WaitFits DEF ServeResolved, ForEvents, world
<1>6. CASE ServeHost(i)
  BY <1>0, <1>6, ServedFit, WaitFits DEF ServeHost, HostDoes, Changing, ForEvents, world
<1>. QED BY <1>1, <1>2, <1>3, <1>4, <1>5, <1>6

\* A port that goes rejects the host's calls.
LEMMA PortGoneFits ==
  ASSUME FilterInv, NEW p, NEW cs, NEW answers, PortGone(p, cs, answers),
         CallsFit(cs, activityFilter), MessagesFit(answers, activityFilter)
  PROVE  CallsFit(calls', activityFilter) /\ MessagesFit(inbox', activityFilter)
<1>. DEFINE own == {i \in DOMAIN cs : cs[i].ask \in Local}
<1>1. /\ calls' = Only(cs, own)
      /\ inbox' = (Append(inbox, Event("status", p)) \o FailAll(Only(cs, DOMAIN cs \ own), None)) \o answers
  BY DEF PortGone
<1>2. CallsFit(Only(cs, own), activityFilter) /\ CallsFit(Only(cs, DOMAIN cs \ own), activityFilter)
  BY OnlyCalls
<1>3. MessageFits(Event("status", p), activityFilter)
  BY DEF Event, MessageFits
<1>. HIDE DEF own
<1>4. MessagesFit(Append(inbox, Event("status", p)), activityFilter)
  BY <1>3, AMessage DEF FilterInv, LinkFits
<1>5. MessagesFit(FailAll(Only(cs, DOMAIN cs \ own), None), activityFilter)
  BY <1>2, FailedMessages
<1>. QED BY <1>1, <1>2, <1>4, <1>5, MoreMessages

LEMMA LinkStepsFit ==
  ASSUME FilterInv, UNCHANGED page, stash' \in Tabs \cup {None}, LinkSteps
  PROVE  FilterInv'
<1>1. CallsFit(calls, activityFilter) /\ MessagesFit(inbox, activityFilter)
  BY DEF FilterInv, LinkFits
<1>2. \A p : MessageFits(Event("status", p), activityFilter)
  BY DEF Event, MessageFits
<1>3. CASE Drop
  BY <1>1, <1>3, NoCalls, PortGoneFits, WaitFits DEF Drop
<1>4. CASE Silence
  BY <1>1, <1>2, <1>4, AMessage, WaitFits DEF Silence
<1>5. CASE Connected
  BY <1>1, <1>2, <1>5, AMessage, WaitFits DEF Connected
<1>6. ASSUME NEW i \in DOMAIN calls, ServeReconnect(i) PROVE FilterInv'
  <2>1. calls[i].ask = "reconnect"
        /\ PortGone("connecting", RemoveAt(calls, i), <<Answer(calls[i], TRUE, "connecting")>>)
    BY <1>6 DEF ServeReconnect
  <2>2. MessagesFit(<<Answer(calls[i], TRUE, "connecting")>>, activityFilter)
    BY <2>1, AnswerFits, OneMessage DEF ForEvents
  <2>. QED BY <2>1, <2>2, CallInFlight, PortGoneFits, WaitFits
<1>7. ASSUME NEW i \in DOMAIN calls, ServeStatus(i) PROVE FilterInv'
  BY <1>7, ServedFit, WaitFits DEF ServeStatus, ForEvents
<1>. QED BY <1>3, <1>4, <1>5, <1>6, <1>7 DEF LinkSteps

LEMMA FilterInit ==
  ASSUME calls = <<>>, inbox = <<>>, activeTab = "review", stash \in {None, "proposals"},
         pane \in [of : {"empty", "review"}, bar : {None}, events : {{}}]
  PROVE  FilterInv
<1>1. LinkFits
  BY NoCalls DEF LinkFits
<1>. QED BY <1>1 DEF FilterInv, PaneFits, TabsFit, Tabs

LEMMA FilterNext ==
  ASSUME FilterInv, [Next]_vars
  PROVE  FilterInv'
<1>0. stash \in Tabs \cup {None} /\ CallsFit(calls, activityFilter) /\ MessagesFit(inbox, activityFilter)
  BY DEF FilterInv, LinkFits, TabsFit
<1>1. ASSUME EnterApp PROVE FilterInv'
  BY <1>1, CallFacts, OneCall, AskFits, PaneStays, TabsStay DEF EnterApp, Repainted, world, FilterInv
<1>2. CASE Boot
  <2>. SUFFICES ASSUME UNCHANGED <<link, pane, activeTab, activityFilter, world>> PROVE FilterInv'
    BY <1>1, <1>2 DEF Boot
  <2>. QED BY <1>0, AskFits, PaneStays, TabsStay DEF link, world, Repainted, FilterInv, LinkFits
<1>3. CASE OnboardStep
  <2>1. CallFits([Call("status") EXCEPT !.way = "count"], activityFilter)
    BY DEF Call, Fields, CallFits, ForEvents
  <2>. QED BY <1>3, <2>1, NoCalls, OneCall, AskFits, PaneStays, TabsStay
           DEF OnboardStep, Repainted, world, FilterInv
<1>4. CASE TimerFires
  <2>1. CallFits(Paint("review", "stop"), activityFilter)
    BY PaintFacts DEF Tabs
  <2>. QED BY <1>4, <2>1, NoCalls, OneCall, AskFits, PaneStays, TabsStay
           DEF TimerFires, Repainted, world, FilterInv
<1>5. ASSUME NEW i \in DOMAIN calls, DoneAndLost(i), UNCHANGED page PROVE FilterInv'
  BY <1>0, <1>5, LinkStepsFit DEF DoneAndLost, HostDoes, LinkSteps
<1>6. CASE LinkSteps /\ UNCHANGED <<page, world, spent>>
  BY <1>0, <1>6, LinkStepsFit DEF world
<1>7. CASE UNCHANGED vars
  BY <1>0, <1>7, WaitFits DEF vars, link, world
<1>. QED
  BY <1>1, <1>2, <1>3, <1>4, <1>5, <1>6, <1>7, HandlersFit, ClicksFit, ArrivalsFit, ServeFits
     DEF Next, FinishOnboarding

LEMMA FilterImplied == FilterInv => FiltersNeverMix
BY DEF FilterInv, PaneFits, FiltersNeverMix

\* The events under a chip bar are those of the pressed filter, whatever the
\* user clicks, the host sends and the connection loses while answers for
\* other filters are on their way (renderActivity).
THEOREM FiltersStayApart == Spec => []FiltersNeverMix
<1>1. Init => FilterInv
  BY FilterInit DEF Init, Opened, LinkInit, World
<1>2. FilterInv /\ [Next]_vars => FilterInv'
  BY FilterNext
<1>. QED BY <1>1, <1>2, FilterImplied, PTL DEF Spec

\* The same of the behaviours that are checked, which start with the dashboard
\* at rest or follow the panel as well.
THEOREM FiltersStayApartInPages == MCSpec => []FiltersNeverMix
<1>. DEFINE Inv == /\ open # "panel" => FilterInv
                   /\ open = "panel" => pane.bar = None
<1>1. MCInit => Inv
  BY FilterInit DEF MCInit, Opened, LinkInit, World, Resting, Closed
<1>2. Inv /\ [MCNext]_allVars => Inv'
  <2>1. ASSUME open # "panel", FilterInv, [Next]_vars, UNCHANGED open PROVE Inv'
    BY <2>1, FilterNext
  <2>2. [MCNext]_allVars /\ open # "panel" => [Next]_vars /\ UNCHANGED open
    BY DEF MCNext, allVars
  <2>3. [MCNext]_allVars /\ open = "panel" => UNCHANGED <<open, pane>>
    BY DEF MCNext, allVars, vars, pageVars, page
  <2>. QED BY <2>1, <2>2, <2>3
<1>3. Inv => FiltersNeverMix
  BY FilterImplied DEF FiltersNeverMix
<1>. QED BY <1>1, <1>2, <1>3, PTL DEF MCSpec

-----------------------------------------------------------------------------
(* That pages settle.  What a page shows is what it was told last.  For    *)
(* each thing it shows (the phase, the pause switch, a badge, a list) the  *)
(* invariant says that the page will be told it again (a call that asks for*)
(* it waits for its answer, a broadcast that makes the page ask is still to*)
(* come), or that the last message in the inbox that tells it, and else the*)
(* page itself, has it right.                                              *)

\* What is told: "phase" to the dashboard, "seen" to the panel, the "pause"
\* switch, the "badge" of a tab, the "list" of a tab.
Key(of, tab) == [of |-> of, tab |-> tab]
PhaseKey == Key("phase", "none")
SeenKey  == Key("seen", "none")
PauseKey == Key("pause", "none")

\* The calls whose answers tell it, and what an answer or an event tells.
Asks(k, c) ==
  CASE k.of = "phase" -> (c.ask = "status" /\ c.way = "act") \/ c.ask = "reconnect"
    [] k.of = "seen"  -> c.ask \in {"status", "reconnect"}
    [] k.of = "pause" -> c.ask = "settings"
    [] k.of = "badge" -> /\ c.ask = Lists[k.tab]
                         /\ c.way = "count" \/ (c.way = "paint" /\ (c.newest \/ k.tab = "review"))
    [] k.of = "list"  -> c.ask = Lists[k.tab] /\ c.way = "paint" /\ c.newest

Tells(k, m) ==
  CASE k.of = "phase" -> m.value
    [] k.of = "seen"  -> IF m.call.ask = "classify" THEN m.why ELSE m.value
    [] k.of = "pause" -> IF m.call.ask = "pause" THEN m.value ELSE m.ok /\ m.value
    [] k.of = "badge" -> IF m.ok THEN Cardinality(m.value) ELSE 0
    [] k.of = "list"  -> IF m.ok THEN m.value ELSE {}

\* A pause that succeeded, a classification that was refused.
AlsoTells(k, m) ==
  \/ k.of = "pause" /\ m.call.ask = "pause" /\ m.ok
  \/ k.of = "seen" /\ m.call.ask = "classify" /\ ~m.ok /\ m.why # None

Says(k, m) ==
  IF m.kind = "event"
  THEN IF k.of \in {"phase", "seen"} /\ m.name = "status" THEN {m.value} ELSE {}
  ELSE IF Asks(k, m.call) \/ AlsoTells(k, m) THEN {Tells(k, m)} ELSE {}

\* The last of the messages that tells it tells x; else x was told before.
Settles(k, s, told, x) ==
  /\ \A i \in DOMAIN s :
       Says(k, s[i]) # {} /\ (\A j \in DOMAIN s : j > i => Says(k, s[j]) = {}) => Says(k, s[i]) = {x}
  /\ (\A i \in DOMAIN s : Says(k, s[i]) = {}) => told \subseteq {x}

Fresh(k, cs, s, told, x) == (\E i \in DOMAIN cs : Asks(k, cs[i])) \/ Settles(k, s, told, x)

\* The calls that are under way: in flight, or answered and not yet handled.
Replies == {i \in DOMAIN inbox : inbox[i].kind = "answer"}
Pending == ToSet(calls) \cup {inbox[i].call : i \in Replies}
-----------------------------------------------------------------------------
(* Messages that come, go, and are put after one another.                  *)

LEMMA LenOfRow ==
  ASSUME NEW s, IsRow(s)
  PROVE  Len(s) \in Nat /\ DOMAIN s = 1 .. Len(s)
BY RowFacts DEF IsRow

\* Two rows, place by place.
LEMMA JoinedPlaces ==
  ASSUME NEW s, NEW t, IsRow(s), IsRow(t)
  PROVE  /\ Len(s) \in Nat /\ Len(t) \in Nat
         /\ DOMAIN s = 1 .. Len(s) /\ DOMAIN t = 1 .. Len(t)
         /\ DOMAIN (s \o t) = 1 .. (Len(s) + Len(t))
         /\ \A i \in DOMAIN s : i \in DOMAIN (s \o t) /\ (s \o t)[i] = s[i]
         /\ \A i \in DOMAIN t : Len(s) + i \in DOMAIN (s \o t) /\ (s \o t)[Len(s) + i] = t[i]
         /\ \A i \in DOMAIN (s \o t) :
              i \in DOMAIN s \/ \E j \in DOMAIN t : i = Len(s) + j /\ (s \o t)[i] = t[j]
<1>. DEFINE U == ToSet(s) \cup ToSet(t)
<1>1. s \in Seq(U) /\ t \in Seq(U)
  <2>1. s \in Seq(ToSet(s)) /\ t \in Seq(ToSet(t))
    BY DEF IsRow
  <2>. QED BY <2>1, SeqMonotonic
<1>. HIDE DEF U
<1>2. Len(s) \in Nat /\ Len(t) \in Nat /\ DOMAIN s = 1 .. Len(s) /\ DOMAIN t = 1 .. Len(t)
  BY <1>1
<1>3. DOMAIN (s \o t) = 1 .. (Len(s) + Len(t))
  BY <1>1
<1>4. \A i \in 1 .. Len(s) : (s \o t)[i] = s[i]
  BY <1>1
<1>5. \A i \in 1 .. Len(t) : (s \o t)[Len(s) + i] = t[i]
  BY <1>1
<1>6. ASSUME NEW i \in 1 .. (Len(s) + Len(t)), i \notin 1 .. Len(s)
      PROVE  \E j \in 1 .. Len(t) : i = Len(s) + j
  <2>1. i - Len(s) \in 1 .. Len(t) /\ i = Len(s) + (i - Len(s))
    BY <1>2, <1>6
  <2>. QED BY <2>1
<1>7. ASSUME NEW i \in 1 .. Len(s) PROVE i \in 1 .. (Len(s) + Len(t))
  BY <1>2
<1>8. ASSUME NEW i \in 1 .. Len(t) PROVE Len(s) + i \in 1 .. (Len(s) + Len(t))
  BY <1>2
<1>9. ASSUME NEW i \in DOMAIN (s \o t), i \notin DOMAIN s
      PROVE  \E j \in DOMAIN t : i = Len(s) + j /\ (s \o t)[i] = t[j]
  <2>1. PICK j \in 1 .. Len(t) : i = Len(s) + j
    BY <1>2, <1>3, <1>6, <1>9
  <2>. QED BY <1>2, <1>5, <2>1
<1>. QED BY <1>2, <1>3, <1>4, <1>5, <1>7, <1>8, <1>9

\* What is in them, whatever the places.
Has(s, e) == \E i \in DOMAIN s : s[i] = e

LEMMA JoinedHas ==
  ASSUME NEW s, NEW t, IsRow(s), IsRow(t), NEW e
  PROVE  Has(s \o t, e) <=> Has(s, e) \/ Has(t, e)
<1>. DEFINE st == s \o t
            n == Len(s)
<1>1. /\ \A i \in DOMAIN s : i \in DOMAIN st /\ st[i] = s[i]
      /\ \A i \in DOMAIN t : n + i \in DOMAIN st /\ st[n + i] = t[i]
      /\ \A i \in DOMAIN st : i \in DOMAIN s \/ \E j \in DOMAIN t : st[i] = t[j]
  BY JoinedPlaces
<1>. HIDE DEF st, n
<1>. QED BY <1>1 DEF Has, st

\* One more at the end is a row of one put after it.
LEMMA AppendedPlaces ==
  ASSUME NEW s, IsRow(s), NEW e
  PROVE  IsRow(<<e>>) /\ Append(s, e) = s \o <<e>> /\ DOMAIN <<e>> = {1} /\ <<e>>[1] = e
<1>1. s \in Seq(ToSet(s) \cup {e}) /\ <<e>> \in Seq({e})
  BY SeqMonotonic DEF IsRow
<1>2. Append(s, e) = s \o <<e>>
  BY <1>1
<1>3. IsRow(<<e>>)
  BY <1>1, RowFacts
<1>. QED BY <1>2, <1>3

LEMMA TailPlaces ==
  ASSUME NEW s, IsRow(s), s # <<>>
  PROVE  /\ 1 \in DOMAIN s /\ Head(s) = s[1]
         /\ Len(s) \in Nat \ {0} /\ DOMAIN s = 1 .. Len(s) /\ DOMAIN Tail(s) = 1 .. (Len(s) - 1)
         /\ \A i \in DOMAIN Tail(s) : i + 1 \in DOMAIN s /\ Tail(s)[i] = s[i + 1]
         /\ \A i \in DOMAIN s : i = 1 \/ (i - 1 \in DOMAIN Tail(s) /\ Tail(s)[i - 1] = s[i])
<1>1. s \in Seq(ToSet(s))
  BY DEF IsRow
<1>2. Len(s) \in Nat \ {0} /\ DOMAIN s = 1 .. Len(s)
  BY <1>1
<1>3. DOMAIN Tail(s) = 1 .. (Len(s) - 1) /\ Head(s) = s[1]
  BY <1>1
<1>4. \A i \in 1 .. (Len(s) - 1) : Tail(s)[i] = s[i + 1]
  BY <1>1
<1>. QED BY <1>2, <1>3, <1>4

LEMMA RemovedHas ==
  ASSUME NEW s, IsRow(s), NEW i \in DOMAIN s, NEW e
  PROVE  /\ Has(RemoveAt(s, i), e) => Has(s, e)
         /\ Has(s, e) => e = s[i] \/ Has(RemoveAt(s, i), e)
<1>1. Len(s) \in Nat /\ DOMAIN s = 1 .. Len(s) /\ s \in Seq(ToSet(s))
  BY LenOfRow DEF IsRow
<1>. DEFINE a == SubSeq(s, 1, i - 1)
            b == SubSeq(s, i + 1, Len(s))
<1>2. RemoveAt(s, i) = a \o b
  BY DEF RemoveAt
<1>3. a \in Seq(ToSet(s)) /\ b \in Seq(ToSet(s))
  BY <1>1
<1>4. DOMAIN a = 1 .. (i - 1) /\ DOMAIN b = 1 .. (Len(s) - i)
  BY <1>1
<1>5. \A j \in 1 .. (i - 1) : a[j] = s[j]
  BY <1>1
<1>6. \A j \in 1 .. (Len(s) - i) : b[j] = s[i + j]
  BY <1>1
<1>. HIDE DEF a, b
<1>7. IsRow(a) /\ IsRow(b)
  BY <1>3, RowFacts
<1>8. Has(a, e) \/ Has(b, e) => Has(s, e)
  <2>1. \A j \in 1 .. (i - 1) : j \in DOMAIN s
    BY <1>1
  <2>2. \A j \in 1 .. (Len(s) - i) : i + j \in DOMAIN s
    BY <1>1
  <2>. QED BY <1>4, <1>5, <1>6, <2>1, <2>2 DEF Has
<1>9. ASSUME NEW j \in DOMAIN s, j # i PROVE Has(a, s[j]) \/ Has(b, s[j])
  <2>1. CASE j < i
    <3>1. j \in 1 .. (i - 1)
      BY <1>1, <2>1
    <3>. QED BY <1>4, <1>5, <3>1 DEF Has
  <2>2. CASE j > i
    <3>1. j - i \in 1 .. (Len(s) - i) /\ i + (j - i) = j
      BY <1>1, <2>2
    <3>. QED BY <1>4, <1>6, <3>1 DEF Has
  <2>. QED BY <1>1, <1>9, <2>1, <2>2
<1>10. Has(s, e) => e = s[i] \/ Has(a, e) \/ Has(b, e)
  BY <1>9 DEF Has
<1>. QED BY <1>2, <1>7, <1>8, <1>10, JoinedHas
\* Whatever was told before, x is told last.
LEMMA SettlesTold ==
  ASSUME NEW k, NEW s, IsRow(s), NEW m, NEW x, NEW told, Says(k, m) = {x}
  PROVE  Settles(k, Append(s, m), told, x)
<1>. DEFINE t == Append(s, m)
<1>1. t = s \o <<m>> /\ IsRow(<<m>>) /\ DOMAIN <<m>> = {1} /\ <<m>>[1] = m
  BY AppendedPlaces
<1>2. /\ Len(s) \in Nat /\ DOMAIN s = 1 .. Len(s)
      /\ Len(s) + 1 \in DOMAIN t /\ t[Len(s) + 1] = m
      /\ \A i \in DOMAIN t : i \in DOMAIN s \/ i = Len(s) + 1
  BY <1>1, JoinedPlaces
<1>. HIDE DEF t
<1>3. \A i \in DOMAIN t : i # Len(s) + 1 => Len(s) + 1 > i
  BY <1>2
<1>4. Says(k, t[Len(s) + 1]) = {x} /\ {x} # {}
  BY <1>2
<1>. QED BY <1>2, <1>3, <1>4 DEF Settles, t

\* What is put after it does not tell it, or tells the same.
LEMMA SettlesQuiet ==
  ASSUME NEW k, NEW s, NEW t, IsRow(s), IsRow(t), NEW x, NEW told, Settles(k, s, told, x),
         \A i \in DOMAIN t : Says(k, t[i]) \subseteq {x}
  PROVE  Settles(k, s \o t, told, x)
<1>. DEFINE st == s \o t
<1>1. /\ \A i \in DOMAIN s : i \in DOMAIN st /\ st[i] = s[i]
      /\ \A i \in DOMAIN st : i \in DOMAIN s \/ \E j \in DOMAIN t : st[i] = t[j]
  BY JoinedPlaces
<1>. HIDE DEF st
<1>2. \A i \in DOMAIN st : i \in DOMAIN s \/ Says(k, st[i]) = {} \/ Says(k, st[i]) = {x}
  BY <1>1
<1>. QED BY <1>1, <1>2 DEF Settles, st

LEMMA SettlesAppended ==
  ASSUME NEW k, NEW s, IsRow(s), NEW m, NEW x, NEW told, Settles(k, s, told, x), Says(k, m) = {}
  PROVE  Settles(k, Append(s, m), told, x)
<1>1. IsRow(<<m>>) /\ Append(s, m) = s \o <<m>> /\ \A i \in DOMAIN <<m>> : Says(k, <<m>>[i]) = {}
  BY AppendedPlaces
<1>. QED BY <1>1, SettlesQuiet

\* The first is taken in.
LEMMA SettlesHandled ==
  ASSUME NEW k, NEW s, IsRow(s), s # <<>>, NEW x, NEW told, NEW now, Settles(k, s, told, x),
         now \subseteq (IF Says(k, Head(s)) = {} THEN told ELSE Says(k, Head(s)))
  PROVE  Settles(k, Tail(s), now, x)
<1>. DEFINE t == Tail(s)
<1>1. /\ 1 \in DOMAIN s /\ Head(s) = s[1] /\ DOMAIN s = 1 .. Len(s) /\ Len(s) \in Nat
      /\ \A i \in DOMAIN t : i \in Nat /\ i + 1 \in DOMAIN s /\ t[i] = s[i + 1]
      /\ \A i \in DOMAIN s : i \in Nat /\ (i = 1 \/ (i - 1 \in DOMAIN t /\ t[i - 1] = s[i]))
  BY TailPlaces
<1>. HIDE DEF t
<1>2. ASSUME NEW i \in DOMAIN t, Says(k, t[i]) # {}, \A j \in DOMAIN t : j > i => Says(k, t[j]) = {}
      PROVE  Says(k, t[i]) = {x}
  <2>1. ASSUME NEW j \in DOMAIN s, j > i + 1 PROVE Says(k, s[j]) = {}
    <3>1. j # 1 /\ j - 1 > i
      BY <1>1, <2>1
    <3>. QED BY <1>1, <1>2, <3>1
  <2>2. i + 1 \in DOMAIN s /\ t[i] = s[i + 1]
    BY <1>1
  <2>. QED BY <1>2, <2>1, <2>2 DEF Settles
<1>3. ASSUME \A i \in DOMAIN t : Says(k, t[i]) = {} PROVE now \subseteq {x}
  <2>1. \A j \in DOMAIN s : j > 1 => Says(k, s[j]) = {}
    BY <1>1, <1>3
  <2>2. CASE Says(k, Head(s)) = {}
    BY <1>1, <2>1, <2>2 DEF Settles
  <2>3. CASE Says(k, Head(s)) # {}
    BY <1>1, <2>1, <2>3 DEF Settles
  <2>. QED BY <2>2, <2>3
<1>. QED BY <1>2, <1>3 DEF Settles, t

\* Messages that tell the same.
LEMMA SettlesAlike ==
  ASSUME NEW k, NEW s, NEW t, DOMAIN s = DOMAIN t, NEW x, NEW told, Settles(k, s, told, x),
         \A i \in DOMAIN s : Says(k, t[i]) = Says(k, s[i])
  PROVE  Settles(k, t, told, x)
BY DEF Settles

\* Some message is the last that tells it.
LEMMA LastTold ==
  ASSUME NEW k, NEW s, IsRow(s), NEW x, NEW told, Settles(k, s, told, x)
  PROVE  \/ \E i \in DOMAIN s : Says(k, s[i]) = {x}
         \/ told \subseteq {x}
<1>. DEFINE K == {i \in DOMAIN s : Says(k, s[i]) # {}}
<1>1. DOMAIN s = 1 .. Len(s) /\ Len(s) \in Nat
  BY LenOfRow
<1>2. CASE K = {}
  BY <1>2 DEF Settles
<1>3. CASE K # {}
  <2>1. IsFiniteSet(K) /\ K \in SUBSET Nat
    <3>1. IsFiniteSet(1 .. Len(s)) /\ K \subseteq 1 .. Len(s)
      BY <1>1, FS_Interval
    <3>2. K \in SUBSET Nat
      BY <1>1
    <3>. HIDE DEF K
    <3>. QED BY <3>1, <3>2, FS_Subset
  <2>. HIDE DEF K
  <2>2. PICK i \in K : \A j \in K : j <= i
    BY <2>1, <1>3, MaxExists
  <2>3. i \in DOMAIN s /\ Says(k, s[i]) # {} /\ \A j \in DOMAIN s : j > i => Says(k, s[j]) = {}
    <3>1. \A j \in DOMAIN s : j \in K <=> Says(k, s[j]) # {}
      BY DEF K
    <3>2. \A j \in DOMAIN s : j > i => ~(j <= i)
      BY <1>1, <2>1, <2>2
    <3>. QED BY <2>2, <3>1, <3>2 DEF K
  <2>. QED BY <2>3 DEF Settles
<1>. QED BY <1>2, <1>3
-----------------------------------------------------------------------------
(* What a handler leaves behind.                                           *)

\* A call that a newer paint of its list has overtaken, and its answer.
Older(new, c) ==
  IF c.way = "paint" /\ c.ask \in {new[i].ask : i \in {j \in DOMAIN new : new[j].way = "paint"}}
  THEN [c EXCEPT !.newest = FALSE] ELSE c
Aged(new, m) == IF m.kind = "answer" THEN [m EXCEPT !.call = Older(new, @)] ELSE m

\* The answer of a call that failed; one that is refused at once.
Failed(c, why) == [Answer(c, FALSE, None) EXCEPT !.why = why]
Refused(m, c)  == m = Failed(c, phase) /\ ~Accepts(c)

LEMMA OnlyPlaces ==
  ASSUME NEW s, IsRow(s), NEW K, K \subseteq DOMAIN s
  PROVE  /\ IsRow(Only(s, K))
         /\ \A i \in DOMAIN Only(s, K) : \E j \in K : Only(s, K)[i] = s[j]
         /\ \A j \in K : \E i \in DOMAIN Only(s, K) : Only(s, K)[i] = s[j]
         /\ K = DOMAIN s => Only(s, K) = s
         /\ K = {} => Only(s, K) = <<>>
<1>1. Len(s) \in Nat /\ DOMAIN s = 1 .. Len(s)
  BY LenOfRow
<1>2. IsFiniteSet(K) /\ K \in SUBSET Nat
  <2>1. IsFiniteSet(1 .. Len(s)) /\ K \in SUBSET (1 .. Len(s))
    BY <1>1, FS_Interval
  <2>2. K \in SUBSET Nat
    BY <1>1
  <2>. QED BY <2>1, <2>2, FS_Subset
<1>3. /\ \A n \in 1 .. Cardinality(K) : Nth(K, n) \in K
      /\ \A j \in K : \E n \in 1 .. Cardinality(K) : Nth(K, n) = j
  BY <1>2, NthFacts
<1>4. DOMAIN Only(s, K) = 1 .. Cardinality(K) /\ \A n \in 1 .. Cardinality(K) : Only(s, K)[n] = s[Nth(K, n)]
  BY DEF Only
<1>5. ASSUME K = DOMAIN s PROVE Only(s, K) = s
  <2>1. Cardinality(K) = Len(s)
    <3>1. Cardinality(1 .. Len(s)) = Len(s)
      BY <1>1, FS_Interval
    <3>. QED BY <1>1, <1>5, <3>1
  <2>2. ASSUME NEW n \in 1 .. Len(s) PROVE Nth(K, n) = n
    <3>1. Nth(K, n) \in 1 .. Len(s) /\ Cardinality({j \in K : j <= Nth(K, n)}) = n
      BY <1>1, <1>2, <1>5, <2>1, <2>2, NthFacts
    <3>2. {j \in K : j <= Nth(K, n)} = 1 .. Nth(K, n)
      BY <1>1, <1>5, <3>1
    <3>3. Cardinality(1 .. Nth(K, n)) = Nth(K, n)
      BY <3>1, FS_Interval
    <3>. QED BY <3>1, <3>2, <3>3
  <2>3. s = [n \in 1 .. Len(s) |-> s[n]]
    BY <1>1 DEF IsRow
  <2>4. [n \in 1 .. Cardinality(K) |-> s[Nth(K, n)]] = [n \in 1 .. Len(s) |-> s[n]]
    BY <2>1, <2>2
  <2>. QED BY <2>3, <2>4 DEF Only
<1>6. ASSUME K = {} PROVE Only(s, K) = <<>>
  <2>1. Cardinality(K) = 0
    BY <1>6, FS_EmptySet
  <2>2. [n \in 1 .. 0 |-> s[Nth(K, n)]] = <<>>
    OBVIOUS
  <2>. QED BY <2>1, <2>2 DEF Only
<1>7. IsRow(Only(s, K))
  BY OnlyRow
<1>. QED BY <1>3, <1>4, <1>5, <1>6, <1>7

LEMMA FailedPlaces ==
  ASSUME NEW s, IsRow(s), NEW why
  PROVE  /\ IsRow(FailAll(s, why)) /\ DOMAIN FailAll(s, why) = DOMAIN s
         /\ \A i \in DOMAIN s : FailAll(s, why)[i] = Failed(s[i], why)
<1>1. FailAll(s, why) = [i \in DOMAIN s |-> Failed(s[i], why)]
  BY DEF FailAll, Failed
<1>. QED BY <1>1, Mapped

\* The accepted are in flight, the others are refused; while the host is
\* connected all are accepted.
Sent(cs, in, new, good, bad) ==
  /\ IsRow(good) /\ IsRow(bad)
  /\ calls' = cs \o good /\ inbox' = in \o bad
  /\ \A i \in DOMAIN good : \E j \in DOMAIN new : good[i] = new[j]
  /\ \A i \in DOMAIN bad : \E j \in DOMAIN new : Refused(bad[i], new[j])
  /\ \A j \in DOMAIN new : \/ \E i \in DOMAIN good : good[i] = new[j]
                           \/ \E i \in DOMAIN bad : Refused(bad[i], new[j])
  /\ (\A j \in DOMAIN new : Accepts(new[j])) => good = new /\ bad = <<>>

LEMMA SendEffect ==
  ASSUME NEW cs, NEW in, NEW new, IsRow(new), Send(cs, in, new)
  PROVE  \E good, bad : Sent(cs, in, new, good, bad)
<1>. DEFINE accepted == {i \in DOMAIN new : Accepts(new[i])}
            refused  == DOMAIN new \ accepted
            good == Only(new, accepted)
            lost == Only(new, refused)
            bad  == FailAll(lost, phase)
<1>1. calls' = cs \o good /\ inbox' = in \o bad
  BY DEF Send
<1>2. accepted \subseteq DOMAIN new /\ refused \subseteq DOMAIN new
  OBVIOUS
<1>3. \A j \in DOMAIN new : (j \in accepted <=> Accepts(new[j])) /\ (j \in refused <=> ~Accepts(new[j]))
  OBVIOUS
<1>4. (\A j \in DOMAIN new : Accepts(new[j])) => accepted = DOMAIN new /\ refused = {}
  OBVIOUS
<1>. HIDE DEF accepted, refused
<1>5. /\ IsRow(good) /\ IsRow(lost)
      /\ \A i \in DOMAIN good : \E j \in accepted : good[i] = new[j]
      /\ \A j \in accepted : \E i \in DOMAIN good : good[i] = new[j]
      /\ \A i \in DOMAIN lost : \E j \in refused : lost[i] = new[j]
      /\ \A j \in refused : \E i \in DOMAIN lost : lost[i] = new[j]
  BY <1>2, OnlyPlaces
<1>6. accepted = DOMAIN new => good = new
  BY <1>2, OnlyPlaces
<1>7. refused = {} => lost = <<>>
  BY <1>2, OnlyPlaces
<1>. HIDE DEF good, lost
<1>0. bad = FailAll(lost, phase)
  OBVIOUS
<1>. HIDE DEF bad
<1>8. /\ IsRow(bad) /\ DOMAIN bad = DOMAIN lost
      /\ \A i \in DOMAIN lost : bad[i] = Failed(lost[i], phase)
  BY <1>0, <1>5, FailedPlaces
<1>9. lost = <<>> => bad = <<>>
  BY <1>0 DEF FailAll
<1>10. ASSUME NEW i \in DOMAIN bad PROVE \E j \in DOMAIN new : Refused(bad[i], new[j])
  <2>1. PICK j \in refused : lost[i] = new[j]
    BY <1>5, <1>8
  <2>2. j \in DOMAIN new /\ ~Accepts(new[j]) /\ bad[i] = Failed(new[j], phase)
    BY <1>2, <1>3, <1>8, <2>1
  <2>. QED BY <2>2 DEF Refused
<1>11. ASSUME NEW j \in DOMAIN new
       PROVE  \/ \E i \in DOMAIN good : good[i] = new[j]
              \/ \E i \in DOMAIN bad : Refused(bad[i], new[j])
  <2>1. CASE Accepts(new[j])
    BY <1>3, <1>5, <2>1
  <2>2. CASE ~Accepts(new[j])
    <3>1. PICK i \in DOMAIN lost : lost[i] = new[j]
      BY <1>3, <1>5, <2>2
    <3>. QED BY <1>8, <2>2, <3>1 DEF Refused
  <2>. QED BY <2>1, <2>2
<1>12. (\A j \in DOMAIN new : Accepts(new[j])) => good = new /\ bad = <<>>
  BY <1>4, <1>6, <1>7, <1>9
<1>13. \A i \in DOMAIN good : \E j \in DOMAIN new : good[i] = new[j]
  BY <1>2, <1>5
<1>14. Sent(cs, in, new, good, bad)
  BY <1>1, <1>5, <1>8, <1>10, <1>11, <1>12, <1>13 DEF Sent
<1>. QED BY <1>14
\* A page asks: what was in flight, what had come in, what it asks now.
OlderCalls(new)     == [i \in DOMAIN calls |-> Older(new, calls[i])]
AgedMessages(new, in) == [i \in DOMAIN in |-> Aged(new, in[i])]

LEMMA RequestEffect ==
  ASSUME IsRow(calls), NEW in, IsRow(in), NEW new, IsRow(new), Request(in, new)
  PROVE  /\ \E good, bad : Sent(OlderCalls(new), AgedMessages(new, in), new, good, bad)
         /\ IsRow(OlderCalls(new)) /\ IsRow(AgedMessages(new, in))
         /\ UNCHANGED <<phase, drops, wedged>>
<1>. DEFINE cs == OlderCalls(new)
            ms == AgedMessages(new, in)
<1>1. Send(cs, ms, new)
  BY DEF Request, Older, Aged, OlderCalls, AgedMessages
<1>2. IsRow(cs) /\ IsRow(ms)
  BY Mapped DEF OlderCalls, AgedMessages
<1>. HIDE DEF cs, ms
<1>3. \E good, bad : Sent(cs, ms, new, good, bad)
  BY <1>1, SendEffect
<1>. QED BY <1>1, <1>2, <1>3 DEF Send, cs, ms

LEMMA RequestHas ==
  ASSUME IsRow(calls), NEW in, IsRow(in), NEW new, IsRow(new), Request(in, new)
  PROVE  /\ IsRow(calls') /\ IsRow(inbox')
         /\ \A c : Has(calls, c) => Has(calls', Older(new, c))
         /\ \A m : Has(in, m) => Has(inbox', Aged(new, m))
         /\ \A c : Has(calls', c) => Has(new, c) \/ \E d : Has(calls, d) /\ c = Older(new, d)
         /\ \A m : Has(inbox', m) => \/ \E d : Has(in, d) /\ m = Aged(new, d)
                                     \/ \E c : Has(new, c) /\ Refused(m, c)
         /\ \A c : Has(new, c) => Has(calls', c) \/ \E m : Has(inbox', m) /\ Refused(m, c)
         /\ (\A c : Has(new, c) => Accepts(c)) => \A c : Has(new, c) => Has(calls', c)
<1>. DEFINE cs == OlderCalls(new)
            ms == AgedMessages(new, in)
<1>0. PICK good, bad : Sent(cs, ms, new, good, bad)
  BY RequestEffect
<1>a. IsRow(cs) /\ IsRow(ms)
  BY RequestEffect
<1>b. DOMAIN cs = DOMAIN calls /\ \A i \in DOMAIN calls : cs[i] = Older(new, calls[i])
  BY DEF OlderCalls
<1>c. DOMAIN ms = DOMAIN in /\ \A i \in DOMAIN in : ms[i] = Aged(new, in[i])
  BY DEF AgedMessages
<1>. HIDE DEF cs, ms
<1>1. /\ IsRow(good) /\ IsRow(bad)
      /\ calls' = cs \o good /\ inbox' = ms \o bad
      /\ \A i \in DOMAIN good : \E j \in DOMAIN new : good[i] = new[j]
      /\ \A i \in DOMAIN bad : \E j \in DOMAIN new : Refused(bad[i], new[j])
      /\ \A j \in DOMAIN new : \/ \E i \in DOMAIN good : good[i] = new[j]
                               \/ \E i \in DOMAIN bad : Refused(bad[i], new[j])
      /\ (\A j \in DOMAIN new : Accepts(new[j])) => good = new /\ bad = <<>>
  BY <1>0 DEF Sent
<1>2. \A c : Has(calls', c) <=> Has(cs, c) \/ Has(good, c)
  BY <1>1, <1>a, JoinedHas
<1>3. \A m : Has(inbox', m) <=> Has(ms, m) \/ Has(bad, m)
  BY <1>1, <1>a, JoinedHas
<1>4. \A c : Has(cs, c) <=> \E d : Has(calls, d) /\ c = Older(new, d)
  BY <1>b DEF Has
<1>5. \A m : Has(ms, m) <=> \E d : Has(in, d) /\ m = Aged(new, d)
  BY <1>c DEF Has
<1>6. \A c : Has(good, c) => Has(new, c)
  BY <1>1 DEF Has
<1>7. \A m : Has(bad, m) => \E c : Has(new, c) /\ Refused(m, c)
  BY <1>1 DEF Has
<1>8. \A c : Has(new, c) => Has(good, c) \/ \E m : Has(bad, m) /\ Refused(m, c)
  BY <1>1 DEF Has
<1>9. IsRow(calls') /\ IsRow(inbox')
  BY <1>1, <1>a, Joined
<1>10. (\A c : Has(new, c) => Accepts(c)) => \A c : Has(new, c) => Has(good, c)
  BY <1>1 DEF Has
<1>. QED BY <1>2, <1>3, <1>4, <1>5, <1>6, <1>7, <1>8, <1>9, <1>10

\* The calls under way, in flight or answered.
LEMMA PendingHas ==
  \A c : c \in Pending <=> Has(calls, c) \/ \E m : Has(inbox, m) /\ m.kind = "answer" /\ m.call = c
BY DEF Pending, Replies, ToSet, Has

LEMMA PendingHasNext ==
  \A c : c \in Pending' <=> Has(calls', c) \/ \E m : Has(inbox', m) /\ m.kind = "answer" /\ m.call = c
BY DEF Pending, Replies, ToSet, Has

\* Everything that is on its way has the form of calls and messages.
Formed(cs, s) ==
  /\ IsRow(cs) /\ IsRow(s)
  /\ \A c : Has(cs, c) => DOMAIN c = Fields
  /\ \A m : Has(s, m) /\ m.kind = "answer" =>
       DOMAIN m = {"kind", "call", "ok", "value", "why"} /\ DOMAIN m.call = Fields

LEMMA FormedCalls == FilterInv => Formed(calls, inbox)
<1>. SUFFICES ASSUME FilterInv PROVE Formed(calls, inbox)
  OBVIOUS
<1>1. IsRow(calls) /\ IsRow(inbox)
  BY DEF FilterInv, LinkFits, CallsFit, MessagesFit
<1>2. ASSUME NEW c, Has(calls, c) PROVE CallFits(c, activityFilter)
  <2>1. c \in ToSet(calls)
    BY <1>2 DEF Has, ToSet
  <2>. QED BY <2>1 DEF FilterInv, LinkFits, CallsFit
<1>3. ASSUME NEW m, Has(inbox, m) PROVE MessageFits(m, activityFilter)
  <2>1. m \in ToSet(inbox)
    BY <1>3 DEF Has, ToSet
  <2>. QED BY <2>1 DEF FilterInv, LinkFits, MessagesFit
<1>. QED BY <1>1, <1>2, <1>3 DEF Formed, CallFits, MessageFits

LEMMA HeadAndTail ==
  ASSUME NEW s, IsRow(s), s # <<>>
  PROVE  /\ Has(s, Head(s)) /\ IsRow(Tail(s))
         /\ \A m : Has(s, m) <=> m = Head(s) \/ Has(Tail(s), m)
<1>. DEFINE t == Tail(s)
<1>1. /\ 1 \in DOMAIN s /\ Head(s) = s[1]
      /\ \A i \in DOMAIN t : i + 1 \in DOMAIN s /\ t[i] = s[i + 1]
      /\ \A i \in DOMAIN s : i = 1 \/ (i - 1 \in DOMAIN t /\ t[i - 1] = s[i])
  BY TailPlaces
<1>2. IsRow(t)
  BY TailOfRow
<1>. HIDE DEF t
<1>. QED BY <1>1, <1>2 DEF Has, t

LEMMA OlderFacts ==
  ASSUME NEW new, NEW c, DOMAIN c = Fields
  PROVE  LET d == Older(new, c)
         IN  /\ DOMAIN d = Fields
             /\ d.ask = c.ask /\ d.way = c.way /\ d.then = c.then /\ d.card = c.card /\ d.item = c.item
             /\ d.newest = c.newest \/ (c.way = "paint" /\ \E j \in DOMAIN new : new[j].ask = c.ask /\ new[j].way = "paint")
BY DEF Older, Fields

LEMMA AgedFacts ==
  ASSUME NEW new, NEW m, DOMAIN m = {"kind", "call", "ok", "value", "why"}, m.kind = "answer"
  PROVE  LET d == Aged(new, m)
         IN  /\ DOMAIN d = DOMAIN m /\ d.kind = m.kind /\ d.ok = m.ok /\ d.value = m.value /\ d.why = m.why
             /\ d.call = Older(new, m.call)
BY DEF Aged

\* A call that is overtaken does not tell any more, but the one that does.
LEMMA OlderAsks ==
  ASSUME NEW new, \A j \in DOMAIN new : new[j].way = "paint" => new[j].newest,
         NEW k, k.of \in {"phase", "seen", "pause", "badge", "list"}, NEW c, DOMAIN c = Fields
  PROVE  \/ Asks(k, Older(new, c)) = Asks(k, c)
         \/ k.of \in {"badge", "list"} /\ \E j \in DOMAIN new : Asks(k, new[j])
<1>. DEFINE d == Older(new, c)
<1>1. /\ d.ask = c.ask /\ d.way = c.way
      /\ d.newest = c.newest \/ (c.way = "paint" /\ \E j \in DOMAIN new : new[j].ask = c.ask /\ new[j].way = "paint")
  BY OlderFacts
<1>. HIDE DEF d
<1>2. CASE k.of \in {"phase", "seen", "pause"}
  BY <1>1, <1>2 DEF Asks, d
<1>3. CASE d.newest = c.newest
  BY <1>1, <1>3 DEF Asks, d
<1>4. CASE k.of \in {"badge", "list"} /\ c.ask = Lists[k.tab]
             /\ \E j \in DOMAIN new : new[j].ask = c.ask /\ new[j].way = "paint"
  BY <1>4 DEF Asks
<1>5. CASE k.of \in {"badge", "list"} /\ c.ask # Lists[k.tab]
  BY <1>1, <1>5 DEF Asks, d
<1>. QED BY <1>1, <1>2, <1>3, <1>4, <1>5
-----------------------------------------------------------------------------
(* What is fresh stays so.                                                 *)
Things == {"phase", "seen", "pause", "badge", "list"}

LEMMA AgedSays ==
  ASSUME NEW new, NEW k, k.of \in Things, NEW m,
         m.kind = "answer" => /\ DOMAIN m = {"kind", "call", "ok", "value", "why"}
                              /\ Asks(k, Older(new, m.call)) = Asks(k, m.call)
                              /\ Older(new, m.call).ask = m.call.ask
  PROVE  Says(k, Aged(new, m)) = Says(k, m)
<1>1. CASE m.kind # "answer"
  BY <1>1 DEF Aged
<1>2. CASE m.kind = "answer"
  <2>. DEFINE d == Aged(new, m)
  <2>1. /\ d.kind = "answer" /\ d.ok = m.ok /\ d.value = m.value /\ d.why = m.why
        /\ d.call = Older(new, m.call)
    BY <1>2, AgedFacts
  <2>. HIDE DEF d
  <2>2. d.call.ask = m.call.ask /\ Asks(k, d.call) = Asks(k, m.call)
    BY <1>2, <2>1
  <2>3. AlsoTells(k, d) = AlsoTells(k, m)
    BY <2>1, <2>2 DEF AlsoTells
  <2>4. Tells(k, d) = Tells(k, m)
    BY <2>1, <2>2 DEF Tells, Things
  <2>. QED BY <1>2, <2>1, <2>2, <2>3, <2>4 DEF Says, d
<1>. QED BY <1>1, <1>2

LEMMA FreshRequest ==
  ASSUME NEW in, Formed(calls, in), NEW new, IsRow(new), Request(in, new), phase = "ready",
         \A j \in DOMAIN new : new[j].way = "paint" => new[j].newest,
         NEW k, k.of \in Things, NEW told, NEW x, Fresh(k, calls, in, told, x)
  PROVE  Fresh(k, calls', inbox', told, x)
<1>1. \A c : Has(new, c) => Has(calls', c)
  BY RequestHas DEF Accepts, Formed
<1>2. CASE \E j \in DOMAIN new : Asks(k, new[j])
  BY <1>1, <1>2 DEF Fresh, Has
<1>3. CASE ~\E j \in DOMAIN new : Asks(k, new[j])
  <2>1. ASSUME NEW c, DOMAIN c = Fields
        PROVE  Asks(k, Older(new, c)) = Asks(k, c) /\ Older(new, c).ask = c.ask
    <3>1. Older(new, c).ask = c.ask
      BY <2>1, OlderFacts
    <3>2. k.of \in {"phase", "seen", "pause", "badge", "list"}
      BY DEF Things
    <3>. QED BY <1>3, <2>1, <3>1, <3>2, OlderAsks
  <2>2. CASE \E i \in DOMAIN calls : Asks(k, calls[i])
    <3>1. PICK i \in DOMAIN calls : Asks(k, calls[i])
      BY <2>2
    <3>2. Has(calls, calls[i])
      BY DEF Has
    <3>3. Has(calls', Older(new, calls[i]))
      BY <3>2, RequestHas DEF Formed
    <3>4. Asks(k, Older(new, calls[i]))
      BY <2>1, <3>1, <3>2 DEF Formed
    <3>. QED BY <3>3, <3>4 DEF Fresh, Has
  <2>3. CASE Settles(k, in, told, x)
    <3>. DEFINE ms == AgedMessages(new, in)
    <3>1. PICK good, bad : Sent(OlderCalls(new), ms, new, good, bad)
      BY RequestEffect DEF Formed
    <3>2. bad = <<>> /\ inbox' = ms \o bad
      BY <3>1 DEF Sent, Accepts
    <3>3. IsRow(ms) /\ DOMAIN ms = DOMAIN in /\ \A i \in DOMAIN in : ms[i] = Aged(new, in[i])
      BY RequestEffect DEF Formed, AgedMessages
    <3>4. ASSUME NEW i \in DOMAIN in PROVE Says(k, ms[i]) = Says(k, in[i])
      <4>1. Has(in, in[i])
        BY DEF Has
      <4>2. in[i].kind = "answer" =>
              DOMAIN in[i] = {"kind", "call", "ok", "value", "why"} /\ DOMAIN in[i].call = Fields
        BY <4>1 DEF Formed
      <4>3. Says(k, Aged(new, in[i])) = Says(k, in[i])
        BY <2>1, <4>2, AgedSays
      <4>. QED BY <3>3, <4>3
    <3>. HIDE DEF ms
    <3>5. Settles(k, ms, told, x)
      BY <2>3, <3>3, <3>4, SettlesAlike
    <3>6. IsRow(bad) /\ \A i \in DOMAIN bad : Says(k, bad[i]) \subseteq {x}
      BY <3>1, <3>2 DEF Sent
    <3>7. Settles(k, ms \o bad, told, x)
      BY <3>3, <3>5, <3>6, SettlesQuiet
    <3>. QED BY <3>2, <3>7 DEF Fresh
  <2>. QED BY <2>2, <2>3 DEF Fresh
<1>. QED BY <1>2, <1>3

LEMMA FreshHandled ==
  ASSUME NEW k, NEW cs, NEW s, IsRow(s), s # <<>>, NEW x, NEW told, NEW now, Fresh(k, cs, s, told, x),
         now \subseteq (IF Says(k, Head(s)) = {} THEN told ELSE Says(k, Head(s)))
  PROVE  Fresh(k, cs, Tail(s), now, x)
BY SettlesHandled DEF Fresh

LEMMA FreshServed ==
  ASSUME IsRow(calls), IsRow(inbox), NEW i \in DOMAIN calls, NEW ok, NEW value, Served(i, ok, value),
         NEW k, NEW told, NEW x, NEW y, Fresh(k, calls, inbox, told, x),
         \/ Says(k, Answer(calls[i], ok, value)) = {y}
         \/ x = y /\ Says(k, Answer(calls[i], ok, value)) = {}
  PROVE  Fresh(k, calls', inbox', told, y)
<1>. DEFINE m == Answer(calls[i], ok, value)
<1>1. inbox' = Append(inbox, m) /\ calls' = RemoveAt(calls, i)
  BY DEF Served
<1>2. CASE Says(k, m) = {y}
  BY <1>1, <1>2, SettlesTold DEF Fresh
<1>3. CASE x = y /\ Says(k, m) = {}
  <2>1. ~Asks(k, calls[i])
    <3>1. m.kind = "answer" /\ m.call = calls[i]
      BY DEF Answer
    <3>. HIDE DEF m
    <3>. QED BY <1>3, <3>1 DEF Says
  <2>2. CASE \E j \in DOMAIN calls : Asks(k, calls[j])
    <3>1. PICK j \in DOMAIN calls : Asks(k, calls[j])
      BY <2>2
    <3>2. Has(calls, calls[j]) /\ calls[j] # calls[i]
      BY <2>1, <3>1 DEF Has
    <3>3. Has(RemoveAt(calls, i), calls[j])
      BY <3>2, RemovedHas
    <3>. QED BY <1>1, <3>1, <3>3 DEF Fresh, Has
  <2>3. CASE Settles(k, inbox, told, x)
    <3>. HIDE DEF m
    <3>. QED BY <1>1, <1>3, <2>3, SettlesAppended DEF Fresh
  <2>. QED BY <2>2, <2>3 DEF Fresh
<1>. QED BY <1>2, <1>3

LEMMA FreshAppended ==
  ASSUME IsRow(inbox), NEW m, inbox' = Append(inbox, m), UNCHANGED calls,
         NEW k, Says(k, m) = {}, NEW told, NEW x, Fresh(k, calls, inbox, told, x)
  PROVE  Fresh(k, calls', inbox', told, x)
BY SettlesAppended DEF Fresh

\* A review that is resolved is asked for on.
LEMMA FreshResolved ==
  ASSUME DOMAIN calls' = DOMAIN calls, UNCHANGED inbox,
         \A j \in DOMAIN calls : calls'[j] = calls[j] \/ calls[j].ask = "resolve",
         NEW k, k.of \in {"pause", "badge", "list"}, k.of # "pause" => k.tab \in Badges,
         NEW told, NEW x, Fresh(k, calls, inbox, told, x)
  PROVE  Fresh(k, calls', inbox', told, x)
<1>1. \A c : c.ask = "resolve" => ~Asks(k, c)
  <2>1. \A t \in Badges : Lists[t] # "resolve"
    BY DEF Lists, Badges, Tabs
  <2>. QED BY <2>1 DEF Asks
<1>. QED BY <1>1 DEF Fresh
-----------------------------------------------------------------------------
(* The dashboard: what is on its way, by what it will lead to.             *)

\* The app is entered: the stashed tab is read, then the status, then the
\* settings; then the open tab is rendered and the other badges are primed.
Entering == \E c \in Pending : c.ask = "stash" \/ (c.ask = "status" /\ c.way = "act")
Starting == \/ screen \in ToSet(Steps) \/ Entering
            \/ \E c \in Pending : c.ask = "settings" /\ c.then = "boot"
Priming  == \E c \in Pending : c.way = "paint" /\ c.then = "prime"

\* The status has not been asked for, or is not answered.
AwaitsStatus == \/ \E c \in Pending : c.ask = "stash"
                \/ \E i \in DOMAIN calls : calls[i].ask = "status" /\ calls[i].way = "act"

\* A loss is shown, or will be: its end makes the page read again.
LossSeen == header.last # "ready" \/ \E m : Has(inbox, m) /\ ~(Says(PhaseKey, m) \subseteq {"ready"})

\* Messages at which the page asks for what a tab shows.
Announces(t, m) == m.kind = "event" /\ m.name = t
Reports(t, m)   == m.kind = "answer" /\ t \in DOMAIN Actions /\ m.ok /\ m.call.ask = Actions[t]
Coming(t) ==
  \/ t \in owed
  \/ \E m : Has(inbox, m) /\ (Announces(t, m) \/ Reports(t, m))
  \/ t = "review" /\ \E c \in Pending : c.ask = "resolved"

Items == [review |-> Decisions, proposals |-> Proposals, followups |-> Deals]

CallOk(c) ==
  /\ c.ask \in {"apply", "undo", "dismiss", "resolve", "resolved"} => c.card.item \in Decisions
  /\ c.ask = "decide" => c.card.item \in Proposals

MessageOk(m) ==
  /\ m.kind \in {"answer", "event"}
  /\ Says(PhaseKey, m) \subseteq Phases
  /\ m.kind = "answer" => /\ m.call.ask = "queue" => m.ok
                          /\ m.call.ask = "reconnect" => m.value = "connecting"
                          /\ \A t \in Badges : m.ok /\ m.call.ask = Lists[t] => m.value \subseteq Items[t]

CardOk(c) == /\ DOMAIN c = {"item", "tab", "busy", "shown", "n", "rows"}
             /\ c.tab \in Badges /\ c.item \in Items[c.tab]

TypesFit ==
  /\ phase \in Phases /\ drops \in Nat /\ DOMAIN counts = Badges
  /\ DOMAIN header = {"last", "banner", "pause"} /\ header.last \in Phases \cup {None}
  /\ queue \subseteq Decisions /\ proposals \subseteq Proposals /\ deals \subseteq Deals /\ paused \in BOOLEAN
  /\ \A c \in Pending : CallOk(c)
  /\ \A m : Has(inbox, m) => MessageOk(m)
  /\ \A c \in cards : CardOk(c)

\* Until the first interruption.
Calm ==
  drops = 0 => /\ phase = "ready" /\ header.last \in {None, "ready"}
               /\ \A m : Has(inbox, m) => Says(PhaseKey, m) \subseteq {"ready"}
               /\ \A c \in Pending : c.ask # "reconnect"

PhaseKnown ==
  /\ header.banner => header.last \notin {None, "ready"}
  /\ screen = "app" =>
       /\ header.last = None => Entering
       /\ AwaitsStatus \/ Settles(PhaseKey, inbox, {header.last} \ {None}, phase)

PauseKnown ==
  screen = "app" => Entering \/ LossSeen \/ Fresh(PauseKey, calls, inbox, {header.pause}, paused)

BadgeFresh(t) ==
  Coming(t) \/ Fresh(Key("badge", t), calls, inbox, {counts[t]} \ {None}, Cardinality(Truth(t)))

\* What the open tab shows of its list.
Listed(t) == IF pane.of = t THEN {{c.item : c \in Shown}} ELSE {}
ListFresh(t) == Coming(t) \/ Fresh(Key("list", t), calls, inbox, Listed(t), Truth(t))

TabsFollow ==
  drops = 0 =>
    /\ \A t \in {"proposals", "followups"} :
         /\ Starting \/ (Priming /\ activeTab # t) \/ BadgeFresh(t)
         /\ Starting \/ activeTab # t \/ ListFresh(t)
    /\ (open = "dashboard" /\ (Starting \/ activeTab # "review")) \/ BadgeFresh("review")

SettleInv == /\ FilterInv /\ TypesFit /\ Calm /\ PhaseKnown /\ PauseKnown /\ TabsFollow
             /\ open = "app" => screen = "app"

-----------------------------------------------------------------------------
(* One turn of the page: it takes a message or runs by itself, and asks.   *)

NewFits(new) ==
  /\ IsRow(new)
  /\ \A c : Has(new, c) => /\ DOMAIN c = Fields /\ CallOk(c)
                           /\ c.way = "paint" => c.newest
                           /\ drops = 0 => c.ask # "reconnect"

LEMMA NewNone == NewFits(<<>>) /\ \A c : ~Has(<<>>, c)
<1>1. IsRow(<<>>)
  BY DEF IsRow
<1>2. \A c : ~Has(<<>>, c)
  BY DEF Has
<1>. QED BY <1>1, <1>2 DEF NewFits

LEMMA RowOfOne == ASSUME NEW c PROVE IsRow(<<c>>) /\ \A d : Has(<<c>>, d) <=> d = c
<1>1. IsRow(<<>>) /\ Append(<<>>, c) = <<c>>
  BY DEF IsRow
<1>2. IsRow(<<c>>) /\ DOMAIN <<c>> = {1} /\ <<c>>[1] = c
  BY <1>1, AppendedPlaces
<1>. QED BY <1>2 DEF Has

LEMMA NewOne ==
  ASSUME NEW c, DOMAIN c = Fields, CallOk(c), c.way = "paint" => c.newest, c.ask # "reconnect"
  PROVE  NewFits(<<c>>)
BY RowOfOne DEF NewFits

LEMMA NewJoined ==
  ASSUME NEW s, NEW t, NewFits(s), NewFits(t)
  PROVE  NewFits(s \o t) /\ \A c : Has(s \o t, c) <=> Has(s, c) \/ Has(t, c)
<1>1. \A c : Has(s \o t, c) <=> Has(s, c) \/ Has(t, c)
  BY JoinedHas DEF NewFits
<1>2. IsRow(s \o t)
  BY Joined DEF NewFits
<1>. QED BY <1>1, <1>2 DEF NewFits

\* A turn takes the first message, or none.
Turn(in, new) ==
  /\ in = inbox \/ (inbox # <<>> /\ in = Tail(inbox))
  /\ Request(in, new) /\ NewFits(new)

Taken(in, m) == inbox # <<>> /\ in = Tail(inbox) /\ m = Head(inbox)

Alike(c, d) == c.ask = d.ask /\ c.way = d.way /\ c.then = d.then /\ c.card = d.card

LEMMA TurnForms ==
  ASSUME Formed(calls, inbox), NEW in, NEW new, Turn(in, new)
  PROVE  /\ Formed(calls, in) /\ IsRow(new)
         /\ \A m : Has(inbox, m) <=> Has(in, m) \/ Taken(in, m)
         /\ UNCHANGED <<phase, drops, wedged>>
<1>1. CASE in = inbox
  <2>1. \A m : Taken(in, m) => Has(in, m)
    BY <1>1, HeadAndTail DEF Taken, Formed
  <2>. QED BY <1>1, <2>1, RequestEffect DEF Formed, Turn, NewFits
<1>2. CASE inbox # <<>> /\ in = Tail(inbox)
  BY <1>2, HeadAndTail, RequestEffect DEF Formed, Turn, NewFits, Taken
<1>. QED BY <1>1, <1>2 DEF Turn

LEMMA TurnPending ==
  ASSUME Formed(calls, inbox), NEW in, NEW new, Turn(in, new)
  PROVE  /\ \A c : Has(new, c) => c \in Pending'
         /\ \A c \in Pending : \/ \E d \in Pending' : Alike(d, c)
                               \/ \E m : Taken(in, m) /\ m.kind = "answer" /\ m.call = c
         /\ \A d \in Pending' : Has(new, d) \/ \E c \in Pending : Alike(d, c)
<1>1. Formed(calls, in) /\ IsRow(new) /\ \A m : Has(inbox, m) <=> Has(in, m) \/ Taken(in, m)
  BY TurnForms
<1>2. /\ \A c : Has(calls, c) => Has(calls', Older(new, c))
      /\ \A m : Has(in, m) => Has(inbox', Aged(new, m))
      /\ \A c : Has(calls', c) => Has(new, c) \/ \E d : Has(calls, d) /\ c = Older(new, d)
      /\ \A m : Has(inbox', m) => \/ \E d : Has(in, d) /\ m = Aged(new, d)
                                  \/ \E c : Has(new, c) /\ Refused(m, c)
      /\ \A c : Has(new, c) => Has(calls', c) \/ \E m : Has(inbox', m) /\ Refused(m, c)
  BY <1>1, RequestHas DEF Formed, Turn
<1>3. ASSUME NEW c, DOMAIN c = Fields PROVE Alike(Older(new, c), c)
  BY <1>3, OlderFacts DEF Alike
<1>4. ASSUME NEW m, Has(in, m), m.kind = "answer"
      PROVE  Aged(new, m).kind = "answer" /\ Aged(new, m).call = Older(new, m.call) /\ DOMAIN m.call = Fields
  BY <1>1, <1>4, AgedFacts DEF Formed
<1>5. ASSUME NEW m, NEW c, Refused(m, c) PROVE m.kind = "answer" /\ m.call = c
  BY <1>5 DEF Refused, Failed, Answer
<1>6. ASSUME NEW m, Has(in, m), m.kind # "answer" PROVE Aged(new, m).kind # "answer"
  BY <1>6 DEF Aged
<1>7. ASSUME NEW c, Has(new, c) PROVE c \in Pending'
  BY <1>2, <1>5, <1>7, PendingHasNext
<1>8. ASSUME NEW c \in Pending, ~\E m : Taken(in, m) /\ m.kind = "answer" /\ m.call = c
      PROVE  \E d \in Pending' : Alike(d, c)
  <2>1. CASE Has(calls, c)
    <3>1. Has(calls', Older(new, c)) /\ DOMAIN c = Fields
      BY <1>1, <1>2, <2>1 DEF Formed
    <3>. QED BY <1>3, <3>1, PendingHasNext
  <2>2. ASSUME NEW m, Has(inbox, m), m.kind = "answer", m.call = c PROVE \E d \in Pending' : Alike(d, c)
    <3>1. Has(in, m)
      BY <1>1, <1>8, <2>2
    <3>2. Has(inbox', Aged(new, m)) /\ Aged(new, m).kind = "answer" /\ Aged(new, m).call = Older(new, c)
      BY <1>2, <1>4, <2>2, <3>1
    <3>3. Alike(Older(new, c), c)
      BY <1>3, <1>4, <2>2, <3>1
    <3>. QED BY <3>2, <3>3, PendingHasNext
  <2>. QED BY <1>8, <2>1, <2>2, PendingHas
<1>9. ASSUME NEW d \in Pending', ~Has(new, d) PROVE \E c \in Pending : Alike(d, c)
  <2>1. CASE Has(calls', d)
    <3>1. PICK c : Has(calls, c) /\ d = Older(new, c)
      BY <1>2, <1>9, <2>1
    <3>. QED BY <1>1, <1>3, <3>1, PendingHas DEF Formed
  <2>2. ASSUME NEW n, Has(inbox', n), n.kind = "answer", n.call = d PROVE \E c \in Pending : Alike(d, c)
    <3>1. PICK m : Has(in, m) /\ n = Aged(new, m)
      BY <1>2, <1>5, <1>9, <2>2
    <3>2. m.kind = "answer" /\ d = Older(new, m.call) /\ DOMAIN m.call = Fields
      BY <1>4, <1>6, <2>2, <3>1
    <3>3. m.call \in Pending
      BY <1>1, <3>1, <3>2, PendingHas
    <3>. QED BY <1>3, <3>2, <3>3
  <2>. QED BY <2>1, <2>2, PendingHasNext
<1>. QED BY <1>7, <1>8, <1>9

\* The messages that stay, and the new ones.
LEMMA TurnInbox ==
  ASSUME Formed(calls, inbox), NEW in, NEW new, Turn(in, new)
  PROVE  /\ \A m : Has(in, m) => Has(inbox', Aged(new, m))
         /\ \A n : Has(inbox', n) => \/ \E m : Has(in, m) /\ n = Aged(new, m)
                                     \/ \E c : Has(new, c) /\ Refused(n, c)
         /\ phase = "ready" => \A n : Has(inbox', n) => \E m : Has(in, m) /\ n = Aged(new, m)
         /\ \A m : Has(in, m) =>
              LET n == Aged(new, m)
              IN  /\ n.kind = m.kind
                  /\ m.kind = "event" => n = m
                  /\ m.kind = "answer" => n.ok = m.ok /\ n.value = m.value /\ n.why = m.why /\ Alike(n.call, m.call)
                  /\ Says(PhaseKey, n) = Says(PhaseKey, m)
<1>1. Formed(calls, in) /\ IsRow(new)
  BY TurnForms
<1>2. /\ \A m : Has(in, m) => Has(inbox', Aged(new, m))
      /\ \A m : Has(inbox', m) => \/ \E d : Has(in, d) /\ m = Aged(new, d)
                                  \/ \E c : Has(new, c) /\ Refused(m, c)
  BY <1>1, RequestHas DEF Formed, Turn
<1>3. phase = "ready" => \A m, c : ~Refused(m, c)
  BY DEF Refused, Accepts
<1>4. ASSUME NEW m, Has(in, m), m.kind = "answer"
      PROVE  LET n == Aged(new, m)
             IN  n.kind = "answer" /\ n.ok = m.ok /\ n.value = m.value /\ n.why = m.why /\ Alike(n.call, m.call)
  <2>1. DOMAIN m = {"kind", "call", "ok", "value", "why"} /\ DOMAIN m.call = Fields
    BY <1>1, <1>4 DEF Formed
  <2>. QED BY <1>4, <2>1, AgedFacts, OlderFacts DEF Alike
<1>5. ASSUME NEW m, Has(in, m), m.kind # "answer" PROVE Aged(new, m) = m
  BY <1>5 DEF Aged
<1>6. ASSUME NEW m, Has(in, m) PROVE Says(PhaseKey, Aged(new, m)) = Says(PhaseKey, m)
  <2>1. CASE m.kind = "answer"
    <3>1. DOMAIN m = {"kind", "call", "ok", "value", "why"} /\ DOMAIN m.call = Fields
      BY <1>1, <1>6, <2>1 DEF Formed
    <3>2. Older(new, m.call).ask = m.call.ask /\ Older(new, m.call).way = m.call.way
      BY <3>1, OlderFacts
    <3>3. Asks(PhaseKey, Older(new, m.call)) = Asks(PhaseKey, m.call)
      BY <3>2 DEF Asks, PhaseKey, Key
    <3>. QED BY <3>1, <3>2, <3>3, AgedSays DEF Things, PhaseKey, Key
  <2>. QED BY <1>5, <1>6, <2>1
<1>. QED BY <1>2, <1>3, <1>4, <1>5, <1>6
-----------------------------------------------------------------------------
(* What a turn must do for the invariant to be kept.                       *)
PaintOf(c, tab) == c.ask = Lists[tab] /\ c.way = "paint" /\ c.newest
AsksStatus(new) == \E c : Has(new, c) /\ c.ask = "status" /\ c.way = "act"

\* What the page goes on with after the answer m.
GoesOn(m, new) ==
  m.kind = "answer" =>
    /\ m.call.ask = "stash" => AsksStatus(new)
    /\ m.call.ask = "status" /\ m.call.way = "act" =>
         \E c : Has(new, c) /\ c.ask = "settings" /\ c.then = "boot"
    /\ m.call.ask = "settings" /\ m.call.then = "boot" =>
         /\ activeTab' = activeTab
         /\ \E c : Has(new, c) /\ PaintOf(c, activeTab) /\ c.then = "prime"
    /\ m.call.way = "paint" /\ m.call.then = "prime" =>
         \A t \in {"proposals", "followups"} \ {activeTab} :
           \E c : Has(new, c) /\ c.ask = Lists[t] /\ c.way = "count"

\* After a message that there is something new in a tab, the badge is asked
\* for, and the list when the tab is open.
News(t, m) == \/ Announces(t, m) \/ Reports(t, m)
              \/ t = "review" /\ m.kind = "answer" /\ m.call.ask = "resolved"

Rereads(t, m, new) ==
  News(t, m) =>
    \/ screen \in ToSet(Steps)
    \/ /\ \E c : Has(new, c) /\ Asks(Key("badge", t), c)
       /\ activeTab' = t /\ t # "review" => \E c : Has(new, c) /\ PaintOf(c, t)

Follows(in, new) ==
  /\ screen = "app" => screen' = "app"
  /\ screen' = "app" => screen = "app" \/ \E c : Has(new, c) /\ c.ask = "stash"
  /\ screen \in ToSet(Steps) => screen' \in ToSet(Steps) \cup {"app"}
  /\ activeTab' = activeTab \/ AsksStatus(new) \/ \E c : Has(new, c) /\ PaintOf(c, activeTab')
  /\ \A m : Taken(in, m) => GoesOn(m, new) /\ \A t \in Badges : Rereads(t, m, new)

\* What is shown is what the message tells, and else what was shown before.
Shows(k, in, told, now, x) ==
  \/ \E m : Taken(in, m) /\ Says(k, m) # {} /\ now \subseteq Says(k, m)
  \/ (\A m : Taken(in, m) => Says(k, m) = {}) /\ (told \subseteq {x} => now \subseteq {x})

HeaderFollows(in, new) ==
  /\ DOMAIN header' = {"last", "banner", "pause"}
  /\ header'.banner => header'.last \notin {None, "ready"}
  /\ \/ \E m : Taken(in, m) /\ Says(PhaseKey, m) = {header'.last}
     \/ (\A m : Taken(in, m) => Says(PhaseKey, m) = {} \/ screen' # "app") /\ header'.last = header.last
  /\ \/ \E m : Taken(in, m) /\ Says(PauseKey, m) = {header'.pause}
     \/ (\A m : Taken(in, m) => Says(PauseKey, m) = {} \/ screen' # "app") /\ header'.pause = header.pause
  /\ header.last \notin {None, "ready"} /\ header'.last = "ready" => \E c : Has(new, c) /\ c.ask = "settings"

Badge(t) == {counts[t]} \ {None}

TabsShow(in, new) ==
  /\ DOMAIN counts' = Badges
  /\ \A c \in cards' : CardOk(c)
  /\ \A t \in Badges : Shows(Key("badge", t), in, Badge(t), Badge(t)', Cardinality(Truth(t)))
  /\ \A t \in {"proposals", "followups"} :
       \/ Shows(Key("list", t), in, Listed(t), Listed(t)', Truth(t))
       \/ \E c : Has(new, c) /\ PaintOf(c, t)

TurnOk(in, new) ==
  /\ Turn(in, new) /\ Follows(in, new) /\ HeaderFollows(in, new) /\ TabsShow(in, new)
  /\ UNCHANGED <<queue, proposals, deals, paused, owed, open>>

\* What a host refuses says nothing of the phase.
LEMMA RefusedPlain ==
  ASSUME NEW m, NEW c, Refused(m, c)
  PROVE  MessageOk(m) /\ Says(PhaseKey, m) = {} /\ m.kind = "answer" /\ m.call = c
<1>1. m.kind = "answer" /\ m.call = c /\ ~m.ok
  BY DEF Refused, Failed, Answer
<1>2. c.ask \notin {"status", "reconnect", "queue"}
  BY DEF Refused, Accepts, Local
<1>3. Says(PhaseKey, m) = {}
  BY <1>1, <1>2 DEF Says, Asks, AlsoTells, PhaseKey, Key
<1>. QED BY <1>1, <1>2, <1>3 DEF MessageOk

LEMMA TakenThere ==
  ASSUME Formed(calls, inbox), NEW in, NEW new, Turn(in, new), NEW m, Taken(in, m)
  PROVE  Has(inbox, m)
BY TurnForms

LEMMA TurnTypes ==
  ASSUME Formed(calls, inbox), TypesFit, Calm, NEW in, NEW new, TurnOk(in, new)
  PROVE  TypesFit' /\ Calm'
<1>. USE DEF TurnOk
<1>1. UNCHANGED <<phase, drops, wedged>> /\ \A m : Has(inbox, m) <=> Has(in, m) \/ Taken(in, m)
  BY TurnForms
<1>2. ASSUME NEW n, Has(inbox', n)
      PROVE  MessageOk(n) /\ (Says(PhaseKey, n) = {} \/ \E m : Has(in, m) /\ Says(PhaseKey, n) = Says(PhaseKey, m))
  <2>1. ASSUME NEW m, Has(in, m), n = Aged(new, m)
        PROVE  MessageOk(n) /\ Says(PhaseKey, n) = Says(PhaseKey, m)
    <3>1. MessageOk(m)
      BY <1>1, <2>1 DEF TypesFit
    <3>2. /\ n.kind = m.kind /\ Says(PhaseKey, n) = Says(PhaseKey, m)
          /\ m.kind = "answer" => n.ok = m.ok /\ n.value = m.value /\ n.call.ask = m.call.ask
      BY <2>1, TurnInbox DEF Alike
    <3>. QED BY <3>1, <3>2 DEF MessageOk
  <2>. QED BY <1>2, <2>1, TurnInbox, RefusedPlain
<1>3. ASSUME NEW d \in Pending' PROVE CallOk(d) /\ (drops = 0 => d.ask # "reconnect")
  <2>1. CASE Has(new, d)
    BY <2>1 DEF Turn, NewFits
  <2>2. ASSUME NEW c \in Pending, Alike(d, c) PROVE CallOk(d) /\ (drops = 0 => d.ask # "reconnect")
    BY <2>2 DEF TypesFit, Calm, CallOk, Alike
  <2>. QED BY <1>3, <2>1, <2>2, TurnPending
<1>4. /\ header'.last = header.last \/ \E m : Has(inbox, m) /\ Says(PhaseKey, m) = {header'.last}
      /\ DOMAIN header' = {"last", "banner", "pause"}
  BY TakenThere DEF HeaderFollows
<1>5. header'.last \in Phases \cup {None} /\ (drops = 0 => header'.last \in {None, "ready"})
  BY <1>4 DEF TypesFit, Calm, MessageOk
<1>6. TypesFit'
  <2>1. \A c \in Pending' : CallOk(c)
    BY <1>3
  <2>2. \A c \in cards' : CardOk(c)
    BY DEF TabsShow
  <2>3. DOMAIN counts' = Badges
    BY DEF TabsShow
  <2>. QED BY <1>1, <1>2, <1>4, <1>5, <2>1, <2>2, <2>3 DEF TypesFit
<1>7. Calm'
  BY <1>1, <1>2, <1>3, <1>5 DEF Calm
<1>. QED BY <1>6, <1>7

LEMMA StepScreens == ToSet(Steps) = {"step1", "step2", "step3", "step4"}
BY DEF ToSet, Steps

\* What is on its way to an answer stays so, or is gone on with.
LEMMA TurnEnters ==
  ASSUME Formed(calls, inbox), NEW in, NEW new, Turn(in, new), Follows(in, new)
  PROVE  /\ screen' = "app" /\ screen # "app" => Entering'
         /\ Entering => \/ Entering'
                        \/ \E c : Has(new, c) /\ c.ask = "settings" /\ c.then = "boot"
         /\ Entering /\ ~Entering' => \E m : Taken(in, m) /\ Says(PhaseKey, m) # {}
         /\ Starting => \/ Starting'
                        \/ activeTab' = activeTab /\ \E c : Has(new, c) /\ PaintOf(c, activeTab) /\ c.then = "prime"
<1>1. \A c : Has(new, c) => c \in Pending'
  BY TurnPending
<1>2. ASSUME NEW c \in Pending
      PROVE  \/ \E d \in Pending' : d.ask = c.ask /\ d.way = c.way /\ d.then = c.then
             \/ \E m : Taken(in, m) /\ m.kind = "answer" /\ m.call = c
  BY TurnPending DEF Alike
<1>3. \A m : Taken(in, m) => GoesOn(m, new)
  BY DEF Follows
<1>4. AsksStatus(new) => Entering'
  BY <1>1 DEF AsksStatus, Entering
<1>5. ASSUME screen' = "app", screen # "app" PROVE Entering'
  BY <1>1, <1>5 DEF Follows, Entering
<1>6. ASSUME Entering, ~Entering'
      PROVE  \E m : Taken(in, m) /\ m.kind = "answer" /\ m.call.ask = "status" /\ m.call.way = "act"
  <2>1. PICK c \in Pending : c.ask = "stash" \/ (c.ask = "status" /\ c.way = "act")
    BY <1>6 DEF Entering
  <2>2. PICK m : Taken(in, m) /\ m.kind = "answer" /\ m.call = c
    BY <1>2, <1>6, <2>1 DEF Entering
  <2>3. c.ask # "stash"
    BY <1>3, <1>4, <1>6, <2>2 DEF GoesOn
  <2>. QED BY <2>1, <2>2, <2>3
<1>7. ASSUME NEW m, m.kind = "answer", m.call.ask = "status", m.call.way = "act"
      PROVE  Says(PhaseKey, m) # {}
  BY <1>7 DEF Says, Asks, PhaseKey, Key
<1>8. Entering => Entering' \/ \E c : Has(new, c) /\ c.ask = "settings" /\ c.then = "boot"
  BY <1>3, <1>6 DEF GoesOn
<1>9. ASSUME Starting
      PROVE  \/ Starting'
             \/ activeTab' = activeTab /\ \E c : Has(new, c) /\ PaintOf(c, activeTab) /\ c.then = "prime"
  <2>1. CASE screen \in ToSet(Steps)
    <3>1. screen # "app"
      BY <2>1, StepScreens
    <3>2. screen' \in ToSet(Steps) \/ screen' = "app"
      BY <2>1 DEF Follows
    <3>. QED BY <1>5, <3>1, <3>2 DEF Starting
  <2>2. CASE Entering
    BY <1>1, <1>8, <2>2 DEF Starting
  <2>3. ASSUME NEW c \in Pending, c.ask = "settings", c.then = "boot"
        PROVE  \/ Starting'
               \/ activeTab' = activeTab /\ \E d : Has(new, d) /\ PaintOf(d, activeTab) /\ d.then = "prime"
    BY <1>2, <1>3, <2>3 DEF Starting, GoesOn
  <2>. QED BY <1>9, <2>1, <2>2, <2>3 DEF Starting
<1>10. Entering /\ ~Entering' => \E m : Taken(in, m) /\ Says(PhaseKey, m) # {}
  BY <1>6, <1>7
<1>. QED BY <1>5, <1>8, <1>9, <1>10
-----------------------------------------------------------------------------
(* The header through a turn.                                              *)

\* A status that waits for its answer: it will be asked for, or is in flight.
LEMMA TurnAwaits ==
  ASSUME Formed(calls, inbox), NEW in, NEW new, Turn(in, new), Follows(in, new), AwaitsStatus
  PROVE  AwaitsStatus'
<1>1. ASSUME NEW c \in Pending, c.ask = "stash" PROVE AwaitsStatus'
  <2>1. CASE \E d \in Pending' : Alike(d, c)
    BY <1>1, <2>1 DEF AwaitsStatus, Alike
  <2>2. ASSUME NEW m, Taken(in, m), m.kind = "answer", m.call = c PROVE AwaitsStatus'
    <3>1. PICK d : Has(new, d) /\ d.ask = "status" /\ d.way = "act"
      BY <1>1, <2>2 DEF Follows, GoesOn, AsksStatus
    <3>2. Has(calls', d) \/ \E n : Has(inbox', n) /\ Refused(n, d)
      BY <3>1, TurnForms, RequestHas DEF Formed, Turn
    <3>3. \A n : ~Refused(n, d)
      BY <3>1 DEF Refused, Accepts, Local
    <3>. QED BY <3>1, <3>2, <3>3 DEF AwaitsStatus, Has
  <2>. QED BY <2>1, <2>2, TurnPending
<1>2. ASSUME NEW i \in DOMAIN calls, calls[i].ask = "status", calls[i].way = "act" PROVE AwaitsStatus'
  <2>1. Has(calls, calls[i]) /\ DOMAIN calls[i] = Fields
    BY DEF Has, Formed
  <2>2. Has(calls', Older(new, calls[i]))
    BY <2>1, TurnForms, RequestHas DEF Formed, Turn
  <2>3. Older(new, calls[i]).ask = "status" /\ Older(new, calls[i]).way = "act"
    BY <1>2, <2>1, OlderFacts
  <2>. QED BY <2>2, <2>3 DEF AwaitsStatus, Has
<1>. QED BY <1>1, <1>2 DEF AwaitsStatus

\* Settled it stays settled.
LEMMA TurnSettles ==
  ASSUME Formed(calls, inbox), NEW in, NEW new, Turn(in, new),
         NEW told, NEW now, Settles(PhaseKey, inbox, told, phase),
         \/ \E m : Taken(in, m) /\ Says(PhaseKey, m) # {} /\ now \subseteq Says(PhaseKey, m)
         \/ (\A m : Taken(in, m) => Says(PhaseKey, m) = {}) /\ now \subseteq told
  PROVE  Settles(PhaseKey, inbox', now, phase')
<1>1. Formed(calls, in) /\ IsRow(new) /\ UNCHANGED phase
  BY TurnForms
<1>2. Settles(PhaseKey, in, now, phase)
  <2>1. CASE inbox # <<>> /\ in = Tail(inbox)
    <3>1. Taken(in, Head(inbox)) /\ \A m : Taken(in, m) => m = Head(inbox)
      BY <2>1 DEF Taken
    <3>. QED BY <2>1, <3>1, SettlesHandled DEF Formed
  <2>2. CASE in = inbox /\ ~(inbox # <<>> /\ in = Tail(inbox))
    <3>1. \A m : ~Taken(in, m)
      BY <2>2 DEF Taken
    <3>. QED BY <2>2, <3>1 DEF Settles
  <2>. QED BY <2>1, <2>2 DEF Turn
<1>. DEFINE ms == AgedMessages(new, in)
<1>3. PICK good, bad : Sent(OlderCalls(new), ms, new, good, bad)
  BY <1>1, RequestEffect DEF Formed, Turn
<1>4. IsRow(ms) /\ DOMAIN ms = DOMAIN in /\ \A i \in DOMAIN in : ms[i] = Aged(new, in[i])
  BY <1>1, RequestEffect DEF Formed, AgedMessages, Turn
<1>5. ASSUME NEW i \in DOMAIN in PROVE Says(PhaseKey, ms[i]) = Says(PhaseKey, in[i])
  <2>1. Has(in, in[i])
    BY DEF Has
  <2>. QED BY <1>4, <2>1, TurnInbox
<1>. HIDE DEF ms
<1>6. Settles(PhaseKey, ms, now, phase)
  BY <1>2, <1>4, <1>5, SettlesAlike
<1>7. IsRow(bad) /\ inbox' = ms \o bad /\ \A i \in DOMAIN bad : Says(PhaseKey, bad[i]) = {}
  BY <1>3, RefusedPlain DEF Sent
<1>8. Settles(PhaseKey, ms \o bad, now, phase)
  BY <1>4, <1>6, <1>7, SettlesQuiet
<1>. QED BY <1>1, <1>7, <1>8

LEMMA TurnPhase ==
  ASSUME FilterInv, TypesFit, PhaseKnown, NEW in, NEW new, TurnOk(in, new)
  PROVE  PhaseKnown'
<1>. USE DEF TurnOk
<1>0. Formed(calls, inbox) /\ None \notin Phases
  BY FormedCalls, LinkAssumption
<1>1. header'.banner => header'.last \notin {None, "ready"}
  BY DEF HeaderFollows
<1>2. CASE screen # "app" /\ screen' = "app"
  <2>1. PICK c : Has(new, c) /\ c.ask = "stash"
    BY <1>2 DEF Follows
  <2>2. c \in Pending'
    BY <1>0, <2>1, TurnPending
  <2>. QED BY <1>1, <2>1, <2>2 DEF PhaseKnown, Entering, AwaitsStatus
<1>3. CASE screen = "app" /\ screen' = "app"
  <2>1. \/ \E m : Taken(in, m) /\ Says(PhaseKey, m) = {header'.last}
        \/ (\A m : Taken(in, m) => Says(PhaseKey, m) = {}) /\ header'.last = header.last
    BY <1>3 DEF HeaderFollows
  <2>2. ASSUME NEW m, Taken(in, m), Says(PhaseKey, m) = {header'.last} PROVE header'.last # None
    <3>1. MessageOk(m)
      BY <1>0, <2>2, TakenThere DEF TypesFit
    <3>. QED BY <1>0, <2>2, <3>1 DEF MessageOk
  <2>3. header'.last = None => Entering'
    BY <1>0, <1>3, <2>1, <2>2, TurnEnters DEF PhaseKnown
  <2>4. AwaitsStatus' \/ Settles(PhaseKey, inbox', {header'.last} \ {None}, phase')
    <3>1. CASE AwaitsStatus
      BY <1>0, <3>1, TurnAwaits
    <3>2. CASE Settles(PhaseKey, inbox, {header.last} \ {None}, phase)
      <4>1. \/ \E m : /\ Taken(in, m) /\ Says(PhaseKey, m) # {}
                      /\ {header'.last} \ {None} \subseteq Says(PhaseKey, m)
            \/ /\ \A m : Taken(in, m) => Says(PhaseKey, m) = {}
               /\ {header'.last} \ {None} \subseteq {header.last} \ {None}
        BY <2>1
      <4>. QED BY <1>0, <3>2, <4>1, TurnSettles
    <3>. QED BY <1>3, <3>1, <3>2 DEF PhaseKnown
  <2>. QED BY <1>1, <2>3, <2>4 DEF PhaseKnown
<1>4. CASE screen' # "app"
  BY <1>1, <1>4 DEF PhaseKnown
<1>. QED BY <1>2, <1>3, <1>4

\* Without a connection the page sees the loss, or will.
LEMMA LossIsSeenNext ==
  ASSUME IsRow(inbox'), screen' = "app", PhaseKnown', phase' # "ready"
  PROVE  Entering' \/ LossSeen'
<1>1. CASE AwaitsStatus'
  <2>1. \A i \in DOMAIN calls' : calls'[i] \in Pending'
    BY DEF Pending, ToSet
  <2>. QED BY <1>1, <2>1 DEF AwaitsStatus, Entering
<1>2. CASE Settles(PhaseKey, inbox', {header'.last} \ {None}, phase')
  <2>1. \/ \E i \in DOMAIN inbox' : Says(PhaseKey, inbox'[i]) = {phase'}
        \/ {header'.last} \ {None} \subseteq {phase'}
    BY <1>2, LastTold
  <2>2. header'.last = None => Entering'
    BY DEF PhaseKnown
  <2>. QED BY <2>1, <2>2 DEF LossSeen, Has
<1>. QED BY <1>1, <1>2 DEF PhaseKnown

\* What is fresh stays fresh while the host is connected.
LEMMA TurnFresh ==
  ASSUME Formed(calls, inbox), phase = "ready", NEW in, NEW new, Turn(in, new), NEW k, k.of \in Things,
         NEW told, NEW now, NEW x, Shows(k, in, told, now, x), Fresh(k, calls, inbox, told, x)
  PROVE  Fresh(k, calls', inbox', now, x)
<1>1. Formed(calls, in) /\ IsRow(new) /\ Request(in, new) /\ \A j \in DOMAIN new : new[j].way = "paint" => new[j].newest
  BY TurnForms DEF Turn, NewFits, Has
<1>2. Fresh(k, calls, in, now, x)
  <2>1. CASE inbox # <<>> /\ in = Tail(inbox)
    <3>1. Taken(in, Head(inbox)) /\ \A m : Taken(in, m) => m = Head(inbox)
      BY <2>1 DEF Taken
    <3>2. CASE Says(k, Head(inbox)) # {} /\ now \subseteq Says(k, Head(inbox))
      BY <2>1, <3>2, FreshHandled DEF Formed
    <3>3. CASE Says(k, Head(inbox)) = {} /\ (told \subseteq {x} => now \subseteq {x})
      <4>1. Fresh(k, calls, inbox, now, x)
        <5>1. CASE \E i \in DOMAIN inbox : Says(k, inbox[i]) # {}
          BY <5>1 DEF Fresh, Settles
        <5>2. CASE \A i \in DOMAIN inbox : Says(k, inbox[i]) = {}
          BY <3>3, <5>2 DEF Fresh, Settles
        <5>. QED BY <5>1, <5>2
      <4>. QED BY <2>1, <3>3, <4>1, FreshHandled DEF Formed
    <3>. QED BY <3>1, <3>2, <3>3 DEF Shows
  <2>2. CASE in = inbox /\ ~(inbox # <<>> /\ in = Tail(inbox))
    <3>1. \A m : ~Taken(in, m)
      BY <2>2 DEF Taken
    <3>2. told \subseteq {x} => now \subseteq {x}
      BY <3>1 DEF Shows
    <3>. QED BY <2>2, <3>2 DEF Fresh, Settles
  <2>. QED BY <2>1, <2>2 DEF Turn
<1>. QED BY <1>1, <1>2, FreshRequest

LEMMA TurnPause ==
  ASSUME FilterInv, TypesFit, PhaseKnown, PauseKnown, NEW in, NEW new, TurnOk(in, new)
  PROVE  PauseKnown'
<1>. USE DEF TurnOk
<1>0. Formed(calls, inbox) /\ UNCHANGED phase
  BY FormedCalls, TurnForms
<1>a. IsRow(inbox')
  BY <1>0, TurnForms, RequestHas DEF Formed, Turn
<1>. SUFFICES ASSUME screen' = "app" PROVE Entering' \/ LossSeen' \/ Fresh(PauseKey, calls', inbox', {header'.pause}, paused')
  BY DEF PauseKnown
<1>1. CASE screen # "app"
  BY <1>0, <1>1, TurnEnters
<1>2. CASE phase # "ready"
  BY <1>0, <1>a, <1>2, TurnPhase, LossIsSeenNext
<1>3. CASE screen = "app" /\ phase = "ready"
  <2>1. ASSUME NEW c, Has(new, c), c.ask = "settings" PROVE Fresh(PauseKey, calls', inbox', {header'.pause}, paused')
    <3>1. Has(calls', c)
      <4>1. \A d : Accepts(d)
        BY <1>3 DEF Accepts
      <4>. QED BY <1>0, <2>1, <4>1, TurnForms, RequestHas DEF Formed, Turn
    <3>. QED BY <2>1, <3>1 DEF Fresh, Has, Asks, PauseKey, Key
  <2>2. CASE Entering
    BY <1>0, <2>1, <2>2, TurnEnters
  <2>3. CASE header.last # "ready"
    <3>1. CASE header.last = None
      BY <1>3, <2>2, <3>1 DEF PhaseKnown
    <3>2. CASE header'.last # "ready"
      BY <3>2 DEF LossSeen
    <3>. QED BY <2>1, <2>3, <3>1, <3>2 DEF HeaderFollows
  <2>4. ASSUME NEW m, Has(inbox, m), ~(Says(PhaseKey, m) \subseteq {"ready"}) PROVE LossSeen'
    <3>1. CASE Has(in, m)
      BY <1>0, <2>4, <3>1, TurnInbox DEF LossSeen
    <3>2. CASE Taken(in, m)
      <4>1. \A n : Taken(in, n) => n = m
        BY <3>2 DEF Taken
      <4>2. Says(PhaseKey, m) = {header'.last}
        BY <1>3, <2>4, <3>2, <4>1 DEF HeaderFollows
      <4>. QED BY <2>4, <4>2 DEF LossSeen
    <3>. QED BY <1>0, <2>4, <3>1, <3>2, TurnForms
  <2>5. CASE Fresh(PauseKey, calls, inbox, {header.pause}, paused)
    <3>1. Shows(PauseKey, in, {header.pause}, {header'.pause}, paused)
      BY <1>3 DEF HeaderFollows, Shows
    <3>2. PauseKey.of \in Things
      BY DEF PauseKey, Key, Things
    <3>3. Fresh(PauseKey, calls', inbox', {header'.pause}, paused)
      BY <1>0, <1>3, <2>5, <3>1, <3>2, TurnFresh
    <3>. QED BY <3>3
  <2>. QED BY <1>3, <2>2, <2>3, <2>4, <2>5 DEF PauseKnown, LossSeen
<1>. QED BY <1>1, <1>2, <1>3
-----------------------------------------------------------------------------
(* The tabs through a turn, while the connection holds.                    *)

\* What is coming for a tab is still coming, or was taken and is asked for.
LEMMA TurnComing ==
  ASSUME Formed(calls, inbox), phase = "ready", NEW in, NEW new, Turn(in, new), UNCHANGED owed,
         NEW t \in Badges, Coming(t)
  PROVE  Coming(t)' \/ \E m : Taken(in, m) /\ News(t, m)
<1>1. CASE t \in owed
  BY <1>1 DEF Coming
<1>2. ASSUME NEW m, Has(inbox, m), Announces(t, m) \/ Reports(t, m)
      PROVE  Coming(t)' \/ \E n : Taken(in, n) /\ News(t, n)
  <2>1. CASE Has(in, m)
    <3>. DEFINE n == Aged(new, m)
    <3>1. /\ Has(inbox', n) /\ n.kind = m.kind
          /\ m.kind = "event" => n = m
          /\ m.kind = "answer" => n.ok = m.ok /\ n.call.ask = m.call.ask
      BY <2>1, TurnInbox DEF Alike
    <3>. HIDE DEF n
    <3>2. Announces(t, m) => Announces(t, n)
      BY <3>1 DEF Announces
    <3>3. Reports(t, m) => Reports(t, n)
      BY <3>1 DEF Reports
    <3>. QED BY <1>2, <3>1, <3>2, <3>3 DEF Coming
  <2>2. CASE Taken(in, m)
    BY <1>2, <2>2 DEF News
  <2>. QED BY <1>2, <2>1, <2>2, TurnForms
<1>3. ASSUME t = "review", NEW c \in Pending, c.ask = "resolved"
      PROVE  Coming(t)' \/ \E n : Taken(in, n) /\ News(t, n)
  <2>1. (\E d \in Pending' : Alike(d, c)) \/ \E m : Taken(in, m) /\ m.kind = "answer" /\ m.call = c
    BY TurnPending
  <2>. QED BY <1>3, <2>1 DEF Coming, News, Alike
<1>. QED BY <1>1, <1>2, <1>3 DEF Coming

\* Asked for, it will be told.
LEMMA NewIsAsked ==
  ASSUME Formed(calls, inbox), phase = "ready", NEW in, NEW new, Turn(in, new), NEW c, Has(new, c)
  PROVE  Has(calls', c) /\ c \in Pending'
         /\ \A k, told, x : Asks(k, c) => Fresh(k, calls', inbox', told, x)
<1>1. \A d : Accepts(d)
  BY DEF Accepts
<1>2. Has(calls', c)
  BY <1>1, TurnForms, RequestHas DEF Formed, Turn
<1>. QED BY <1>2, PendingHasNext DEF Fresh, Has

LEMMA PaintAsks ==
  ASSUME NEW t \in Badges, NEW c
  PROVE  /\ PaintOf(c, t) => Asks(Key("badge", t), c) /\ Asks(Key("list", t), c)
         /\ c.ask = Lists[t] /\ c.way = "count" => Asks(Key("badge", t), c)
BY DEF PaintOf, Asks, Key

LEMMA TurnBadge ==
  ASSUME Formed(calls, inbox), phase = "ready", NEW in, NEW new, TurnOk(in, new), NEW t \in Badges, BadgeFresh(t)
  PROVE  BadgeFresh(t)' \/ screen \in ToSet(Steps)
<1>. USE DEF TurnOk
<1>1. CASE Coming(t)'
  BY <1>1 DEF BadgeFresh
<1>2. ASSUME NEW m, Taken(in, m), News(t, m) PROVE BadgeFresh(t)' \/ screen \in ToSet(Steps)
  BY <1>2, NewIsAsked DEF Follows, Rereads, BadgeFresh
<1>3. CASE Fresh(Key("badge", t), calls, inbox, Badge(t), Cardinality(Truth(t)))
  <2>1. Shows(Key("badge", t), in, Badge(t), Badge(t)', Cardinality(Truth(t)))
    BY DEF TabsShow
  <2>2. Key("badge", t).of \in Things
    BY DEF Key, Things
  <2>3. Fresh(Key("badge", t), calls', inbox', Badge(t)', Cardinality(Truth(t)))
    BY <1>3, <2>1, <2>2, TurnFresh
  <2>4. Truth(t)' = Truth(t)
    BY DEF Truth
  <2>. QED BY <2>3, <2>4 DEF BadgeFresh, Badge
<1>. QED BY <1>1, <1>2, <1>3, TurnComing DEF BadgeFresh, Badge

LEMMA TurnList ==
  ASSUME Formed(calls, inbox), phase = "ready", NEW in, NEW new, TurnOk(in, new),
         NEW t \in {"proposals", "followups"}, ListFresh(t)
  PROVE  ListFresh(t)' \/ screen \in ToSet(Steps) \/ activeTab' # t
<1>. USE DEF TurnOk
<1>0. t \in Badges /\ t # "review"
  BY DEF Badges, Tabs
<1>1. CASE Coming(t)'
  BY <1>1 DEF ListFresh
<1>2. ASSUME NEW m, Taken(in, m), News(t, m), screen \notin ToSet(Steps), activeTab' = t PROVE ListFresh(t)'
  <2>1. PICK c : Has(new, c) /\ PaintOf(c, t)
    BY <1>0, <1>2 DEF Follows, Rereads
  <2>. QED BY <1>0, <2>1, NewIsAsked, PaintAsks DEF ListFresh
<1>3. ASSUME NEW c, Has(new, c), PaintOf(c, t) PROVE ListFresh(t)'
  BY <1>0, <1>3, NewIsAsked, PaintAsks DEF ListFresh
<1>4. CASE /\ Fresh(Key("list", t), calls, inbox, Listed(t), Truth(t))
           /\ Shows(Key("list", t), in, Listed(t), Listed(t)', Truth(t))
  <2>1. Key("list", t).of \in Things
    BY DEF Key, Things
  <2>2. Fresh(Key("list", t), calls', inbox', Listed(t)', Truth(t))
    BY <1>4, <2>1, TurnFresh
  <2>3. Truth(t)' = Truth(t)
    BY DEF Truth
  <2>. QED BY <2>2, <2>3 DEF ListFresh
<1>. QED BY <1>0, <1>1, <1>2, <1>3, <1>4, TurnComing DEF ListFresh, TabsShow

\* A tab that is opened is painted.
LEMMA TurnOpens ==
  ASSUME Formed(calls, inbox), phase = "ready", NEW in, NEW new, TurnOk(in, new),
         NEW t \in Badges, activeTab' = t
  PROVE  activeTab = t \/ Starting' \/ (BadgeFresh(t)' /\ (t # "review" => ListFresh(t)'))
<1>. USE DEF TurnOk
<1>1. AsksStatus(new) => Starting'
  BY NewIsAsked DEF AsksStatus, Starting, Entering
<1>2. ASSUME NEW c, Has(new, c), PaintOf(c, t) PROVE BadgeFresh(t)' /\ ListFresh(t)'
  BY <1>2, NewIsAsked, PaintAsks DEF BadgeFresh, ListFresh
<1>. QED BY <1>1, <1>2 DEF Follows

\* The end of the start paints the open tab.
LEMMA TurnStarts ==
  ASSUME Formed(calls, inbox), phase = "ready", NEW in, NEW new, TurnOk(in, new), Starting, ~Starting'
  PROVE  /\ activeTab' = activeTab /\ Priming'
         /\ \A t \in Badges : activeTab = t => BadgeFresh(t)' /\ ListFresh(t)'
<1>. USE DEF TurnOk
<1>1. activeTab' = activeTab
  BY TurnEnters
<1>2. PICK c : Has(new, c) /\ PaintOf(c, activeTab) /\ c.then = "prime"
  BY TurnEnters
<1>3. Priming'
  BY <1>2, NewIsAsked DEF Priming, PaintOf
<1>4. \A t \in Badges : activeTab = t => BadgeFresh(t)' /\ ListFresh(t)'
  BY <1>2, NewIsAsked, PaintAsks DEF BadgeFresh, ListFresh
<1>. QED BY <1>1, <1>3, <1>4

LEMMA TurnPrimes ==
  ASSUME Formed(calls, inbox), phase = "ready", NEW in, NEW new, TurnOk(in, new),
         Priming, NEW t \in {"proposals", "followups"}, activeTab # t
  PROVE  Priming' \/ BadgeFresh(t)'
<1>. USE DEF TurnOk
<1>0. t \in Badges
  BY DEF Badges, Tabs
<1>1. PICK c \in Pending : c.way = "paint" /\ c.then = "prime"
  BY DEF Priming
<1>2. CASE \E d \in Pending' : Alike(d, c)
  BY <1>1, <1>2 DEF Priming, Alike
<1>3. ASSUME NEW m, Taken(in, m), m.kind = "answer", m.call = c PROVE BadgeFresh(t)'
  <2>1. PICK d : Has(new, d) /\ d.ask = Lists[t] /\ d.way = "count"
    BY <1>1, <1>3 DEF Follows, GoesOn
  <2>. QED BY <1>0, <2>1, NewIsAsked, PaintAsks DEF BadgeFresh
<1>. QED BY <1>2, <1>3, TurnPending

LEMMA TurnTabs ==
  ASSUME FilterInv, Calm, TabsFollow, open # "dashboard" => screen = "app", NEW in, NEW new, TurnOk(in, new)
  PROVE  TabsFollow'
<1>0. Formed(calls, inbox) /\ UNCHANGED <<phase, drops, open>>
  BY FormedCalls, TurnForms DEF TurnOk
<1>. SUFFICES ASSUME drops = 0
              PROVE  /\ \A t \in {"proposals", "followups"} :
                          /\ Starting' \/ (Priming' /\ activeTab' # t) \/ BadgeFresh(t)'
                          /\ Starting' \/ activeTab' # t \/ ListFresh(t)'
                     /\ (open = "dashboard" /\ (Starting' \/ activeTab' # "review")) \/ BadgeFresh("review")'
  BY <1>0 DEF TabsFollow
<1>a. phase = "ready"
  BY DEF Calm
<1>b. screen \in ToSet(Steps) => Starting
  BY DEF Starting
<1>c. {"proposals", "followups"} \subseteq Badges /\ "review" \in Badges
  BY DEF Badges, Tabs
<1>1. ASSUME NEW t \in {"proposals", "followups"}
      PROVE  Starting' \/ (Priming' /\ activeTab' # t) \/ BadgeFresh(t)'
  <2>1. CASE Starting
    BY <1>0, <1>a, <1>c, <2>1, TurnStarts
  <2>2. CASE ~Starting /\ activeTab # t /\ activeTab' = t
    BY <1>0, <1>a, <1>c, <2>2, TurnOpens
  <2>3. CASE ~Starting /\ Priming /\ activeTab # t /\ activeTab' # t
    BY <1>0, <1>a, <2>3, TurnPrimes
  <2>4. CASE ~Starting /\ BadgeFresh(t)
    BY <1>0, <1>a, <1>b, <1>c, <2>4, TurnBadge
  <2>. QED BY <2>1, <2>2, <2>3, <2>4 DEF TabsFollow
<1>2. ASSUME NEW t \in {"proposals", "followups"}
      PROVE  Starting' \/ activeTab' # t \/ ListFresh(t)'
  <2>1. CASE Starting
    BY <1>0, <1>a, <1>c, <2>1, TurnStarts
  <2>2. CASE ~Starting /\ activeTab # t /\ activeTab' = t
    BY <1>0, <1>a, <1>c, <2>2, TurnOpens
  <2>3. CASE ~Starting /\ activeTab = t /\ activeTab' = t
    BY <1>0, <1>a, <1>b, <2>3, TurnList DEF TabsFollow
  <2>. QED BY <2>1, <2>2, <2>3
<1>3. (open = "dashboard" /\ (Starting' \/ activeTab' # "review")) \/ BadgeFresh("review")'
  <2>1. CASE open = "dashboard" /\ Starting
    BY <1>0, <1>a, <1>c, <2>1, TurnStarts
  <2>2. CASE open = "dashboard" /\ ~Starting /\ activeTab # "review" /\ activeTab' = "review"
    BY <1>0, <1>a, <1>c, <2>2, TurnOpens
  <2>3. CASE BadgeFresh("review") /\ (open = "dashboard" => ~Starting)
    <3>1. "app" \notin ToSet(Steps)
      BY StepScreens
    <3>. QED BY <1>b, <3>1, <1>0, <1>a, <1>c, <2>3, TurnBadge
  <2>. QED BY <2>1, <2>2, <2>3 DEF TabsFollow
<1>. QED BY <1>1, <1>2, <1>3
-----------------------------------------------------------------------------
(* Cards and calls as the handlers make them.                              *)
SameCard(c, d) == DOMAIN c = DOMAIN d /\ c.item = d.item /\ c.tab = d.tab /\ c.shown = d.shown
ShownItems == {c.item : c \in Shown}

\* Cards that are only worked on stay, with what they show.
LEMMA CardsWorkedOn ==
  ASSUME TypesFit, \A c \in cards' : \E d \in cards : SameCard(c, d),
         \A d \in cards : \E c \in cards' : SameCard(c, d)
  PROVE  (\A c \in cards' : CardOk(c)) /\ ShownItems' = ShownItems
<1>1. \A c \in cards' : CardOk(c)
  BY DEF TypesFit, CardOk, SameCard
<1>2. ShownItems' \subseteq ShownItems /\ ShownItems \subseteq ShownItems'
  BY DEF ShownItems, Shown, SameCard
<1>. QED BY <1>1, <1>2

LEMMA EditedCards ==
  ASSUME TypesFit, NEW id, NEW button, NEW row, NEW c0,
         Enable(id, button) \/ RemoveRow(id, row) \/ Disable(c0, button)
  PROVE  (\A c \in cards' : CardOk(c)) /\ ShownItems' = ShownItems
<1>1. ASSUME Enable(id, button)
      PROVE  cards' = {IF Id(c) = id THEN [c EXCEPT !.busy = @ \ {button}] ELSE c : c \in cards}
  BY <1>1 DEF Enable, Edit
<1>2. ASSUME RemoveRow(id, row)
      PROVE  cards' = {IF Id(c) = id THEN [c EXCEPT !.rows = @ \ {row}, !.busy = @ \ {row}] ELSE c : c \in cards}
  BY <1>2 DEF RemoveRow, Edit
<1>3. ASSUME Disable(c0, button)
      PROVE  cards' = {IF Id(c) = Id(c0) THEN [c EXCEPT !.busy = @ \cup {button}] ELSE c : c \in cards}
  BY <1>3 DEF Disable, Edit
<1>4. ASSUME NEW c \in cards
      PROVE  /\ SameCard([c EXCEPT !.busy = @ \ {button}], c)
             /\ SameCard([c EXCEPT !.rows = @ \ {row}, !.busy = @ \ {row}], c)
             /\ SameCard([c EXCEPT !.busy = @ \cup {button}], c)
             /\ SameCard(c, c)
  BY DEF SameCard, TypesFit, CardOk
<1>5. CASE Enable(id, button)
  BY <1>1, <1>4, <1>5, CardsWorkedOn
<1>6. CASE RemoveRow(id, row)
  BY <1>2, <1>4, <1>6, CardsWorkedOn
<1>7. CASE Disable(c0, button)
  BY <1>3, <1>4, <1>7, CardsWorkedOn
<1>. QED BY <1>5, <1>6, <1>7

\* A card that is taken off is not shown any more.
LEMMA CardTakenOff ==
  ASSUME TypesFit, NEW id, TakeOff(id)
  PROVE  /\ \A c \in cards' : CardOk(c)
         /\ ShownItems' \subseteq ShownItems /\ ShownItems \subseteq ShownItems' \cup {id.item}
<1>1. cards' = {IF Id(c) = id THEN [c EXCEPT !.shown = FALSE] ELSE c : c \in cards}
  BY DEF TakeOff, Edit
<1>2. ASSUME NEW c \in cards
      PROVE  LET d == [c EXCEPT !.shown = FALSE] IN CardOk(d) /\ ~d.shown /\ CardOk(c)
  BY DEF TypesFit, CardOk
<1>3. \A c \in cards' : CardOk(c)
  BY <1>1, <1>2
<1>4. ShownItems' \subseteq ShownItems
  BY <1>1, <1>2 DEF ShownItems, Shown
<1>5. ASSUME NEW c \in cards, c.shown, Id(c) # id PROVE c \in cards'
  BY <1>1, <1>5
<1>6. \A c : Id(c) = id => c.item = id.item
  BY DEF Id
<1>7. ShownItems \subseteq ShownItems' \cup {id.item}
  BY <1>5, <1>6 DEF ShownItems, Shown
<1>. QED BY <1>3, <1>4, <1>7

LEMMA DetachedCards ==
  ASSUME TypesFit
  PROVE  \A c \in Detached : CardOk(c) /\ ~c.shown
<1>1. ASSUME NEW c \in cards PROVE CardOk([c EXCEPT !.shown = FALSE]) /\ ~[c EXCEPT !.shown = FALSE].shown
  BY DEF TypesFit, CardOk
<1>. QED BY <1>1 DEF Detached

\* A tab that is rendered shows no list before its answer is there.
LEMMA NothingListed ==
  ASSUME TypesFit, cards' = Detached, pane'.of \notin {"proposals", "followups"}
  PROVE  (\A c \in cards' : CardOk(c)) /\ \A t \in {"proposals", "followups"} : Listed(t)' = {}
BY DetachedCards DEF Listed

LEMMA RenderedCards ==
  ASSUME TypesFit, NEW tab, RenderTab(tab)
  PROVE  (\A c \in cards' : CardOk(c)) /\ \A t \in {"proposals", "followups"} : Listed(t)' = {}
<1>1. cards' = Detached /\ pane'.of \in {"activity", "loading"}
  BY DEF RenderTab
<1>. QED BY <1>1, NothingListed

\* A list that is painted has its items.
LEMMA PaintedCards ==
  ASSUME TypesFit, NEW tab \in Badges, NEW items, items \subseteq Items[tab], Show(tab, items)
  PROVE  /\ \A c \in cards' : CardOk(c)
         /\ \A t \in {"proposals", "followups"} : Listed(t)' = IF t = tab THEN {items} ELSE {}
<1>1. pane'.of = tab /\ cards' = Detached \cup {Card(tab, k) : k \in items}
  BY DEF Show
<1>2. ASSUME NEW k \in items
      PROVE  CardOk(Card(tab, k)) /\ Card(tab, k).shown /\ Card(tab, k).item = k
  BY DEF Card, CardOk
<1>3. \A c \in cards' : CardOk(c)
  BY <1>1, <1>2, DetachedCards
<1>4. ShownItems' = items
  BY <1>1, <1>2, DetachedCards DEF ShownItems, Shown
<1>5. \A t : Listed(t)' = IF pane'.of = t THEN {ShownItems'} ELSE {}
  BY DEF Listed, ShownItems
<1>. QED BY <1>1, <1>3, <1>4, <1>5

\* The calls that handlers make.
LEMMA PlainCall ==
  ASSUME NEW ask \in {"stash", "status", "settings", "pause"}
  PROVE  NewFits(<<Call(ask)>>) /\ Has(<<Call(ask)>>, Call(ask)) /\ Call(ask).ask = ask /\ Call(ask).way = "act"
<1>1. DOMAIN Call(ask) = Fields /\ Call(ask).ask = ask /\ Call(ask).way = "act"
  BY CallFacts
<1>2. CallOk(Call(ask))
  BY <1>1 DEF CallOk
<1>. QED BY <1>1, <1>2, NewOne, RowOfOne

LEMMA CountCall ==
  ASSUME NEW tab \in Badges
  PROVE  /\ NewFits(<<Count(tab)>>)
         /\ Has(<<Count(tab)>>, Count(tab)) /\ Count(tab).ask = Lists[tab] /\ Count(tab).way = "count"
<1>1. DOMAIN Count(tab) = Fields /\ Count(tab).ask = Lists[tab] /\ Count(tab).way = "count"
  BY DEF Count, Call, Fields
<1>2. Lists[tab] \in {"queue", "proposals", "followups"}
  BY DEF Lists, Badges, Tabs
<1>3. CallOk(Count(tab))
  BY <1>1, <1>2 DEF CallOk
<1>. QED BY <1>1, <1>2, <1>3, NewOne, RowOfOne

LEMMA PaintCall ==
  ASSUME NEW tab \in Tabs, NEW then
  PROVE  /\ NewFits(<<Paint(tab, then)>>)
         /\ Has(<<Paint(tab, then)>>, Paint(tab, then)) /\ PaintOf(Paint(tab, then), tab)
         /\ Paint(tab, then).then = then
<1>1. /\ DOMAIN Paint(tab, then) = Fields /\ Paint(tab, then).ask = Lists[tab] /\ Paint(tab, then).way = "paint"
      /\ Paint(tab, then).newest /\ Paint(tab, then).then = then
  BY DEF Paint, Call, Fields
<1>2. Lists[tab] \in {"queue", "proposals", "followups", "activity"}
  BY DEF Lists, Tabs
<1>3. CallOk(Paint(tab, then))
  BY <1>1, <1>2 DEF CallOk
<1>. QED BY <1>1, <1>2, <1>3, NewOne, RowOfOne DEF PaintOf

LEMMA PrimeCalls ==
  NewFits(Prime) /\ (Asked.then = "prime" =>
    \A t \in {"proposals", "followups"} \ {activeTab} : \E c : Has(Prime, c) /\ c.ask = Lists[t] /\ c.way = "count")
<1>. DEFINE p == IF activeTab # "proposals" THEN <<Count("proposals")>> ELSE <<>>
            f == IF activeTab # "followups" THEN <<Count("followups")>> ELSE <<>>
<1>1. "proposals" \in Badges /\ "followups" \in Badges
  BY DEF Badges, Tabs
<1>2. /\ NewFits(p)
      /\ activeTab # "proposals" => \E c : Has(p, c) /\ c.ask = Lists["proposals"] /\ c.way = "count"
  BY <1>1, NewNone, CountCall
<1>3. /\ NewFits(f)
      /\ activeTab # "followups" => \E c : Has(f, c) /\ c.ask = Lists["followups"] /\ c.way = "count"
  BY <1>1, NewNone, CountCall
<1>. HIDE DEF p, f
<1>4. NewFits(p \o f) /\ \A c : Has(p \o f, c) <=> Has(p, c) \/ Has(f, c)
  BY <1>2, <1>3, NewJoined
<1>5. Prime = IF Asked.then # "prime" THEN <<>> ELSE p \o f
  BY DEF Prime, p, f
<1>. QED BY <1>2, <1>3, <1>4, <1>5, NewNone
-----------------------------------------------------------------------------
(* The page runs by itself: the user, the timer, the walkthrough.          *)
LEMMA NothingTaken ==
  ASSUME IsRow(inbox), NEW m
  PROVE  ~Taken(inbox, m)
<1>1. CASE inbox # <<>>
  <2>1. Len(inbox) \in Nat \ {0} /\ DOMAIN inbox = 1 .. Len(inbox) /\ DOMAIN Tail(inbox) = 1 .. (Len(inbox) - 1)
    BY <1>1, TailPlaces
  <2>2. Len(inbox) \in DOMAIN inbox /\ Len(inbox) \notin DOMAIN Tail(inbox)
    BY <2>1
  <2>. QED BY <2>2 DEF Taken
<1>. QED BY <1>1 DEF Taken

ListsLeft == \A t \in {"proposals", "followups"} : Listed(t)' \subseteq Listed(t)
WorldStays == UNCHANGED <<queue, proposals, deals, paused, owed, open>>

LEMMA ListsStay ==
  ASSUME UNCHANGED pane, ShownItems' = ShownItems
  PROVE  ListsLeft
BY DEF ListsLeft, Listed, ShownItems

LEMMA PageStays ==
  ASSUME TypesFit, UNCHANGED page
  PROVE  /\ UNCHANGED <<screen, activeTab, counts, header>>
         /\ ListsLeft /\ \A c \in cards' : CardOk(c)
BY DEF page, ListsLeft, Listed, Shown, TypesFit

LEMMA RunsAlone ==
  ASSUME FilterInv, TypesFit, PhaseKnown, NEW new, NewFits(new), Request(inbox, new), WorldStays,
         UNCHANGED counts, ListsLeft, \A c \in cards' : CardOk(c),
         header' = header \/ header' = [header EXCEPT !.banner = FALSE],
         \/ screen' = screen
         \/ screen \in ToSet(Steps) /\ screen' \in ToSet(Steps)
         \/ screen' = "app" /\ \E c : Has(new, c) /\ c.ask = "stash",
         activeTab' = activeTab \/ \E c : Has(new, c) /\ PaintOf(c, activeTab')
  PROVE  TurnOk(inbox, new)
<1>0. \A m : ~Taken(inbox, m)
  BY FormedCalls, NothingTaken DEF Formed
<1>1. Turn(inbox, new)
  BY DEF Turn
<1>2. Follows(inbox, new)
  BY <1>0, StepScreens DEF Follows
<1>3. HeaderFollows(inbox, new)
  BY <1>0 DEF HeaderFollows, TypesFit, PhaseKnown
<1>4. DOMAIN counts' = Badges
  BY DEF TypesFit
<1>5. TabsShow(inbox, new)
  BY <1>0, <1>4 DEF TabsShow, Shows, ListsLeft, Badge
<1>. QED BY <1>1, <1>2, <1>3, <1>5 DEF TurnOk, WorldStays

LEMMA EnteringAlone ==
  ASSUME FilterInv, TypesFit, PhaseKnown, UNCHANGED open, EnterApp
  PROVE  \E in, new : TurnOk(in, new)
<1>1. NewFits(<<Call("stash")>>) /\ Has(<<Call("stash")>>, Call("stash")) /\ Call("stash").ask = "stash"
  BY PlainCall
<1>2. ListsLeft /\ \A c \in cards' : CardOk(c)
  BY DEF EnterApp, TypesFit, ListsLeft, Listed, Shown
<1>3. TurnOk(inbox, <<Call("stash")>>)
  BY <1>1, <1>2, RunsAlone DEF EnterApp, WorldStays, world
<1>. QED BY <1>3

LEMMA WalkingAlone ==
  ASSUME FilterInv, TypesFit, PhaseKnown, UNCHANGED open, OnboardStep
  PROVE  \E in, new : TurnOk(in, new)
<1>. DEFINE c == [Call("status") EXCEPT !.way = "count"]
<1>1. PICK i, j \in 1 .. 4 :
        /\ screen = Steps[i] /\ screen' = Steps[j]
        /\ Request(inbox, IF j = 2 THEN <<c>> ELSE <<>>)
        /\ UNCHANGED <<activeTab, activityFilter, pane, cards, counts, timer, header, world, arrivals>>
  BY DEF OnboardStep
<1>2. NewFits(<<c>>)
  <2>1. DOMAIN c = Fields /\ c.ask = "status" /\ c.way = "count"
    BY DEF Call, Fields
  <2>. HIDE DEF c
  <2>. QED BY <2>1, NewOne DEF CallOk
<1>. DEFINE new == IF j = 2 THEN <<c>> ELSE <<>>
<1>3. NewFits(new) /\ Request(inbox, new)
  BY <1>1, <1>2, NewNone
<1>4. screen \in ToSet(Steps) /\ screen' \in ToSet(Steps)
  BY <1>1 DEF ToSet, Steps
<1>. HIDE DEF new
<1>5. ListsLeft /\ \A d \in cards' : CardOk(d)
  BY <1>1 DEF TypesFit, ListsLeft, Listed, Shown
<1>6. TurnOk(inbox, new)
  BY <1>1, <1>3, <1>4, <1>5, RunsAlone DEF WorldStays, world
<1>. QED BY <1>6

LEMMA TimerAlone ==
  ASSUME FilterInv, TypesFit, PhaseKnown, UNCHANGED open, TimerFires
  PROVE  \E in, new : TurnOk(in, new)
<1>. DEFINE new == IF activeTab = "review" THEN <<Paint("review", "stop")>> ELSE <<>>
<1>1. NewFits(new)
  BY NewNone, PaintCall DEF Tabs
<1>2. Request(inbox, new)
  BY DEF TimerFires
<1>3. ListsLeft /\ \A c \in cards' : CardOk(c)
  BY DEF TimerFires, TypesFit, ListsLeft, Listed, Shown
<1>. HIDE DEF new
<1>4. TurnOk(inbox, new)
  BY <1>1, <1>2, <1>3, RunsAlone DEF TimerFires, WorldStays, world
<1>. QED BY <1>4

\* A call about a card that is shown.
LEMMA CardCall ==
  ASSUME TypesFit, NEW c \in cards, NEW new, DOMAIN new = Fields, new.card = Id(c), new.way # "paint",
         \/ c.tab = "review" /\ new.ask \in {"apply", "undo", "resolve", "dismiss"}
         \/ c.tab = "proposals" /\ new.ask = "decide"
         \/ c.tab = "followups" /\ new.ask = "act"
  PROVE  NewFits(<<new>>)
<1>1. c.item \in Items[c.tab] /\ new.card.item = c.item
  BY DEF TypesFit, CardOk, Id
<1>2. CallOk(new)
  BY <1>1 DEF CallOk, Items
<1>. QED BY <1>2, NewOne

LEMMA CardCallFacts ==
  ASSUME NEW c, NEW ask
  PROVE  LET n == ReviewCall(c, ask)
         IN  DOMAIN n = Fields /\ n.ask = ask /\ n.way = "act" /\ n.card = Id(c)
BY DEF ReviewCall, Call, Fields

LEMMA PressesAlone ==
  ASSUME FilterInv, TypesFit, PhaseKnown, UNCHANGED open,
         NEW c, NEW button, NEW new, NewFits(<<new>>), Press(c, button, new)
  PROVE  \E in, n : TurnOk(in, n)
<1>1. Request(inbox, <<new>>) /\ UNCHANGED <<world, pane, screen, activeTab, counts, header>>
  BY DEF Press, Click
<1>2. (\A d \in cards' : CardOk(d)) /\ ShownItems' = ShownItems
  BY EditedCards DEF Press
<1>3. TurnOk(inbox, <<new>>)
  BY <1>1, <1>2, ListsStay, RunsAlone DEF WorldStays, world
<1>. QED BY <1>3

LEMMA ClicksTurn ==
  ASSUME FilterInv, TypesFit, Calm, PhaseKnown, UNCHANGED open, UserActs
  PROVE  \E in, new : TurnOk(in, new)
<1>. USE DEF Click, WorldStays, world
<1>1. ASSUME NEW new, NewFits(new), Request(inbox, new), UNCHANGED <<page, world>>
      PROVE  TurnOk(inbox, new)
  BY <1>1, PageStays, RunsAlone
<1>2. CASE Refresh
  BY <1>1, <1>2, PlainCall DEF Refresh
<1>3. CASE Reconnect
  <2>1. DOMAIN Call("reconnect") = Fields /\ Call("reconnect").ask = "reconnect" /\ Call("reconnect").way = "act"
    BY CallFacts
  <2>2. drops # 0
    BY <1>3 DEF Reconnect, Calm, PhaseKnown
  <2>3. NewFits(<<Call("reconnect")>>)
    BY <2>1, <2>2, RowOfOne DEF NewFits, CallOk
  <2>. QED BY <1>1, <1>3, <2>3 DEF Reconnect
<1>4. CASE DismissBanner
  <2>1. ListsLeft /\ \A c \in cards' : CardOk(c)
    BY <1>4 DEF DismissBanner, TypesFit, ListsLeft, Listed, Shown
  <2>2. TurnOk(inbox, <<>>)
    BY <1>4, <2>1, NewNone, RunsAlone DEF DismissBanner
  <2>. QED BY <2>2
<1>5. CASE TogglePause
  <2>. DEFINE new == [Call("pause") EXCEPT !.item = IF header.pause THEN "resume" ELSE "pause"]
  <2>1. DOMAIN new = Fields /\ new.ask = "pause" /\ new.way = "act"
    BY DEF Call, Fields
  <2>2. Request(inbox, <<new>>) /\ UNCHANGED <<page, world>>
    BY <1>5 DEF TogglePause
  <2>. HIDE DEF new
  <2>3. NewFits(<<new>>)
    BY <2>1, NewOne DEF CallOk
  <2>. QED BY <1>1, <2>2, <2>3
<1>6. ASSUME NEW tab \in Tabs, SelectTab(tab) PROVE \E in, new : TurnOk(in, new)
  <2>1. NewFits(<<Paint(tab, "stop")>>) /\ Has(<<Paint(tab, "stop")>>, Paint(tab, "stop")) /\ PaintOf(Paint(tab, "stop"), tab)
    BY PaintCall
  <2>2. ListsLeft /\ \A c \in cards' : CardOk(c)
    BY <1>6, RenderedCards DEF SelectTab, ListsLeft
  <2>3. TurnOk(inbox, <<Paint(tab, "stop")>>)
    BY <1>6, <2>1, <2>2, RunsAlone DEF SelectTab
  <2>. QED BY <2>3
<1>7. ASSUME NEW f \in Filters, SelectFilter(f) PROVE \E in, new : TurnOk(in, new)
  <2>. DEFINE c == [Paint("activity", "stop") EXCEPT !.item = f]
  <2>1. DOMAIN c = Fields /\ c.ask = "activity" /\ c.way = "paint" /\ c.newest
    BY DEF Paint, Call, Fields, Lists
  <2>2. Request(inbox, <<c>>)
    BY <1>7 DEF SelectFilter
  <2>3. ListsLeft /\ \A d \in cards' : CardOk(d)
    BY <1>7, NothingListed DEF SelectFilter, ListsLeft
  <2>. HIDE DEF c
  <2>4. NewFits(<<c>>)
    BY <2>1, NewOne DEF CallOk
  <2>5. TurnOk(inbox, <<c>>)
    BY <1>7, <2>2, <2>3, <2>4, RunsAlone DEF SelectFilter
  <2>. QED BY <2>5
<1>8. CASE Approve
  <2>1. PICK c, row : c \in Shown /\ c.tab = "review" /\ Press(c, row, [ReviewCall(c, "apply") EXCEPT !.row = row])
    BY <1>8 DEF Approve
  <2>. DEFINE new == [ReviewCall(c, "apply") EXCEPT !.row = row]
  <2>2. DOMAIN new = Fields /\ new.ask = "apply" /\ new.way = "act" /\ new.card = Id(c) /\ c \in cards
    BY <2>1, CardCallFacts DEF Fields, Shown
  <2>. HIDE DEF new
  <2>3. NewFits(<<new>>)
    BY <2>1, <2>2, CardCall
  <2>. QED BY <2>1, <2>3, PressesAlone DEF new
<1>9. CASE Undo
  <2>1. PICK c \in Shown : c.tab = "review" /\ Press(c, "undo", ReviewCall(c, "undo"))
    BY <1>9 DEF Undo
  <2>2. NewFits(<<ReviewCall(c, "undo")>>)
    BY <2>1, CardCall, CardCallFacts DEF Shown
  <2>. QED BY <2>1, <2>2, PressesAlone
<1>10. CASE ApproveAll
  <2>1. PICK c \in Shown :
          /\ c.tab = "review" /\ UNCHANGED page
          /\ Click(<<[ReviewCall(c, "apply") EXCEPT !.way = "all", !.row = Head(Suggested[c.item]),
                                                    !.todo = Tail(Suggested[c.item])]>>)
    BY <1>10 DEF ApproveAll
  <2>. DEFINE new == [ReviewCall(c, "apply") EXCEPT !.way = "all", !.row = Head(Suggested[c.item]),
                                                    !.todo = Tail(Suggested[c.item])]
  <2>2. DOMAIN new = Fields /\ new.ask = "apply" /\ new.way = "all" /\ new.card = Id(c) /\ c \in cards
    BY CardCallFacts DEF Fields, Shown
  <2>. HIDE DEF new
  <2>3. NewFits(<<new>>)
    BY <2>1, <2>2, CardCall
  <2>. QED BY <1>1, <2>1, <2>3 DEF new
<1>11. CASE Dismiss
  <2>1. PICK c \in Shown :
          /\ c.tab = "review" /\ UNCHANGED page
          /\ LET rows == Suggested[c.item]
             IN  Click(<<IF rows = <<>> THEN ReviewCall(c, "resolve")
                         ELSE [ReviewCall(c, "dismiss") EXCEPT !.row = Head(rows), !.todo = Tail(rows)]>>)
    BY <1>11 DEF Dismiss, Click
  <2>. DEFINE rows == Suggested[c.item]
              more == [ReviewCall(c, "dismiss") EXCEPT !.row = Head(rows), !.todo = Tail(rows)]
              new  == IF rows = <<>> THEN ReviewCall(c, "resolve") ELSE more
  <2>2. c \in cards /\ DOMAIN more = Fields /\ more.ask = "dismiss" /\ more.way = "act" /\ more.card = Id(c)
    BY CardCallFacts DEF Fields, Shown
  <2>3. DOMAIN ReviewCall(c, "resolve") = Fields /\ ReviewCall(c, "resolve").ask = "resolve"
        /\ ReviewCall(c, "resolve").way = "act" /\ ReviewCall(c, "resolve").card = Id(c)
    BY CardCallFacts
  <2>4. Request(inbox, <<new>>) /\ UNCHANGED <<page, world>>
    BY <2>1
  <2>. HIDE DEF more
  <2>5. NewFits(<<new>>)
    BY <2>1, <2>2, <2>3, CardCall
  <2>. QED BY <1>1, <2>4, <2>5
<1>12. CASE PressAll
  <2>1. PICK c \in Shown : c.tab \in DOMAIN Actions /\ Press(c, "all", ReviewCall(c, Actions[c.tab]))
    BY <1>12 DEF PressAll
  <2>2. \/ c.tab = "proposals" /\ Actions[c.tab] = "decide"
        \/ c.tab = "followups" /\ Actions[c.tab] = "act"
    BY <2>1 DEF Actions
  <2>3. /\ DOMAIN ReviewCall(c, Actions[c.tab]) = Fields /\ ReviewCall(c, Actions[c.tab]).ask = Actions[c.tab]
        /\ ReviewCall(c, Actions[c.tab]).way = "act" /\ ReviewCall(c, Actions[c.tab]).card = Id(c)
    BY CardCallFacts
  <2>4. c \in cards
    BY DEF Shown
  <2>5. NewFits(<<ReviewCall(c, Actions[c.tab])>>)
    BY <2>2, <2>3, <2>4, CardCall
  <2>. QED BY <2>1, <2>5, PressesAlone
<1>. QED
  BY <1>2, <1>3, <1>4, <1>5, <1>6, <1>7, <1>8, <1>9, <1>10, <1>11, <1>12 DEF UserActs
-----------------------------------------------------------------------------
(* The page takes a message.                                               *)
Silent(m) ==
  /\ Says(PhaseKey, m) = {} /\ Says(PauseKey, m) = {}
  /\ \A t \in Badges : Says(Key("badge", t), m) = {} /\ Says(Key("list", t), m) = {}

LEMMA HeadTaken ==
  ASSUME inbox # <<>>
  PROVE  \A m : Taken(Tail(inbox), m) <=> m = Message
BY DEF Taken, Message

LEMMA HeadFits ==
  ASSUME FilterInv, TypesFit, inbox # <<>>
  PROVE  MessageOk(Message) /\ (Message.kind = "answer" => Asked \in Pending /\ CallOk(Asked) /\ DOMAIN Asked = Fields)
<1>1. Has(inbox, Message) /\ Formed(calls, inbox)
  BY FormedCalls, HeadAndTail DEF Formed, Message
<1>2. Message.kind = "answer" => Asked \in Pending
  BY <1>1, PendingHas DEF Asked
<1>. QED BY <1>1, <1>2 DEF TypesFit, Formed, Asked

\* What tells nothing, or one thing.
LEMMA EventsTell ==
  ASSUME NEW m, m.kind = "event"
  PROVE  /\ Says(PauseKey, m) = {} /\ \A t : Says(Key("badge", t), m) = {} /\ Says(Key("list", t), m) = {}
         /\ Says(PhaseKey, m) = IF m.name = "status" THEN {m.value} ELSE {}
BY DEF Says, PauseKey, PhaseKey, Key

LEMMA AnswersTell ==
  ASSUME NEW m, m.kind = "answer"
  PROVE  /\ m.call.ask \notin {"status", "reconnect"} \/ (m.call.ask = "status" /\ m.call.way # "act") =>
              Says(PhaseKey, m) = {}
         /\ m.call.ask \notin {"settings", "pause"} => Says(PauseKey, m) = {}
         /\ \A t : m.call.ask # Lists[t] => Says(Key("badge", t), m) = {} /\ Says(Key("list", t), m) = {}
BY DEF Says, Asks, AlsoTells, PauseKey, PhaseKey, Key

Handled == {"stash", "apply", "undo", "dismiss", "resolve", "resolved", "decide", "act"}

LEMMA SilentAnswers ==
  ASSUME NEW m, m.kind = "answer",
         m.call.ask \in Handled \cup {"activity"} \/ (m.call.ask = "status" /\ m.call.way = "count")
  PROVE  Silent(m)
<1>1. \A t \in Badges : Lists[t] \in {"queue", "proposals", "followups"}
  BY DEF Lists, Badges, Tabs
<1>. QED BY <1>1, AnswersTell DEF Silent, Handled

\* The header and the tabs stay as they are at a message that does not tell
\* of them.
LEMMA HeaderStays ==
  ASSUME TypesFit, PhaseKnown, UNCHANGED header, inbox # <<>>, NEW new,
         screen' # "app" \/ (Says(PhaseKey, Message) = {} /\ Says(PauseKey, Message) = {})
  PROVE  HeaderFollows(Tail(inbox), new)
BY HeadTaken DEF HeaderFollows, TypesFit, PhaseKnown

LEMMA ListsAsTold ==
  ASSUME inbox # <<>>, NEW t, NEW k, k = Key("list", t), Says(k, Message) = {},
         Listed(t) \subseteq {Truth(t)} => Listed(t)' \subseteq {Truth(t)}
  PROVE  Shows(k, Tail(inbox), Listed(t), Listed(t)', Truth(t))
BY HeadTaken DEF Shows

LEMMA TabsStayAsTold ==
  ASSUME TypesFit, inbox # <<>>, NEW new, UNCHANGED counts, \A c \in cards' : CardOk(c),
         \A t \in Badges : Says(Key("badge", t), Message) = {} /\ Says(Key("list", t), Message) = {},
         \A t \in {"proposals", "followups"} :
           \/ Listed(t) \subseteq {Truth(t)} => Listed(t)' \subseteq {Truth(t)}
           \/ \E c : Has(new, c) /\ PaintOf(c, t)
  PROVE  TabsShow(Tail(inbox), new)
<1>1. ASSUME NEW t \in Badges PROVE Shows(Key("badge", t), Tail(inbox), Badge(t), Badge(t)', Cardinality(Truth(t)))
  BY HeadTaken DEF Shows, Badge
<1>2. ASSUME NEW t \in {"proposals", "followups"}, Listed(t) \subseteq {Truth(t)} => Listed(t)' \subseteq {Truth(t)}
      PROVE  Shows(Key("list", t), Tail(inbox), Listed(t), Listed(t)', Truth(t))
  <2>1. t \in Badges
    BY DEF Badges, Tabs
  <2>. QED BY <1>2, <2>1, ListsAsTold
<1>. QED BY <1>1, <1>2 DEF TabsShow, TypesFit

LEMMA Takes ==
  ASSUME FilterInv, inbox # <<>>, NEW new, NewFits(new), Request(Tail(inbox), new), WorldStays,
         UNCHANGED screen,
         activeTab' = activeTab \/ AsksStatus(new) \/ \E c : Has(new, c) /\ PaintOf(c, activeTab'),
         GoesOn(Message, new), \A t \in Badges : Rereads(t, Message, new),
         HeaderFollows(Tail(inbox), new), TabsShow(Tail(inbox), new)
  PROVE  \E in, n : TurnOk(in, n)
<1>1. Follows(Tail(inbox), new)
  BY HeadTaken DEF Follows
<1>2. TurnOk(Tail(inbox), new)
  BY <1>1 DEF TurnOk, Turn, WorldStays
<1>. QED BY <1>2

\* A handler of a call that tells the page nothing.
LEMMA TakesSilently ==
  ASSUME FilterInv, TypesFit, PhaseKnown, inbox # <<>>, NEW new, NewFits(new), Request(Tail(inbox), new), WorldStays,
         UNCHANGED <<screen, activeTab, counts, header>>,
         Message.kind = "answer", Asked.way # "paint",
         Asked.ask \in Handled \ {"stash"} \/ (Asked.ask = "status" /\ Asked.way = "count"),
         \A t \in Badges : Rereads(t, Message, new),
         \A c \in cards' : CardOk(c),
         \A t \in {"proposals", "followups"} :
           \/ Listed(t) \subseteq {Truth(t)} => Listed(t)' \subseteq {Truth(t)}
           \/ \E c : Has(new, c) /\ PaintOf(c, t)
  PROVE  \E in, n : TurnOk(in, n)
<1>1. Silent(Message)
  BY SilentAnswers DEF Asked
<1>2. GoesOn(Message, new)
  BY DEF GoesOn, Handled, Asked
<1>3. HeaderFollows(Tail(inbox), new)
  BY <1>1, HeaderStays DEF Silent
<1>4. TabsShow(Tail(inbox), new)
  BY <1>1, TabsStayAsTold DEF Silent
<1>. QED BY <1>2, <1>3, <1>4, Takes

\* No news in it either.
LEMMA OldNews ==
  ASSUME NEW m, NEW new, m.kind = "answer",
         m.call.ask \in {"stash", "status", "reconnect", "settings", "pause", "queue", "proposals", "followups", "activity",
                         "apply", "undo", "dismiss", "resolve"} \/ (~m.ok /\ m.call.ask \in {"decide", "act"})
  PROVE  \A t \in Badges : Rereads(t, m, new)
<1>1. \A t \in DOMAIN Actions : Actions[t] \in {"decide", "act"}
  BY DEF Actions
<1>. QED BY <1>1 DEF Rereads, News, Announces, Reports

\* The walk to the first tab.
LEMMA StartTurn ==
  ASSUME FilterInv, TypesFit, PhaseKnown, UNCHANGED open,
         OnStepStatus \/ OnStash \/ OnStatus \/ OnSettings
  PROVE  \E in, new : TurnOk(in, new)
<1>. USE DEF Answered, Reply, WorldStays, world
<1>1. CASE OnStepStatus
  <2>1. /\ inbox # <<>> /\ Message.kind = "answer" /\ Asked.ask = "status" /\ Asked.way = "count"
        /\ Request(Tail(inbox), <<>>) /\ UNCHANGED page
    BY <1>1 DEF OnStepStatus
  <2>2. \A t \in Badges : Rereads(t, Message, <<>>)
    BY <2>1, OldNews DEF Asked
  <2>3. UNCHANGED <<screen, activeTab, counts, header>> /\ ListsLeft /\ \A c \in cards' : CardOk(c)
    BY <2>1, PageStays
  <2>. QED BY <1>1, <2>1, <2>2, <2>3, NewNone, TakesSilently DEF OnStepStatus, ListsLeft
<1>2. CASE OnStash
  <2>. DEFINE new == <<Call("status")>>
  <2>1. /\ inbox # <<>> /\ Message.kind = "answer" /\ Asked.ask = "stash" /\ Asked.way = "act"
        /\ Request(Tail(inbox), new) /\ UNCHANGED <<screen, pane, cards, counts, header, world>>
    BY <1>2 DEF OnStash
  <2>2. NewFits(new) /\ AsksStatus(new)
    BY PlainCall DEF AsksStatus
  <2>. HIDE DEF new
  <2>3. Silent(Message)
    BY <2>1, SilentAnswers DEF Asked, Handled
  <2>4. \A t \in Badges : Rereads(t, Message, new)
    BY <2>1, OldNews DEF Asked
  <2>5. GoesOn(Message, new)
    BY <2>1, <2>2 DEF GoesOn, Asked
  <2>6. HeaderFollows(Tail(inbox), new)
    BY <2>1, <2>3, HeaderStays DEF Silent
  <2>7. (\A c \in cards' : CardOk(c)) /\ \A t : Listed(t)' = Listed(t)
    BY <2>1 DEF TypesFit, Listed, Shown
  <2>8. TabsShow(Tail(inbox), new)
    BY <2>1, <2>3, <2>7, TabsStayAsTold DEF Silent
  <2>. QED BY <2>1, <2>2, <2>4, <2>5, <2>6, <2>8, Takes
<1>3. CASE OnStatus
  <2>. DEFINE c == [Call("settings") EXCEPT !.then = "boot"]
  <2>1. /\ inbox # <<>> /\ Message.kind = "answer" /\ Asked.ask = "status" /\ Asked.way = "act"
        /\ Request(Tail(inbox), <<c>>) /\ UNCHANGED <<screen, activeTab, pane, cards, counts, world>>
        /\ header' = Banner(Message.value)
    BY <1>3 DEF OnStatus
  <2>2. DOMAIN c = Fields /\ c.ask = "settings" /\ c.way = "act" /\ c.then = "boot"
    BY DEF Call, Fields
  <2>. HIDE DEF c
  <2>3. NewFits(<<c>>) /\ Has(<<c>>, c)
    BY <2>2, NewOne, RowOfOne DEF CallOk
  <2>4. Says(PhaseKey, Message) = {Message.value}
    BY <2>1 DEF Says, Asks, Tells, PhaseKey, Key, Asked
  <2>5. Says(PauseKey, Message) = {} /\ \A t \in Badges : Says(Key("badge", t), Message) = {} /\ Says(Key("list", t), Message) = {}
    <3>1. \A t \in Badges : Lists[t] # "status"
      BY DEF Lists, Badges, Tabs
    <3>. QED BY <2>1, <3>1, AnswersTell DEF Asked
  <2>6. Message.value # None
    BY <2>1, <2>4, HeadFits, LinkAssumption DEF MessageOk
  <2>7. /\ DOMAIN header' = {"last", "banner", "pause"} /\ header'.last = Message.value
        /\ header'.banner = (Message.value # "ready") /\ header'.pause = header.pause
    BY <2>1 DEF Banner, TypesFit
  <2>8. HeaderFollows(Tail(inbox), <<c>>)
    BY <2>1, <2>2, <2>3, <2>4, <2>5, <2>6, <2>7, HeadTaken DEF HeaderFollows
  <2>9. (\A d \in cards' : CardOk(d)) /\ \A t : Listed(t)' = Listed(t)
    BY <2>1 DEF TypesFit, Listed, Shown
  <2>10. TabsShow(Tail(inbox), <<c>>)
    BY <2>1, <2>5, <2>9, TabsStayAsTold
  <2>11. \A t \in Badges : Rereads(t, Message, <<c>>)
    BY <2>1, OldNews DEF Asked
  <2>12. GoesOn(Message, <<c>>)
    BY <2>1, <2>2, <2>3 DEF GoesOn, Asked
  <2>. QED BY <2>1, <2>3, <2>8, <2>10, <2>11, <2>12, Takes
<1>4. CASE OnSettings
  <2>. DEFINE c == Paint(activeTab, IF Asked.then = "boot" THEN "prime" ELSE "stop")
  <2>1. /\ inbox # <<>> /\ Message.kind = "answer" /\ Asked.ask = "settings" /\ Asked.way = "act"
        /\ Request(Tail(inbox), <<c>>) /\ UNCHANGED <<screen, activeTab, counts, world>>
        /\ header' = [header EXCEPT !.pause = Message.ok /\ Message.value] /\ RenderTab(activeTab)
    BY <1>4 DEF OnSettings
  <2>2. /\ NewFits(<<c>>) /\ Has(<<c>>, c) /\ PaintOf(c, activeTab)
        /\ Asked.then = "boot" => c.then = "prime"
    BY PaintCall DEF FilterInv, TabsFit
  <2>. HIDE DEF c
  <2>3. Says(PauseKey, Message) = {Message.ok /\ Message.value}
    BY <2>1 DEF Says, Asks, Tells, PauseKey, Key, Asked
  <2>4. Says(PhaseKey, Message) = {} /\ \A t \in Badges : Says(Key("badge", t), Message) = {} /\ Says(Key("list", t), Message) = {}
    <3>1. \A t \in Badges : Lists[t] # "settings"
      BY DEF Lists, Badges, Tabs
    <3>. QED BY <2>1, <3>1, AnswersTell DEF Asked
  <2>5. /\ DOMAIN header' = {"last", "banner", "pause"} /\ header'.last = header.last
        /\ header'.banner = header.banner /\ header'.pause = (Message.ok /\ Message.value)
    BY <2>1 DEF TypesFit
  <2>6. HeaderFollows(Tail(inbox), <<c>>)
    BY <2>1, <2>3, <2>4, <2>5, HeadTaken DEF HeaderFollows, PhaseKnown
  <2>7. (\A d \in cards' : CardOk(d)) /\ \A t \in {"proposals", "followups"} : Listed(t)' = {}
    BY <2>1, RenderedCards
  <2>8. TabsShow(Tail(inbox), <<c>>)
    BY <2>1, <2>4, <2>7, TabsStayAsTold
  <2>9. \A t \in Badges : Rereads(t, Message, <<c>>)
    BY <2>1, OldNews DEF Asked
  <2>10. GoesOn(Message, <<c>>)
    BY <2>1, <2>2 DEF GoesOn, Asked
  <2>. QED BY <2>1, <2>2, <2>6, <2>8, <2>9, <2>10, Takes
<1>. QED BY <1>1, <1>2, <1>3, <1>4

\* The header's own calls.
LEMMA HeaderTurn ==
  ASSUME FilterInv, TypesFit, PhaseKnown, UNCHANGED open, OnReconnect \/ OnPause
  PROVE  \E in, new : TurnOk(in, new)
<1>. USE DEF Answered, Reply, WorldStays, world
<1>0. /\ inbox # <<>> /\ Message.kind = "answer" /\ Asked.ask \in {"reconnect", "pause"} /\ Asked.way = "act"
      /\ Request(Tail(inbox), <<>>) /\ UNCHANGED <<screen, activeTab, pane, cards, counts, world>>
  BY DEF OnReconnect, OnPause
<1>1. \A t \in Badges : Says(Key("badge", t), Message) = {} /\ Says(Key("list", t), Message) = {}
  <2>1. \A t \in Badges : Lists[t] \notin {"reconnect", "pause"}
    BY DEF Lists, Badges, Tabs
  <2>. QED BY <1>0, <2>1, AnswersTell DEF Asked
<1>2. (\A d \in cards' : CardOk(d)) /\ \A t : Listed(t)' = Listed(t)
  BY <1>0 DEF TypesFit, Listed, Shown
<1>3. TabsShow(Tail(inbox), <<>>)
  BY <1>0, <1>1, <1>2, TabsStayAsTold
<1>4. (\A t \in Badges : Rereads(t, Message, <<>>)) /\ GoesOn(Message, <<>>)
  BY <1>0, OldNews DEF GoesOn, Asked
<1>5. CASE OnReconnect
  <2>1. Asked.ask = "reconnect" /\ header' = Banner(Message.value)
    BY <1>5 DEF OnReconnect
  <2>2. Message.value = "connecting"
    BY <1>0, <2>1, HeadFits DEF MessageOk, Asked
  <2>3. Says(PhaseKey, Message) = {Message.value} /\ Says(PauseKey, Message) = {}
    BY <1>0, <2>1 DEF Says, Asks, AlsoTells, Tells, PhaseKey, PauseKey, Key, Asked
  <2>4. "connecting" # None
    BY LinkAssumption DEF Phases
  <2>5. /\ DOMAIN header' = {"last", "banner", "pause"} /\ header'.last = Message.value
        /\ header'.banner = (Message.value # "ready") /\ header'.pause = header.pause
    BY <2>1 DEF Banner, TypesFit
  <2>6. HeaderFollows(Tail(inbox), <<>>)
    BY <1>0, <2>2, <2>3, <2>4, <2>5, HeadTaken DEF HeaderFollows
  <2>. QED BY <1>0, <1>3, <1>4, <2>6, NewNone, Takes
<1>6. CASE OnPause
  <2>1. Asked.ask = "pause" /\ header' = IF Message.ok THEN [header EXCEPT !.pause = Message.value] ELSE header
    BY <1>6 DEF OnPause
  <2>2. Says(PhaseKey, Message) = {}
    BY <1>0, <2>1, AnswersTell DEF Asked
  <2>3. Says(PauseKey, Message) = IF Message.ok THEN {Message.value} ELSE {}
    BY <1>0, <2>1 DEF Says, Asks, AlsoTells, Tells, PauseKey, Key, Asked
  <2>4. HeaderFollows(Tail(inbox), <<>>)
    <3>1. CASE Message.ok
      <4>1. /\ DOMAIN header' = {"last", "banner", "pause"} /\ header'.last = header.last
            /\ header'.banner = header.banner /\ header'.pause = Message.value
        BY <2>1, <3>1 DEF TypesFit
      <4>. QED BY <1>0, <2>2, <2>3, <3>1, <4>1, HeadTaken DEF HeaderFollows, PhaseKnown
    <3>2. CASE ~Message.ok
      BY <1>0, <2>1, <2>2, <2>3, <3>2, HeaderStays
    <3>. QED BY <3>1, <3>2
  <2>. QED BY <1>0, <1>3, <1>4, <2>4, NewNone, Takes
<1>. QED BY <1>5, <1>6

\* Each list has a name of its own.
LEMMA ListNames ==
  /\ Lists["review"] = "queue" /\ Lists["proposals"] = "proposals" /\ Lists["followups"] = "followups"
  /\ \A s, t \in Badges : Lists[s] = Lists[t] => s = t
  /\ \A t \in Badges : Lists[t] \in {"queue", "proposals", "followups"}
BY DEF Lists, Badges, Tabs

\* An answer about one tab says nothing of the header and the other tabs.
LEMMA ListAnswer ==
  ASSUME NEW m, m.kind = "answer", NEW tab \in Badges, m.call.ask = Lists[tab]
  PROVE  /\ Says(PhaseKey, m) = {} /\ Says(PauseKey, m) = {}
         /\ \A t \in Badges \ {tab} : Says(Key("badge", t), m) = {} /\ Says(Key("list", t), m) = {}
         /\ Says(Key("badge", tab), m) =
              IF m.call.way = "count" \/ (m.call.way = "paint" /\ (m.call.newest \/ tab = "review"))
              THEN {IF m.ok THEN Cardinality(m.value) ELSE 0} ELSE {}
         /\ Says(Key("list", tab), m) =
              IF m.call.way = "paint" /\ m.call.newest THEN {IF m.ok THEN m.value ELSE {}} ELSE {}
<1>1. m.call.ask \in {"queue", "proposals", "followups"} /\ \A t \in Badges \ {tab} : m.call.ask # Lists[t]
  BY ListNames
<1>2. AlsoTells(Key("badge", tab), m) = FALSE /\ AlsoTells(Key("list", tab), m) = FALSE
  BY DEF AlsoTells, Key
<1>3. Says(Key("badge", tab), m) =
              IF m.call.way = "count" \/ (m.call.way = "paint" /\ (m.call.newest \/ tab = "review"))
              THEN {IF m.ok THEN Cardinality(m.value) ELSE 0} ELSE {}
  BY <1>2 DEF Says, Asks, Tells, Key
<1>4. Says(Key("list", tab), m) =
              IF m.call.way = "paint" /\ m.call.newest THEN {IF m.ok THEN m.value ELSE {}} ELSE {}
  BY <1>2 DEF Says, Asks, Tells, Key
<1>. QED BY <1>1, <1>3, <1>4, AnswersTell

LEMMA CountSet ==
  ASSUME TypesFit, NEW tab \in Badges, NEW n, SetCount(tab, n)
  PROVE  DOMAIN counts' = Badges /\ counts'[tab] = n /\ \A t \in Badges \ {tab} : counts'[t] = counts[t]
BY DEF SetCount, TypesFit

\* A tab's badge and list are set as the message tells, the others stay.
LEMMA TabsSetAsTold ==
  ASSUME TypesFit, inbox # <<>>, Message.kind = "answer", NEW tab \in Badges, Asked.ask = Lists[tab], NEW new,
         NEW n, SetCount(tab, n), Says(Key("badge", tab), Message) = {n}, \A c \in cards' : CardOk(c),
         \A t \in {"proposals", "followups"} \ {tab} : Listed(t)' \subseteq Listed(t),
         tab # "review" => IF Says(Key("list", tab), Message) = {} THEN Listed(tab)' \subseteq Listed(tab)
                           ELSE Listed(tab)' \subseteq Says(Key("list", tab), Message)
  PROVE  TabsShow(Tail(inbox), new)
<1>0. /\ \A t \in Badges \ {tab} : Says(Key("badge", t), Message) = {} /\ Says(Key("list", t), Message) = {}
      /\ DOMAIN counts' = Badges /\ counts'[tab] = n /\ \A t \in Badges \ {tab} : counts'[t] = counts[t]
  BY ListAnswer, CountSet DEF Asked
<1>1. ASSUME NEW t \in Badges PROVE Shows(Key("badge", t), Tail(inbox), Badge(t), Badge(t)', Cardinality(Truth(t)))
  <2>1. CASE t = tab
    BY <1>0, <2>1, HeadTaken DEF Shows, Badge
  <2>2. CASE t # tab
    BY <1>0, <2>2, HeadTaken DEF Shows, Badge
  <2>. QED BY <2>1, <2>2
<1>2. ASSUME NEW t \in {"proposals", "followups"}
      PROVE  Shows(Key("list", t), Tail(inbox), Listed(t), Listed(t)', Truth(t))
  <2>0. t \in Badges
    BY DEF Badges, Tabs
  <2>1. CASE t = tab /\ Says(Key("list", tab), Message) # {}
    BY <2>1, HeadTaken DEF Shows
  <2>2. CASE t = tab /\ Says(Key("list", tab), Message) = {}
    BY <2>2, HeadTaken DEF Shows
  <2>3. CASE t # tab
    BY <1>0, <2>0, <2>3, HeadTaken DEF Shows
  <2>. QED BY <2>1, <2>2, <2>3
<1>. QED BY <1>0, <1>1, <1>2 DEF TabsShow

LEMMA ListNews ==
  ASSUME NEW m, m.kind = "answer", m.call.ask \in {"queue", "proposals", "followups", "activity"}, NEW new
  PROVE  /\ \A t \in Badges : Rereads(t, m, new)
         /\ (m.call.then = "prime" =>
               \A t \in {"proposals", "followups"} \ {activeTab} : \E c : Has(new, c) /\ c.ask = Lists[t] /\ c.way = "count")
             \/ m.call.way # "paint" => GoesOn(m, new)
BY OldNews DEF GoesOn

LEMMA RenderTurn ==
  ASSUME FilterInv, TypesFit, PhaseKnown, UNCHANGED open,
         OnPaintReview \/ OnPaintActivity \/ \E tab \in Badges : OnPaintList(tab)
  PROVE  \E in, new : TurnOk(in, new)
<1>. USE DEF Answered, Reply, WorldStays, world
<1>0. /\ inbox # <<>> /\ Message.kind = "answer" /\ Asked.way = "paint"
      /\ Asked.ask \in {"queue", "proposals", "followups", "activity"}
      /\ Request(Tail(inbox), Prime) /\ UNCHANGED <<screen, activeTab, header, world>>
  BY ListNames DEF OnPaintReview, OnPaintActivity, OnPaintList
<1>1. NewFits(Prime) /\ GoesOn(Message, Prime) /\ \A t \in Badges : Rereads(t, Message, Prime)
  BY <1>0, PrimeCalls, ListNews DEF Asked
<1>2. Says(PhaseKey, Message) = {} /\ Says(PauseKey, Message) = {}
  BY <1>0, AnswersTell DEF Asked
<1>3. HeaderFollows(Tail(inbox), Prime)
  BY <1>0, <1>2, HeaderStays
<1>4. CASE OnPaintReview
  <2>1. /\ Asked.ask = "queue" /\ SetCount("review", Cardinality(Message.value)) /\ Show("review", Message.value)
    BY <1>4 DEF OnPaintReview
  <2>2. "review" \in Badges /\ Lists["review"] = "queue"
    BY ListNames DEF Badges, Tabs
  <2>3. Message.ok /\ Message.value \subseteq Items["review"]
    BY <1>0, <2>1, <2>2, HeadFits DEF MessageOk, Asked
  <2>4. (\A c \in cards' : CardOk(c)) /\ \A t \in {"proposals", "followups"} : Listed(t)' = {}
    BY <2>1, <2>2, <2>3, PaintedCards
  <2>5. Says(Key("badge", "review"), Message) = {Cardinality(Message.value)}
    BY <1>0, <2>1, <2>2, <2>3, ListAnswer DEF Asked
  <2>6. TabsShow(Tail(inbox), Prime)
    BY <1>0, <2>1, <2>2, <2>4, <2>5, TabsSetAsTold
  <2>. QED BY <1>0, <1>1, <1>3, <2>6, Takes
<1>5. CASE OnPaintActivity
  <2>1. /\ Asked.ask = "activity" /\ UNCHANGED <<cards, counts>>
        /\ pane' = IF Asked.newest /\ Message.ok
                   THEN [pane EXCEPT !.events = @ \union {Message.value}] ELSE pane
    BY <1>5 DEF OnPaintActivity
  <2>2. pane'.of = pane.of
    BY <2>1 DEF FilterInv, PaneFits
  <2>3. (\A c \in cards' : CardOk(c)) /\ \A t : Listed(t)' = Listed(t)
    BY <2>1, <2>2 DEF TypesFit, Listed, Shown
  <2>4. Silent(Message)
    BY <1>0, <2>1, SilentAnswers DEF Asked
  <2>5. TabsShow(Tail(inbox), Prime)
    BY <1>0, <2>1, <2>3, <2>4, TabsStayAsTold DEF Silent
  <2>. QED BY <1>0, <1>1, <1>3, <2>5, Takes
<1>6. ASSUME NEW tab \in Badges, OnPaintList(tab) PROVE \E in, new : TurnOk(in, new)
  <2>. DEFINE items == IF Message.ok THEN Message.value ELSE {}
  <2>1. /\ tab \in {"proposals", "followups"} /\ Asked.ask = Lists[tab]
        /\ IF Asked.newest THEN Show(tab, items) /\ SetCount(tab, Cardinality(items))
           ELSE UNCHANGED <<pane, cards, counts>>
    BY <1>6 DEF OnPaintList
  <2>2. items \subseteq Items[tab]
    BY <1>0, <2>1, HeadFits DEF MessageOk, Asked
  <2>3. /\ Says(Key("list", tab), Message) = IF Asked.newest THEN {items} ELSE {}
        /\ Says(Key("badge", tab), Message) = IF Asked.newest THEN {IF Message.ok THEN Cardinality(Message.value) ELSE 0} ELSE {}
        /\ \A t \in Badges \ {tab} : Says(Key("badge", t), Message) = {} /\ Says(Key("list", t), Message) = {}
    BY <1>0, <2>1, ListAnswer DEF Asked
  <2>4. Cardinality(items) = IF Message.ok THEN Cardinality(Message.value) ELSE 0
    BY FS_EmptySet
  <2>. HIDE DEF items
  <2>5. CASE Asked.newest
    <3>1. (\A c \in cards' : CardOk(c)) /\ \A t \in {"proposals", "followups"} : Listed(t)' = IF t = tab THEN {items} ELSE {}
      BY <2>1, <2>2, <2>5, PaintedCards
    <3>2. TabsShow(Tail(inbox), Prime)
      BY <1>0, <2>1, <2>3, <2>4, <2>5, <3>1, TabsSetAsTold
    <3>. QED BY <1>0, <1>1, <1>3, <3>2, Takes
  <2>6. CASE ~Asked.newest
    <3>1. (\A c \in cards' : CardOk(c)) /\ \A t : Listed(t)' = Listed(t)
      BY <2>1, <2>6 DEF TypesFit, Listed, Shown
    <3>2. \A t \in Badges : Says(Key("badge", t), Message) = {} /\ Says(Key("list", t), Message) = {}
      BY <2>3, <2>6
    <3>3. TabsShow(Tail(inbox), Prime)
      BY <1>0, <2>1, <2>6, <3>1, <3>2, TabsStayAsTold
    <3>. QED BY <1>0, <1>1, <1>3, <3>3, Takes
  <2>. QED BY <2>5, <2>6
<1>. QED BY <1>4, <1>5, <1>6

LEMMA CountTurn ==
  ASSUME FilterInv, TypesFit, PhaseKnown, UNCHANGED open, NEW tab, OnCount(tab)
  PROVE  \E in, new : TurnOk(in, new)
<1>. USE DEF Answered, Reply, WorldStays, world
<1>1. /\ inbox # <<>> /\ Message.kind = "answer" /\ Asked.way = "count" /\ tab \in Badges /\ Asked.ask = Lists[tab]
      /\ Request(Tail(inbox), <<>>) /\ UNCHANGED <<screen, activeTab, pane, cards, header, world>>
      /\ SetCount(tab, IF Message.ok THEN Cardinality(Message.value) ELSE 0)
  BY DEF OnCount
<1>2. GoesOn(Message, <<>>) /\ \A t \in Badges : Rereads(t, Message, <<>>)
  BY <1>1, ListNames, ListNews DEF Asked
<1>3. /\ Says(PhaseKey, Message) = {} /\ Says(PauseKey, Message) = {}
      /\ Says(Key("badge", tab), Message) = {IF Message.ok THEN Cardinality(Message.value) ELSE 0}
      /\ Says(Key("list", tab), Message) = {}
  BY <1>1, ListAnswer DEF Asked
<1>4. HeaderFollows(Tail(inbox), <<>>)
  BY <1>1, <1>3, HeaderStays
<1>5. (\A c \in cards' : CardOk(c)) /\ \A t : Listed(t)' = Listed(t)
  BY <1>1 DEF TypesFit, Listed, Shown
<1>6. TabsShow(Tail(inbox), <<>>)
  BY <1>1, <1>3, <1>5, TabsSetAsTold
<1>. QED BY <1>1, <1>2, <1>4, <1>6, NewNone, Takes

\* What has become of the buttons.
LEMMA OnwardCall ==
  ASSUME FilterInv, TypesFit, inbox # <<>>, Message.kind = "answer", Asked.ask \in {"apply", "dismiss"},
         NEW c, DOMAIN c = Fields, c.card = Asked.card, c.ask \in {"apply", "dismiss", "resolve"}, c.way # "paint"
  PROVE  NewFits(<<c>>)
<1>1. CallOk(Asked)
  BY HeadFits
<1>2. CallOk(c)
  BY <1>1 DEF CallOk
<1>. QED BY <1>2, NewOne

LEMMA OnwardFacts ==
  ASSUME FilterInv, TypesFit, inbox # <<>>, Message.kind = "answer", NEW ask
  PROVE  LET c == Onward(ask) IN DOMAIN c = Fields /\ c.card = Asked.card /\ c.ask = ask /\ c.way = "act"
BY HeadFits DEF Onward, Fields

LEMMA ActedTurn ==
  ASSUME FilterInv, TypesFit, PhaseKnown, UNCHANGED open,
         OnApply \/ OnUndo \/ OnApplyAll \/ OnDismiss
  PROVE  \E in, new : TurnOk(in, new)
<1>. USE DEF Answered, Reply, WorldStays, world
<1>0. /\ inbox # <<>> /\ Message.kind = "answer" /\ Asked.ask \in {"apply", "undo", "dismiss"} /\ Asked.way # "paint"
      /\ UNCHANGED <<screen, activeTab, counts, header, pane, world>>
  BY DEF OnApply, OnUndo, OnApplyAll, OnDismiss, page
<1>1. ASSUME NEW new, NewFits(new), Request(Tail(inbox), new), \A c \in cards' : CardOk(c), ShownItems' = ShownItems
      PROVE  \E in, n : TurnOk(in, n)
  <2>1. \A t \in Badges : Rereads(t, Message, new)
    BY <1>0, OldNews DEF Asked
  <2>2. ListsLeft
    BY <1>0, <1>1, ListsStay
  <2>. QED BY <1>0, <1>1, <2>1, <2>2, TakesSilently DEF ListsLeft, Handled
<1>2. ASSUME UNCHANGED cards PROVE (\A c \in cards' : CardOk(c)) /\ ShownItems' = ShownItems
  BY <1>2 DEF TypesFit, ShownItems, Shown
<1>3. CASE OnApply
  <2>. DEFINE new == IF Message.ok /\ \E c \in cards : Id(c) = Asked.card /\ c.rows \subseteq {Asked.row}
                     THEN <<Onward("resolve")>> ELSE <<>>
  <2>1. Request(Tail(inbox), new)
    BY <1>3 DEF OnApply
  <2>2. NewFits(<<Onward("resolve")>>)
    BY <1>0, <1>3, OnwardCall, OnwardFacts DEF OnApply
  <2>3. RemoveRow(Asked.card, Asked.row) \/ Enable(Asked.card, Asked.row)
    BY <1>3 DEF OnApply
  <2>4. (\A c \in cards' : CardOk(c)) /\ ShownItems' = ShownItems
    BY <2>3, EditedCards
  <2>5. NewFits(new)
    BY <2>2, NewNone
  <2>. HIDE DEF new
  <2>. QED BY <1>1, <2>1, <2>4, <2>5
<1>4. CASE OnUndo
  <2>1. Enable(Asked.card, "undo") /\ Request(Tail(inbox), <<>>)
    BY <1>4 DEF OnUndo
  <2>2. (\A c \in cards' : CardOk(c)) /\ ShownItems' = ShownItems
    BY <2>1, EditedCards
  <2>. QED BY <1>1, <2>1, <2>2, NewNone
<1>5. CASE OnApplyAll
  <2>. DEFINE sofar == [Asked EXCEPT !.all = @ /\ Message.ok]
  <2>1. PICK new : new \in {NextOf(sofar), Onward("resolve"), Paint("review", "stop")} /\ Request(Tail(inbox), <<new>>)
    BY <1>5 DEF OnApplyAll
  <2>2. Asked.ask = "apply" /\ Asked.way = "all" /\ DOMAIN Asked = Fields
    BY <1>0, <1>5, HeadFits DEF OnApplyAll
  <2>3. DOMAIN sofar = Fields /\ sofar.ask = "apply" /\ sofar.way = "all" /\ sofar.card = Asked.card
    BY <2>2 DEF Fields
  <2>. HIDE DEF sofar
  <2>4. LET c == NextOf(sofar) IN DOMAIN c = Fields /\ c.card = Asked.card /\ c.ask = "apply" /\ c.way = "all"
    BY <2>3 DEF NextOf, Fields
  <2>5. NewFits(<<NextOf(sofar)>>)
    BY <1>0, <2>2, <2>4, OnwardCall
  <2>6. NewFits(<<Onward("resolve")>>)
    BY <1>0, <2>2, OnwardCall, OnwardFacts
  <2>7. NewFits(<<Paint("review", "stop")>>)
    BY PaintCall DEF Tabs
  <2>8. UNCHANGED cards
    BY <1>5 DEF OnApplyAll, page
  <2>. QED BY <1>1, <1>2, <2>1, <2>5, <2>6, <2>7, <2>8
<1>6. CASE OnDismiss
  <2>1. PICK new : new \in {NextOf(Asked), Onward("resolve")} /\ Request(Tail(inbox), <<new>>)
    BY <1>6 DEF OnDismiss
  <2>2. Asked.ask = "dismiss" /\ Asked.way = "act" /\ DOMAIN Asked = Fields
    BY <1>0, <1>6, HeadFits DEF OnDismiss
  <2>3. LET c == NextOf(Asked) IN DOMAIN c = Fields /\ c.card = Asked.card /\ c.ask = "dismiss" /\ c.way = "act"
    BY <2>2 DEF NextOf, Fields
  <2>4. NewFits(<<NextOf(Asked)>>)
    BY <1>0, <2>2, <2>3, OnwardCall
  <2>5. NewFits(<<Onward("resolve")>>)
    BY <1>0, <2>2, OnwardCall, OnwardFacts
  <2>6. UNCHANGED cards
    BY <1>6 DEF OnDismiss, page
  <2>. QED BY <1>1, <1>2, <2>1, <2>4, <2>5, <2>6
<1>. QED BY <1>3, <1>4, <1>5, <1>6

LEMMA ResolvedTurn ==
  ASSUME FilterInv, TypesFit, PhaseKnown, UNCHANGED open, OnResolved
  PROVE  \E in, new : TurnOk(in, new)
<1>. USE DEF Answered, Reply, WorldStays, world
<1>. DEFINE new == <<Count("review")>>
<1>1. /\ inbox # <<>> /\ Message.kind = "answer" /\ Asked.ask = "resolved" /\ Asked.way = "act"
      /\ Request(Tail(inbox), new) /\ UNCHANGED <<screen, activeTab, pane, counts, header, world>>
      /\ TakeOff(Asked.card)
  BY DEF OnResolved
<1>2. /\ NewFits(new) /\ Has(new, Count("review"))
      /\ Count("review").ask = Lists["review"] /\ Count("review").way = "count" /\ "review" \in Badges
  BY CountCall DEF Badges, Tabs
<1>. HIDE DEF new
<1>3. \A t \in Badges : Rereads(t, Message, new)
  <2>1. \A t \in DOMAIN Actions : Actions[t] # "resolved"
    BY DEF Actions
  <2>2. Rereads("review", Message, new)
    BY <1>2, PaintAsks DEF Rereads
  <2>. QED BY <1>1, <2>1, <2>2 DEF Rereads, News, Announces, Reports, Asked
<1>4. Asked.card.item \in Decisions
  BY <1>1, HeadFits DEF CallOk
<1>5. (\A c \in cards' : CardOk(c)) /\ ShownItems' \subseteq ShownItems /\ ShownItems \subseteq ShownItems' \cup {Asked.card.item}
  BY <1>1, CardTakenOff
<1>6. ASSUME NEW t \in {"proposals", "followups"}, Listed(t) \subseteq {Truth(t)}
      PROVE  Listed(t)' \subseteq {Truth(t)}
  <2>1. Asked.card.item \notin Truth(t)
    BY <1>4, DashboardAssumption DEF Truth, TypesFit
  <2>2. pane.of = t => ShownItems' = ShownItems
    BY <1>5, <1>6, <2>1 DEF Listed, ShownItems
  <2>. QED BY <1>1, <1>6, <2>2 DEF Listed, ShownItems
<1>. QED BY <1>1, <1>2, <1>3, <1>5, <1>6, TakesSilently DEF Handled

LEMMA PressedTurn ==
  ASSUME FilterInv, TypesFit, PhaseKnown, UNCHANGED open, NEW tab \in DOMAIN Actions, OnPressed(tab)
  PROVE  \E in, new : TurnOk(in, new)
<1>. USE DEF Answered, Reply, WorldStays, world
<1>0. tab \in {"proposals", "followups"} /\ tab \in Badges /\ tab \in Tabs /\ Actions[tab] \in {"decide", "act"}
      /\ \A t \in DOMAIN Actions : Actions[t] = Actions[tab] => t = tab
  BY DEF Actions, Badges, Tabs
<1>1. /\ inbox # <<>> /\ Message.kind = "answer" /\ Asked.ask = Actions[tab] /\ Asked.way = "act"
      /\ UNCHANGED <<screen, activeTab, pane, counts, header, world>>
  BY <1>0 DEF OnPressed
<1>2. CASE ~Message.ok
  <2>1. Enable(Asked.card, "all") /\ Request(Tail(inbox), <<>>)
    BY <1>2 DEF OnPressed
  <2>2. (\A c \in cards' : CardOk(c)) /\ ShownItems' = ShownItems
    BY <2>1, EditedCards
  <2>3. ListsLeft
    BY <1>1, <2>2, ListsStay
  <2>4. \A t \in Badges : Rereads(t, Message, <<>>)
    BY <1>0, <1>1, <1>2, OldNews DEF Asked
  <2>. QED BY <1>0, <1>1, <2>1, <2>2, <2>3, <2>4, NewNone, TakesSilently DEF ListsLeft, Handled
<1>3. CASE Message.ok
  <2>. DEFINE new == <<Paint(tab, "stop")>>
  <2>1. /\ Request(Tail(inbox), new)
        /\ IF tab = "proposals" THEN TakeOff(Asked.card) ELSE UNCHANGED cards
    BY <1>3 DEF OnPressed
  <2>2. NewFits(new) /\ Has(new, Paint(tab, "stop")) /\ PaintOf(Paint(tab, "stop"), tab)
    BY <1>0, PaintCall
  <2>. HIDE DEF new
  <2>3. \A t \in Badges : Rereads(t, Message, new)
    <3>1. \A t \in Badges \ {tab} : ~News(t, Message)
      BY <1>0, <1>1 DEF News, Announces, Reports, Asked
    <3>. QED BY <1>0, <2>2, <3>1, PaintAsks DEF Rereads
  <2>4. \A c \in cards' : CardOk(c)
    BY <2>1, CardTakenOff DEF TypesFit
  <2>5. ASSUME NEW t \in {"proposals", "followups"}, t # tab, Listed(t) \subseteq {Truth(t)}
        PROVE  Listed(t)' \subseteq {Truth(t)}
    <3>1. CASE tab = "followups"
      BY <1>1, <2>1, <2>5, <3>1 DEF Listed, Shown
    <3>2. CASE tab = "proposals"
      <4>1. Asked.card.item \in Proposals
        BY <1>1, <3>2, HeadFits DEF CallOk, Actions
      <4>2. Asked.card.item \notin Truth(t)
        BY <2>5, <3>2, <4>1, DashboardAssumption DEF Truth, TypesFit
      <4>3. ShownItems' \subseteq ShownItems /\ ShownItems \subseteq ShownItems' \cup {Asked.card.item}
        BY <2>1, <3>2, CardTakenOff
      <4>4. pane.of = t => ShownItems' = ShownItems
        BY <2>5, <4>2, <4>3 DEF Listed, ShownItems
      <4>. QED BY <1>1, <2>5, <4>4 DEF Listed, ShownItems
    <3>. QED BY <1>0, <3>1, <3>2
  <2>. QED BY <1>0, <1>1, <2>1, <2>2, <2>3, <2>4, <2>5, TakesSilently DEF Handled
<1>. QED BY <1>2, <1>3

\* Live updates.
LEMMA EventTurn ==
  ASSUME FilterInv, TypesFit, PhaseKnown, UNCHANGED open,
         OnEventHidden \/ OnReviewEvent \/ (\E tab \in Badges : OnListEvent(tab)) \/ OnFocusTab
  PROVE  \E in, new : TurnOk(in, new)
<1>. USE DEF Told, Reply, WorldStays, world
<1>0. inbox # <<>> /\ Message.kind = "event"
  BY DEF OnEventHidden, OnReviewEvent, OnListEvent, OnFocusTab
<1>1. (\A new : GoesOn(Message, new)) /\ \A t \in Badges : Says(Key("badge", t), Message) = {} /\ Says(Key("list", t), Message) = {}
  BY <1>0, EventsTell DEF GoesOn
<1>2. \A t \in Badges : \A new : Message.name # t => Rereads(t, Message, new)
  BY <1>0 DEF Rereads, News, Announces, Reports
<1>3. CASE OnEventHidden
  <2>1. screen \in ToSet(Steps) /\ Request(Tail(inbox), <<>>) /\ UNCHANGED <<page, world>>
    BY <1>3 DEF OnEventHidden
  <2>2. UNCHANGED <<screen, activeTab, counts, header>> /\ ListsLeft /\ \A c \in cards' : CardOk(c)
    BY <2>1, PageStays
  <2>3. screen' # "app"
    BY <2>1, <2>2, StepScreens
  <2>4. HeaderFollows(Tail(inbox), <<>>)
    BY <1>0, <2>2, <2>3, HeaderStays
  <2>5. TabsShow(Tail(inbox), <<>>)
    BY <1>0, <1>1, <2>2, TabsStayAsTold DEF ListsLeft
  <2>6. \A t \in Badges : Rereads(t, Message, <<>>)
    BY <2>1 DEF Rereads
  <2>. QED BY <1>0, <1>1, <2>1, <2>2, <2>4, <2>5, <2>6, NewNone, Takes
<1>4. ASSUME Message.name # "status" PROVE Says(PhaseKey, Message) = {} /\ Says(PauseKey, Message) = {}
  BY <1>0, <1>4, EventsTell
<1>5. CASE OnReviewEvent
  <2>. DEFINE new == <<Count("review")>>
  <2>1. Message.name = "review" /\ Request(Tail(inbox), new) /\ UNCHANGED <<screen, activeTab, pane, cards, counts, header, world>>
    BY <1>5 DEF OnReviewEvent
  <2>2. /\ NewFits(new) /\ Has(new, Count("review"))
        /\ Count("review").ask = Lists["review"] /\ Count("review").way = "count" /\ "review" \in Badges
    BY CountCall DEF Badges, Tabs
  <2>. HIDE DEF new
  <2>3. Rereads("review", Message, new)
    BY <2>2, PaintAsks DEF Rereads
  <2>4. HeaderFollows(Tail(inbox), new)
    BY <1>0, <1>4, <2>1, HeaderStays
  <2>5. (\A c \in cards' : CardOk(c)) /\ \A t : Listed(t)' = Listed(t)
    BY <2>1 DEF TypesFit, Listed, Shown
  <2>6. TabsShow(Tail(inbox), new)
    BY <1>0, <1>1, <2>1, <2>5, TabsStayAsTold
  <2>. QED BY <1>0, <1>1, <1>2, <2>1, <2>2, <2>3, <2>4, <2>6, Takes
<1>6. ASSUME NEW tab \in Badges, OnListEvent(tab) PROVE \E in, new : TurnOk(in, new)
  <2>. DEFINE more == IF activeTab = tab THEN <<Paint(tab, "stop")>> ELSE <<>>
              new  == <<Count(tab)>> \o more
  <2>1. /\ tab \in {"proposals", "followups"} /\ Message.name = tab /\ Request(Tail(inbox), new)
        /\ UNCHANGED <<page, world>>
    BY <1>6 DEF OnListEvent
  <2>2. /\ NewFits(<<Count(tab)>>) /\ Has(<<Count(tab)>>, Count(tab))
        /\ Count(tab).ask = Lists[tab] /\ Count(tab).way = "count"
    BY CountCall
  <2>3. NewFits(more) /\ (activeTab = tab => \E c : Has(more, c) /\ PaintOf(c, tab))
    BY NewNone, PaintCall DEF Badges
  <2>4. NewFits(new) /\ \A c : Has(new, c) <=> Has(<<Count(tab)>>, c) \/ Has(more, c)
    <3>. HIDE DEF more
    <3>. QED BY <2>2, <2>3, NewJoined
  <2>. HIDE DEF more, new
  <2>5. UNCHANGED <<screen, activeTab, counts, header>> /\ ListsLeft /\ \A c \in cards' : CardOk(c)
    BY <2>1, PageStays
  <2>6. Rereads(tab, Message, new)
    BY <2>2, <2>3, <2>4, <2>5, PaintAsks DEF Rereads
  <2>7. HeaderFollows(Tail(inbox), new)
    BY <1>0, <1>4, <2>1, <2>5, HeaderStays
  <2>8. TabsShow(Tail(inbox), new)
    BY <1>0, <1>1, <2>5, TabsStayAsTold DEF ListsLeft
  <2>. QED BY <1>0, <1>1, <1>2, <2>1, <2>4, <2>5, <2>6, <2>7, <2>8, Takes
<1>7. CASE OnFocusTab
  <2>. DEFINE tab == Message.value
              new == <<Paint(tab, "stop")>>
  <2>1. /\ Message.name = "focusTab" /\ activeTab' = tab /\ RenderTab(tab) /\ Request(Tail(inbox), new)
        /\ UNCHANGED <<screen, counts, header, queue, proposals, deals, paused, owed>>
    BY <1>7 DEF OnFocusTab
  <2>2. tab \in Tabs
    BY <1>7, FocusFacts DEF OnFocusTab
  <2>3. NewFits(new) /\ Has(new, Paint(tab, "stop")) /\ PaintOf(Paint(tab, "stop"), tab)
    BY <2>2, PaintCall
  <2>. HIDE DEF tab, new
  <2>4. \A t \in Badges : Rereads(t, Message, new)
    BY <1>2, <2>1 DEF Badges, Tabs
  <2>5. HeaderFollows(Tail(inbox), new)
    BY <1>0, <1>4, <2>1, HeaderStays
  <2>6. (\A c \in cards' : CardOk(c)) /\ \A t \in {"proposals", "followups"} : Listed(t)' = {}
    BY <2>1, RenderedCards
  <2>7. TabsShow(Tail(inbox), new)
    BY <1>0, <1>1, <2>1, <2>6, TabsStayAsTold
  <2>. QED BY <1>0, <1>1, <2>1, <2>3, <2>4, <2>5, <2>7, Takes
<1>. QED BY <1>3, <1>5, <1>6, <1>7

LEMMA StatusTurn ==
  ASSUME FilterInv, TypesFit, PhaseKnown, UNCHANGED open, OnStatusChanged
  PROVE  \E in, new : TurnOk(in, new)
<1>. USE DEF Told, Reply, WorldStays, world
<1>. DEFINE p == Message.value
            recovered == p = "ready" /\ header.last \notin {None, "ready"}
            new == IF recovered THEN <<Call("settings")>> ELSE <<>>
<1>1. /\ inbox # <<>> /\ Message.kind = "event" /\ Message.name = "status" /\ Request(Tail(inbox), new)
      /\ header' = IF p # "ready" \/ recovered THEN Banner(p) ELSE [header EXCEPT !.last = p]
      /\ UNCHANGED <<screen, activeTab, pane, cards, counts, world>>
  BY DEF OnStatusChanged
<1>2. NewFits(new) /\ (recovered => \E c : Has(new, c) /\ c.ask = "settings")
  BY NewNone, PlainCall
<1>3. /\ Says(PhaseKey, Message) = {p} /\ Says(PauseKey, Message) = {}
      /\ \A t \in Badges : Says(Key("badge", t), Message) = {} /\ Says(Key("list", t), Message) = {}
  BY <1>1, EventsTell
<1>4. p # None
  BY <1>1, <1>3, HeadFits, LinkAssumption DEF MessageOk
<1>. HIDE DEF new
<1>5. /\ DOMAIN header' = {"last", "banner", "pause"} /\ header'.last = p /\ header'.pause = header.pause
      /\ header'.banner = IF p # "ready" \/ recovered THEN p # "ready" ELSE header.banner
  BY <1>1 DEF Banner, TypesFit
<1>6. HeaderFollows(Tail(inbox), new)
  BY <1>1, <1>2, <1>3, <1>4, <1>5, HeadTaken DEF HeaderFollows, PhaseKnown
<1>7. (\A c \in cards' : CardOk(c)) /\ \A t : Listed(t)' = Listed(t)
  BY <1>1 DEF TypesFit, Listed, Shown
<1>8. TabsShow(Tail(inbox), new)
  BY <1>1, <1>3, <1>7, TabsStayAsTold
<1>9. \A t \in Badges : Rereads(t, Message, new)
  BY <1>1 DEF Rereads, News, Announces, Reports, Badges, Tabs
<1>. QED BY <1>1, <1>2, <1>6, <1>8, <1>9, Takes DEF GoesOn

\* Every handler takes a turn that keeps to the rules.
LEMMA HandlersTurn ==
  ASSUME FilterInv, TypesFit, PhaseKnown, UNCHANGED open, PageHandles
  PROVE  \E in, new : TurnOk(in, new)
<1>1. CASE OnStepStatus \/ OnStash \/ OnStatus \/ OnSettings
  BY <1>1, StartTurn
<1>2. CASE OnReconnect \/ OnPause
  BY <1>2, HeaderTurn
<1>3. CASE OnPaintReview \/ OnPaintActivity \/ \E tab \in Badges : OnPaintList(tab)
  BY <1>3, RenderTurn
<1>4. CASE \E tab \in Badges : OnCount(tab)
  BY <1>4, CountTurn
<1>5. CASE OnApply \/ OnUndo \/ OnApplyAll \/ OnDismiss
  BY <1>5, ActedTurn
<1>6. CASE OnResolved \/ \E tab \in DOMAIN Actions : OnPressed(tab)
  BY <1>6, ResolvedTurn, PressedTurn
<1>7. CASE OnEventHidden \/ OnReviewEvent \/ (\E tab \in Badges : OnListEvent(tab)) \/ OnFocusTab
  BY <1>7, EventTurn
<1>8. CASE OnStatusChanged
  BY <1>8, StatusTurn
<1>. QED BY <1>1, <1>2, <1>3, <1>4, <1>5, <1>6, <1>7, <1>8 DEF PageHandles

LEMMA TurnKeeps ==
  ASSUME SettleInv, open # "panel", open \in {"dashboard", "app", "panel"}, NEW in, NEW new, TurnOk(in, new)
  PROVE  TypesFit' /\ Calm' /\ PhaseKnown' /\ PauseKnown' /\ TabsFollow' /\ (open' = "app" => screen' = "app")
<1>1. Formed(calls, inbox) /\ FilterInv /\ TypesFit /\ Calm /\ PhaseKnown /\ PauseKnown /\ TabsFollow
      /\ (open # "dashboard" => screen = "app")
  BY FormedCalls DEF SettleInv
<1>2. TypesFit' /\ Calm'
  BY <1>1, TurnTypes
<1>3. PhaseKnown' /\ PauseKnown'
  BY <1>1, TurnPhase, TurnPause
<1>4. TabsFollow'
  BY <1>1, TurnTabs
<1>5. open' = "app" => screen' = "app"
  BY <1>1 DEF TurnOk, Follows
<1>. QED BY <1>2, <1>3, <1>4, <1>5

-----------------------------------------------------------------------------
(* What happens behind the page: the background answers, the host sends,   *)
(* the connection goes and comes.                                          *)

\* A call goes on where it is; a review that is resolved has a step more.
Succeeds(d, c) ==
  /\ d.way = c.way /\ d.then = c.then /\ d.card = c.card
  /\ d.ask = c.ask \/ (c.ask = "resolve" /\ d.ask = "resolved")

\* The page and its calls stay, messages come in addition.
Behind ==
  /\ UNCHANGED <<screen, activeTab, pane, cards, counts, header, open>>
  /\ IsRow(inbox') /\ \A m : Has(inbox, m) => Has(inbox', m)
  /\ \A c \in Pending : \E d \in Pending' : Succeeds(d, c)
  /\ \A d \in Pending' : \E c \in Pending : Succeeds(d, c)

\* What the header and a tab show is settled, or will be asked for.
PhaseFresh == AwaitsStatus \/ Settles(PhaseKey, inbox, {header.last} \ {None}, phase)
PauseFresh == Fresh(PauseKey, calls, inbox, {header.pause}, paused)

LEMMA BehindTypes ==
  ASSUME TypesFit, Calm, Behind,
         phase' \in Phases, drops' \in Nat, drops' = 0 => drops = 0 /\ phase' = "ready",
         queue' \subseteq Decisions, proposals' \subseteq Proposals, deals' \subseteq Deals, paused' \in BOOLEAN,
         \A m : Has(inbox', m) =>
           \/ Has(inbox, m)
           \/ MessageOk(m) /\ (drops' = 0 => Says(PhaseKey, m) \subseteq {"ready"})
  PROVE  TypesFit' /\ Calm'
<1>1. ASSUME NEW d \in Pending' PROVE CallOk(d) /\ (drops = 0 => d.ask # "reconnect")
  <2>1. PICK c \in Pending : Succeeds(d, c)
    BY DEF Behind
  <2>2. CallOk(c) /\ (drops = 0 => c.ask # "reconnect")
    BY DEF TypesFit, Calm
  <2>. QED BY <2>1, <2>2 DEF Succeeds, CallOk
<1>2. \A m : Has(inbox', m) => MessageOk(m) /\ (drops' = 0 => Says(PhaseKey, m) \subseteq {"ready"})
  BY DEF TypesFit, Calm
<1>3. TypesFit'
  BY <1>1, <1>2 DEF TypesFit, Behind
<1>. QED BY <1>1, <1>2, <1>3 DEF Calm, Behind

LEMMA BehindPending ==
  ASSUME Behind
  PROVE  /\ Entering => Entering'
         /\ Starting => Starting'
         /\ Priming => Priming'
         /\ LossSeen => LossSeen'
<1>1. Entering => Entering'
  BY DEF Entering, Behind, Succeeds
<1>2. Starting => Starting'
  BY <1>1 DEF Starting, Behind, Succeeds
<1>. QED BY <1>1, <1>2 DEF Priming, LossSeen, Behind, Succeeds

LEMMA BehindKeeps ==
  ASSUME Behind, PhaseKnown, PauseKnown, TabsFollow, open = "app" => screen = "app",
         PhaseFresh => PhaseFresh',
         PauseFresh => PauseFresh' \/ phase' # "ready",
         drops' = 0 => drops = 0 /\ \A t \in Badges : /\ BadgeFresh(t) => BadgeFresh(t)'
                                                      /\ t # "review" /\ ListFresh(t) => ListFresh(t)'
  PROVE  PhaseKnown' /\ PauseKnown' /\ TabsFollow' /\ (open' = "app" => screen' = "app")
<1>1. UNCHANGED <<screen, activeTab, header, open>> /\ IsRow(inbox')
  BY DEF Behind
<1>2. PhaseKnown'
  BY <1>1, BehindPending DEF PhaseKnown, PhaseFresh
<1>3. PauseKnown'
  BY <1>1, <1>2, BehindPending, LossIsSeenNext DEF PauseKnown, PauseFresh
<1>4. TabsFollow'
  BY <1>1, BehindPending DEF TabsFollow, Badges, Tabs
<1>. QED BY <1>1, <1>2, <1>3, <1>4

LEMMA AppendedHas ==
  ASSUME NEW s, IsRow(s), NEW m, NEW e
  PROVE  Has(Append(s, m), e) <=> Has(s, e) \/ e = m
<1>1. IsRow(<<m>>) /\ Append(s, m) = s \o <<m>> /\ DOMAIN <<m>> = {1} /\ <<m>>[1] = m
  BY AppendedPlaces
<1>. QED BY <1>1, JoinedHas DEF Has

PageRests == UNCHANGED <<screen, activeTab, pane, cards, counts, header, open>>

\* An event comes.
LEMMA EventBehind ==
  ASSUME Formed(calls, inbox), PageRests, UNCHANGED calls, NEW name, NEW value,
         inbox' = Append(inbox, Event(name, value))
  PROVE  /\ Behind
         /\ \A m : Has(inbox', m) <=> Has(inbox, m) \/ m = Event(name, value)
         /\ AwaitsStatus => AwaitsStatus'
<1>. DEFINE n == Event(name, value)
<1>1. n.kind = "event" /\ inbox' = Append(inbox, n)
  BY DEF Event
<1>. HIDE DEF n
<1>2. IsRow(inbox') /\ \A m : Has(inbox', m) <=> Has(inbox, m) \/ m = n
  BY <1>1, AppendedHas, Appended DEF Formed
<1>3. \A c : c \in Pending' <=> c \in Pending
  BY <1>1, <1>2, PendingHas, PendingHasNext
<1>4. Behind
  BY <1>2, <1>3 DEF Behind, PageRests, Succeeds
<1>. QED BY <1>2, <1>3, <1>4 DEF n, AwaitsStatus

\* A call is answered.
LEMMA ServedBehind ==
  ASSUME Formed(calls, inbox), PageRests, NEW i \in DOMAIN calls, NEW ok, NEW value, Served(i, ok, value)
  PROVE  LET n == Answer(calls[i], ok, value)
         IN  /\ Behind
             /\ \A m : Has(inbox', m) <=> Has(inbox, m) \/ m = n
             /\ n.kind = "answer" /\ n.call = calls[i] /\ n.ok = ok /\ n.value = value
             /\ calls[i].ask # "status" \/ calls[i].way # "act" => (AwaitsStatus => AwaitsStatus')
<1>. DEFINE n == Answer(calls[i], ok, value)
<1>1. n.kind = "answer" /\ n.call = calls[i] /\ n.ok = ok /\ n.value = value
  BY DEF Answer
<1>2. inbox' = Append(inbox, n) /\ calls' = RemoveAt(calls, i)
  BY DEF Served
<1>. HIDE DEF n
<1>3. IsRow(inbox') /\ \A m : Has(inbox', m) <=> Has(inbox, m) \/ m = n
  BY <1>2, AppendedHas, Appended DEF Formed
<1>4. /\ \A c : Has(calls', c) => Has(calls, c)
      /\ \A c : Has(calls, c) => c = calls[i] \/ Has(calls', c)
      /\ Has(calls, calls[i])
  <2>1. Has(calls, calls[i])
    BY DEF Has
  <2>. QED BY <1>2, <2>1, RemovedHas DEF Formed
<1>5. \A c : c \in Pending' <=> c \in Pending
  BY <1>1, <1>3, <1>4, PendingHas, PendingHasNext
<1>6. Behind
  BY <1>3, <1>5 DEF Behind, PageRests, Succeeds
<1>7. ASSUME calls[i].ask # "status" \/ calls[i].way # "act", AwaitsStatus PROVE AwaitsStatus'
  <2>1. CASE \E c \in Pending : c.ask = "stash"
    BY <1>5, <2>1 DEF AwaitsStatus
  <2>2. ASSUME NEW c, Has(calls, c), c.ask = "status", c.way = "act" PROVE AwaitsStatus'
    <3>1. Has(calls', c)
      BY <1>4, <1>7, <2>2
    <3>. QED BY <2>2, <3>1 DEF AwaitsStatus, Has
  <2>. QED BY <1>7, <2>1, <2>2 DEF AwaitsStatus, Has
<1>. QED BY <1>1, <1>3, <1>6, <1>7 DEF n

\* News that is on its way stays so.
LEMMA BehindComing ==
  ASSUME Behind, NEW t, Coming(t),
         t \in owed => t \in owed' \/ \E m : Has(inbox', m) /\ Announces(t, m)
  PROVE  Coming(t)'
<1>1. CASE t = "review" /\ \E c \in Pending : c.ask = "resolved"
  <2>1. PICK c \in Pending : c.ask = "resolved"
    BY <1>1
  <2>2. PICK d \in Pending' : Succeeds(d, c)
    BY DEF Behind
  <2>3. d.ask = "resolved"
    BY <2>1, <2>2 DEF Succeeds
  <2>. QED BY <1>1, <2>2, <2>3 DEF Coming
<1>2. CASE t \in owed \/ \E m : Has(inbox, m) /\ (Announces(t, m) \/ Reports(t, m))
  BY <1>2 DEF Coming, Behind
<1>. QED BY <1>1, <1>2 DEF Coming

\* An answer that tells what there is, or that something has been done.
LEMMA ServedKeeps ==
  ASSUME SettleInv, PageRests, NEW i \in DOMAIN calls, NEW ok, NEW value, Served(i, ok, value),
         UNCHANGED owed, queue' \subseteq Decisions, proposals' \subseteq Proposals, deals' \subseteq Deals,
         paused' \in BOOLEAN,
         NEW n, n = Answer(calls[i], ok, value), MessageOk(n), Says(PhaseKey, n) \subseteq {phase},
         Says(PauseKey, n) = {paused'} \/ (Says(PauseKey, n) = {} /\ UNCHANGED paused),
         \A t \in Badges :
           \/ Reports(t, n)
           \/ /\ UNCHANGED Truth(t)
              /\ Says(Key("badge", t), n) \subseteq {Cardinality(Truth(t))}
              /\ Says(Key("list", t), n) \subseteq {Truth(t)}
  PROVE  TypesFit' /\ Calm' /\ PhaseKnown' /\ PauseKnown' /\ TabsFollow' /\ (open' = "app" => screen' = "app")
<1>1. /\ TypesFit /\ Calm /\ PhaseKnown /\ PauseKnown /\ TabsFollow /\ (open = "app" => screen = "app")
      /\ Formed(calls, inbox) /\ IsRow(calls) /\ IsRow(inbox)
  BY FormedCalls DEF SettleInv, Formed
<1>2. /\ Behind /\ n.kind = "answer" /\ n.call = calls[i]
      /\ \A m : Has(inbox', m) <=> Has(inbox, m) \/ m = n
      /\ calls[i].ask # "status" \/ calls[i].way # "act" => (AwaitsStatus => AwaitsStatus')
  BY <1>1, ServedBehind
<1>3. UNCHANGED <<phase, drops, header, counts, pane, cards>> /\ inbox' = Append(inbox, n)
  BY DEF Served, PageRests
<1>4. TypesFit' /\ Calm'
  <2>1. phase' \in Phases /\ drops' \in Nat /\ (drops' = 0 => drops = 0 /\ phase' = "ready")
    BY <1>1, <1>3 DEF TypesFit, Calm
  <2>2. \A m : Has(inbox', m) =>
          \/ Has(inbox, m)
          \/ MessageOk(m) /\ (drops' = 0 => Says(PhaseKey, m) \subseteq {"ready"})
    BY <1>2, <1>3, <2>1
  <2>. QED BY <1>1, <1>2, <2>1, <2>2, BehindTypes
<1>5. PhaseFresh => PhaseFresh'
  <2>1. CASE Says(PhaseKey, n) = {}
    <3>1. calls[i].ask # "status" \/ calls[i].way # "act"
      BY <1>2, <2>1 DEF Says, Asks, PhaseKey, Key
    <3>2. \A told, x : Settles(PhaseKey, inbox, told, x) => Settles(PhaseKey, inbox', told, x)
      BY <1>1, <1>3, <2>1, SettlesAppended
    <3>. QED BY <1>2, <1>3, <3>1, <3>2 DEF PhaseFresh
  <2>2. CASE Says(PhaseKey, n) = {phase}
    <3>1. \A told : Settles(PhaseKey, inbox', told, phase)
      BY <1>1, <1>3, <2>2, SettlesTold
    <3>. QED BY <1>3, <3>1 DEF PhaseFresh
  <2>. QED BY <2>1, <2>2
<1>6. PauseFresh => PauseFresh'
  <2>1. ASSUME Fresh(PauseKey, calls, inbox, {header.pause}, paused)
        PROVE  Fresh(PauseKey, calls', inbox', {header.pause}, paused')
    BY <1>1, <2>1, FreshServed
  <2>. QED BY <1>3, <2>1 DEF PauseFresh
<1>7. ASSUME NEW t \in Badges PROVE (BadgeFresh(t) => BadgeFresh(t)') /\ (ListFresh(t) => ListFresh(t)')
  <2>1. CASE Reports(t, n)
    <3>1. Coming(t)'
      BY <1>2, <2>1 DEF Coming
    <3>. QED BY <3>1 DEF BadgeFresh, ListFresh
  <2>2. Coming(t) => Coming(t)'
    BY <1>2, BehindComing
  <2>3. CASE UNCHANGED Truth(t) /\ Says(Key("badge", t), n) \subseteq {Cardinality(Truth(t))}
                                /\ Says(Key("list", t), n) \subseteq {Truth(t)}
    <3>1. Listed(t)' = Listed(t)
      BY <1>3 DEF Listed, Shown
    <3>2. ASSUME NEW k, NEW told, NEW x, Says(k, n) \subseteq {x}, Fresh(k, calls, inbox, told, x)
          PROVE  Fresh(k, calls', inbox', told, x)
      <4>1. Says(k, n) = {x} \/ Says(k, n) = {}
        BY <3>2
      <4>. QED BY <1>1, <3>2, <4>1, FreshServed
    <3>. QED BY <1>3, <2>2, <2>3, <3>1, <3>2 DEF BadgeFresh, ListFresh
  <2>. QED BY <2>1, <2>3
<1>. QED BY <1>1, <1>2, <1>3, <1>4, <1>5, <1>6, <1>7, BehindKeeps

\* What the background reads, it reads as it is.
LEMMA ReadKeeps ==
  ASSUME SettleInv, PageRests, UNCHANGED world, NEW i \in DOMAIN calls, ServeRead(i)
  PROVE  TypesFit' /\ Calm' /\ PhaseKnown' /\ PauseKnown' /\ TabsFollow' /\ (open' = "app" => screen' = "app")
<1>. DEFINE c == calls[i]
            n == Answer(c, TRUE, Reads(c))
<1>1. c.ask \in Reading /\ Served(i, TRUE, Reads(c)) /\ n.kind = "answer" /\ n.call = c /\ n.ok = TRUE /\ n.value = Reads(c)
  BY DEF ServeRead, Answer
<1>2. TypesFit
  BY DEF SettleInv
<1>3. \A t \in Badges : c.ask = Lists[t] => Reads(c) = Truth(t)
  BY DEF Reads, Truth, Lists, Badges, Tabs
<1>4. c.ask = "settings" => Reads(c) = paused
  BY DEF Reads
<1>5. \A t \in Badges : Truth(t) \subseteq Items[t]
  BY <1>2 DEF TypesFit, Truth, Items, Badges, Tabs
<1>6. c.ask \notin {"status", "reconnect", "pause"}
  BY <1>1 DEF Reading
<1>. HIDE DEF n, c
<1>7. Says(PhaseKey, n) = {}
  BY <1>1, <1>6, AnswersTell
<1>8. MessageOk(n)
  BY <1>1, <1>3, <1>5, <1>6, <1>7 DEF MessageOk
<1>9. Says(PauseKey, n) \subseteq {paused}
  <2>1. CASE c.ask = "settings"
    <3>1. Tells(PauseKey, n) = paused
      BY <1>1, <1>2, <1>4, <2>1 DEF Tells, PauseKey, Key, TypesFit
    <3>. QED BY <1>1, <3>1 DEF Says, PauseKey, Key
  <2>2. CASE c.ask # "settings"
    BY <1>1, <1>6, <2>2, AnswersTell
  <2>. QED BY <2>1, <2>2
<1>10. ASSUME NEW t \in Badges
       PROVE  Says(Key("badge", t), n) \subseteq {Cardinality(Truth(t))} /\ Says(Key("list", t), n) \subseteq {Truth(t)}
  <2>1. CASE c.ask = Lists[t]
    <3>1. Tells(Key("badge", t), n) = Cardinality(Truth(t)) /\ Tells(Key("list", t), n) = Truth(t)
      BY <1>1, <1>3, <2>1 DEF Tells, Key
    <3>2. ~AlsoTells(Key("badge", t), n) /\ ~AlsoTells(Key("list", t), n)
      BY DEF AlsoTells, Key
    <3>. QED BY <1>1, <3>1 DEF Says, Key
  <2>2. CASE c.ask # Lists[t]
    BY <1>1, <2>2, AnswersTell
  <2>. QED BY <2>1, <2>2
<1>11. /\ queue' \subseteq Decisions /\ proposals' \subseteq Proposals /\ deals' \subseteq Deals /\ paused' \in BOOLEAN
       /\ UNCHANGED <<owed, paused>> /\ \A t : UNCHANGED Truth(t)
  BY <1>2 DEF TypesFit, world, Truth
<1>12. Says(PhaseKey, n) \subseteq {phase} /\ (Says(PauseKey, n) = {paused'} \/ (Says(PauseKey, n) = {} /\ UNCHANGED paused))
  BY <1>7, <1>9, <1>11
<1>13. n = Answer(calls[i], TRUE, Reads(c)) /\ Served(i, TRUE, Reads(c))
  BY <1>1 DEF n, c
<1>14. \A t \in Badges :
           \/ Reports(t, n)
           \/ /\ UNCHANGED Truth(t)
              /\ Says(Key("badge", t), n) \subseteq {Cardinality(Truth(t))}
              /\ Says(Key("list", t), n) \subseteq {Truth(t)}
  BY <1>10, <1>11
<1>. QED BY <1>8, <1>11, <1>12, <1>13, <1>14, ServedKeeps

\* An answer that tells nothing of what there is; nothing has changed, or it
\* reports it.
LEMMA ActionKeeps ==
  ASSUME SettleInv, PageRests, UNCHANGED owed, NEW i \in DOMAIN calls, NEW ok, NEW value, Served(i, ok, value),
         calls[i].ask \in Handled \cup {"pause"},
         queue' \subseteq Decisions, proposals' \subseteq Proposals, deals' \subseteq Deals, paused' \in BOOLEAN,
         \/ UNCHANGED paused /\ (calls[i].ask = "pause" => ~ok)
         \/ calls[i].ask = "pause" /\ ok /\ paused' = value,
         \A t \in Badges : UNCHANGED Truth(t) \/ (t \in DOMAIN Actions /\ ok /\ calls[i].ask = Actions[t])
  PROVE  TypesFit' /\ Calm' /\ PhaseKnown' /\ PauseKnown' /\ TabsFollow' /\ (open' = "app" => screen' = "app")
<1>. DEFINE n == Answer(calls[i], ok, value)
<1>1. n.kind = "answer" /\ n.call = calls[i] /\ n.ok = ok /\ n.value = value
  BY DEF Answer
<1>. HIDE DEF n
<1>2. n.call.ask \notin {"status", "reconnect", "settings", "queue", "proposals", "followups", "activity"}
  BY <1>1 DEF Handled
<1>3. \A t \in Badges : n.call.ask # Lists[t]
  BY <1>2 DEF Lists, Badges, Tabs
<1>4. Says(PhaseKey, n) = {} /\ \A t \in Badges : Says(Key("badge", t), n) = {} /\ Says(Key("list", t), n) = {}
  BY <1>1, <1>2, <1>3, AnswersTell
<1>5. MessageOk(n)
  BY <1>1, <1>2, <1>3, <1>4 DEF MessageOk
<1>6. Says(PauseKey, n) = {paused'} \/ (Says(PauseKey, n) = {} /\ UNCHANGED paused)
  <2>1. CASE n.call.ask # "pause"
    BY <1>1, <1>2, <2>1, AnswersTell
  <2>2. CASE n.call.ask = "pause"
    <3>1. Says(PauseKey, n) = IF ok THEN {value} ELSE {}
      BY <1>1, <2>2 DEF Says, Asks, AlsoTells, Tells, PauseKey, Key
    <3>. QED BY <1>1, <2>2, <3>1
  <2>. QED BY <2>1, <2>2
<1>7. \A t \in Badges : UNCHANGED Truth(t) \/ Reports(t, n)
  BY <1>1 DEF Reports
<1>. QED BY <1>4, <1>5, <1>6, <1>7, ServedKeeps DEF n

\* What the host does, and for whom.
LEMMA HostFacts ==
  ASSUME TypesFit, NEW c, CallOk(c), c.ask \in Changing, HostDoes(c)
  PROVE  /\ queue' \subseteq Decisions /\ proposals' \subseteq Proposals /\ deals' \subseteq Deals /\ paused' \in BOOLEAN
         /\ UNCHANGED <<owed, stash>>
         /\ c.ask # "pause" => UNCHANGED paused
         /\ c.ask = "pause" => paused' = (c.item = "pause")
         /\ \A t \in Badges : UNCHANGED Truth(t) \/ (t \in DOMAIN Actions /\ c.ask = Actions[t])
<1>1. CASE c.ask = "decide"
  BY <1>1 DEF HostDoes, TypesFit, Truth, Actions, Badges, Tabs
<1>2. CASE c.ask = "act"
  BY <1>2 DEF HostDoes, TypesFit, Truth, Actions, Badges, Tabs
<1>3. CASE c.ask = "pause"
  BY <1>3 DEF HostDoes, TypesFit, Truth, Actions, Badges, Tabs
<1>. QED BY <1>1, <1>2, <1>3 DEF Changing

\* A review is resolved in the buffer, the page will hear of it.
LEMMA ResolveKeeps ==
  ASSUME SettleInv, PageRests, NEW i \in DOMAIN calls, ServeResolve(i)
  PROVE  TypesFit' /\ Calm' /\ PhaseKnown' /\ PauseKnown' /\ TabsFollow' /\ (open' = "app" => screen' = "app")
<1>. DEFINE c == calls[i]
            d == calls'[i]
<1>1. /\ TypesFit /\ Calm /\ PhaseKnown /\ PauseKnown /\ TabsFollow /\ (open = "app" => screen = "app")
      /\ IsRow(calls) /\ IsRow(inbox) /\ \A e : Has(calls, e) => DOMAIN e = Fields
  BY FormedCalls DEF SettleInv, Formed
<1>2. /\ c.ask = "resolve" /\ queue' = queue \ {c.item} /\ calls' = [calls EXCEPT ![i].ask = "resolved"]
      /\ UNCHANGED <<phase, inbox, drops, wedged, proposals, deals, paused, stash, owed>>
      /\ UNCHANGED <<screen, activeTab, pane, cards, counts, header, open>>
  BY DEF ServeResolve, PageRests
<1>3. DOMAIN c = Fields /\ Has(calls, c)
  BY <1>1 DEF Has
<1>4. /\ DOMAIN calls' = DOMAIN calls /\ \A j \in DOMAIN calls : j # i => calls'[j] = calls[j]
      /\ d.ask = "resolved" /\ d.way = c.way /\ d.then = c.then /\ d.card = c.card
  BY <1>2, <1>3 DEF Fields
<1>5. Succeeds(d, c) /\ \A e : Succeeds(e, e)
  BY <1>2, <1>4 DEF Succeeds
<1>. HIDE DEF d, c
<1>6. Has(calls', d) /\ \A e : Has(calls, e) => e = c \/ Has(calls', e)
  BY <1>4 DEF Has, c, d
<1>7. \A e : Has(calls', e) => e = d \/ Has(calls, e)
  BY <1>4 DEF Has, c, d
<1>8. Behind
  <2>1. ASSUME NEW e \in Pending PROVE \E f \in Pending' : Succeeds(f, e)
    <3>1. CASE e = c
      BY <1>5, <1>6, <3>1, PendingHasNext
    <3>2. CASE e # c
      BY <1>2, <1>5, <1>6, <2>1, <3>2, PendingHas, PendingHasNext
    <3>. QED BY <3>1, <3>2
  <2>2. ASSUME NEW e \in Pending' PROVE \E f \in Pending : Succeeds(e, f)
    <3>1. CASE e = d
      BY <1>3, <1>5, <3>1, PendingHas
    <3>2. CASE e # d
      BY <1>2, <1>5, <1>7, <2>2, <3>2, PendingHas, PendingHasNext
    <3>. QED BY <3>1, <3>2
  <2>. QED BY <1>1, <1>2, <2>1, <2>2 DEF Behind
<1>9. TypesFit' /\ Calm'
  <2>1. phase' \in Phases /\ drops' \in Nat /\ (drops' = 0 => drops = 0 /\ phase' = "ready")
    BY <1>1, <1>2 DEF TypesFit, Calm
  <2>2. queue' \subseteq Decisions /\ proposals' \subseteq Proposals /\ deals' \subseteq Deals /\ paused' \in BOOLEAN
    BY <1>1, <1>2 DEF TypesFit
  <2>3. \A m : Has(inbox', m) => Has(inbox, m)
    BY <1>2
  <2>. QED BY <1>1, <1>8, <2>1, <2>2, <2>3, BehindTypes
<1>10. PhaseFresh => PhaseFresh'
  <2>1. AwaitsStatus => AwaitsStatus'
    <3>1. CASE \E e \in Pending : e.ask = "stash"
      <4>1. PICK e \in Pending : e.ask = "stash"
        BY <3>1
      <4>2. PICK f \in Pending' : Succeeds(f, e)
        BY <1>8 DEF Behind
      <4>3. f.ask = "stash"
        BY <4>1, <4>2 DEF Succeeds
      <4>. QED BY <4>3 DEF AwaitsStatus
    <3>2. ASSUME NEW e, Has(calls, e), e.ask = "status", e.way = "act" PROVE AwaitsStatus'
      <4>1. Has(calls', e)
        BY <1>2, <1>6, <3>2 DEF c
      <4>. QED BY <3>2, <4>1 DEF AwaitsStatus, Has
    <3>. QED BY <3>1, <3>2 DEF AwaitsStatus, Has
  <2>. QED BY <1>2, <2>1 DEF PhaseFresh
<1>11. ASSUME NEW k, k.of \in {"pause", "badge", "list"}, k.of # "pause" => k.tab \in Badges,
              NEW told, NEW x, Fresh(k, calls, inbox, told, x)
       PROVE  Fresh(k, calls', inbox', told, x)
  <2>1. /\ DOMAIN calls' = DOMAIN calls /\ UNCHANGED inbox
        /\ \A j \in DOMAIN calls : calls'[j] = calls[j] \/ calls[j].ask = "resolve"
    BY <1>2, <1>4 DEF c
  <2>. QED BY <1>11, <2>1, FreshResolved
<1>12. PauseFresh => PauseFresh'
  <2>1. PauseKey.of = "pause"
    BY DEF PauseKey, Key
  <2>2. Fresh(PauseKey, calls, inbox, {header.pause}, paused) => Fresh(PauseKey, calls', inbox', {header.pause}, paused)
    BY <1>11, <2>1
  <2>. QED BY <1>2, <2>2 DEF PauseFresh
<1>13. ASSUME NEW t \in Badges PROVE (BadgeFresh(t) => BadgeFresh(t)') /\ (ListFresh(t) => ListFresh(t)')
  <2>1. CASE t = "review"
    <3>1. d \in Pending'
      BY <1>6, PendingHasNext
    <3>2. Coming(t)'
      BY <1>4, <2>1, <3>1 DEF Coming, d
    <3>. QED BY <3>2 DEF BadgeFresh, ListFresh
  <2>2. CASE t # "review"
    <3>1. UNCHANGED Truth(t) /\ (Coming(t) => Coming(t)')
      BY <1>2, <1>8, <2>2, BehindComing DEF Truth, Badges, Tabs
    <3>2. /\ Key("badge", t).of = "badge" /\ Key("badge", t).tab = t
          /\ Key("list", t).of = "list" /\ Key("list", t).tab = t
      BY DEF Key
    <3>3. Listed(t)' = Listed(t)
      BY <1>2 DEF Listed, Shown
    <3>4. ASSUME NEW k, k = Key("badge", t) \/ k = Key("list", t), NEW told, NEW x, Fresh(k, calls, inbox, told, x)
          PROVE  Fresh(k, calls', inbox', told, x)
      BY <1>11, <3>2, <3>4
    <3>. QED BY <1>2, <3>1, <3>3, <3>4 DEF BadgeFresh, ListFresh
  <2>. QED BY <2>1, <2>2
<1>. QED BY <1>1, <1>2, <1>8, <1>9, <1>10, <1>12, <1>13, BehindKeeps

LEMMA ServeKeeps ==
  ASSUME SettleInv, PageRests, Serve
  PROVE  TypesFit' /\ Calm' /\ PhaseKnown' /\ PauseKnown' /\ TabsFollow' /\ (open' = "app" => screen' = "app")
<1>1. PICK i \in DOMAIN calls : ServeRead(i) \/ ServeStash(i) \/ ServeAction(i) \/ ServeResolve(i)
                                  \/ ServeResolved(i) \/ ServeHost(i)
  BY DEF Serve
<1>2. TypesFit /\ CallOk(calls[i])
  BY PendingHas DEF SettleInv, TypesFit, Has
<1>3. /\ queue \subseteq Decisions /\ proposals \subseteq Proposals /\ deals \subseteq Deals /\ paused \in BOOLEAN
  BY <1>2 DEF TypesFit
<1>4. CASE ServeRead(i)
  BY <1>4, ReadKeeps DEF ServeRead
<1>5. CASE ServeStash(i)
  <2>1. /\ calls[i].ask = "stash" /\ Served(i, TRUE, stash) /\ UNCHANGED <<queue, proposals, deals, paused, owed>>
        /\ \A t \in Badges : UNCHANGED Truth(t)
    BY <1>5 DEF ServeStash, Truth
  <2>. QED BY <1>3, <2>1, ActionKeeps DEF Handled
<1>6. CASE ServeAction(i)
  <2>1. PICK ok \in BOOLEAN : Served(i, ok, None)
    BY <1>6 DEF ServeAction
  <2>2. /\ calls[i].ask \in Handled /\ calls[i].ask # "pause" /\ UNCHANGED <<queue, proposals, deals, paused, owed>>
        /\ \A t \in Badges : UNCHANGED Truth(t)
    BY <1>6 DEF ServeAction, Handled, world, Truth
  <2>. QED BY <1>3, <2>1, <2>2, ActionKeeps
<1>7. CASE ServeResolve(i)
  BY <1>7, ResolveKeeps
<1>8. CASE ServeResolved(i)
  <2>1. /\ calls[i].ask = "resolved" /\ Served(i, TRUE, None) /\ UNCHANGED <<queue, proposals, deals, paused, owed>>
        /\ \A t \in Badges : UNCHANGED Truth(t)
    BY <1>8 DEF ServeResolved, world, Truth
  <2>. QED BY <1>3, <2>1, ActionKeeps DEF Handled
<1>9. CASE ServeHost(i)
  <2>1. calls[i].ask \in Changing /\ calls[i].ask \in Handled \cup {"pause"}
    BY <1>9 DEF ServeHost, Changing, Handled
  <2>2. CASE HostDoes(calls[i]) /\ Served(i, TRUE, calls[i].item = "pause")
    <3>1. /\ queue' \subseteq Decisions /\ proposals' \subseteq Proposals /\ deals' \subseteq Deals /\ paused' \in BOOLEAN
          /\ UNCHANGED owed
          /\ calls[i].ask # "pause" => UNCHANGED paused
          /\ calls[i].ask = "pause" => paused' = (calls[i].item = "pause")
          /\ \A t \in Badges : UNCHANGED Truth(t) \/ (t \in DOMAIN Actions /\ calls[i].ask = Actions[t])
      BY <1>2, <2>1, <2>2, HostFacts
    <3>. QED BY <2>1, <2>2, <3>1, ActionKeeps
  <2>3. CASE UNCHANGED world /\ Served(i, FALSE, None)
    <3>1. UNCHANGED <<queue, proposals, deals, paused, owed>> /\ \A t \in Badges : UNCHANGED Truth(t)
      BY <2>3 DEF world, Truth
    <3>. QED BY <1>3, <2>1, <2>3, <3>1, ActionKeeps
  <2>. QED BY <1>9, <2>2, <2>3 DEF ServeHost
<1>. QED BY <1>1, <1>4, <1>5, <1>6, <1>7, <1>8, <1>9

\* The host has sent something, and the background tells the page.
LEMMA EventKeeps ==
  ASSUME SettleInv, PageRests, UNCHANGED <<phase, calls, drops, queue, proposals, deals, paused>>,
         NEW name, name # "status", NEW value, inbox' = Append(inbox, Event(name, value)), owed \ {name} \subseteq owed'
  PROVE  TypesFit' /\ Calm' /\ PhaseKnown' /\ PauseKnown' /\ TabsFollow' /\ (open' = "app" => screen' = "app")
<1>. DEFINE n == Event(name, value)
<1>1. /\ TypesFit /\ Calm /\ PhaseKnown /\ PauseKnown /\ TabsFollow /\ (open = "app" => screen = "app")
      /\ Formed(calls, inbox) /\ IsRow(inbox)
  BY FormedCalls DEF SettleInv, Formed
<1>2. n.kind = "event" /\ n.name = name
  BY DEF Event
<1>3. Behind /\ (\A m : Has(inbox', m) <=> Has(inbox, m) \/ m = n) /\ (AwaitsStatus => AwaitsStatus')
  BY <1>1, EventBehind
<1>4. UNCHANGED <<header, counts, pane, cards>> /\ inbox' = Append(inbox, n)
  BY DEF PageRests
<1>. HIDE DEF n
<1>5. /\ Says(PhaseKey, n) = {} /\ Says(PauseKey, n) = {}
      /\ \A t : Says(Key("badge", t), n) = {} /\ Says(Key("list", t), n) = {}
  BY <1>2, EventsTell
<1>6. ASSUME NEW k, Says(k, n) = {}, NEW told, NEW x, Fresh(k, calls, inbox, told, x)
      PROVE  Fresh(k, calls', inbox', told, x)
  BY <1>1, <1>4, <1>6, FreshAppended
<1>7. TypesFit' /\ Calm'
  <2>1. MessageOk(n)
    BY <1>2, <1>5 DEF MessageOk
  <2>2. phase' \in Phases /\ drops' \in Nat /\ (drops' = 0 => drops = 0 /\ phase' = "ready")
    BY <1>1 DEF TypesFit, Calm
  <2>3. queue' \subseteq Decisions /\ proposals' \subseteq Proposals /\ deals' \subseteq Deals /\ paused' \in BOOLEAN
    BY <1>1 DEF TypesFit
  <2>. QED BY <1>1, <1>3, <1>5, <2>1, <2>2, <2>3, BehindTypes
<1>8. PhaseFresh => PhaseFresh'
  <2>1. \A told, x : Settles(PhaseKey, inbox, told, x) => Settles(PhaseKey, inbox', told, x)
    BY <1>1, <1>4, <1>5, SettlesAppended
  <2>. QED BY <1>3, <1>4, <2>1 DEF PhaseFresh
<1>9. PauseFresh => PauseFresh'
  BY <1>4, <1>5, <1>6 DEF PauseFresh
<1>10. ASSUME NEW t \in Badges PROVE (BadgeFresh(t) => BadgeFresh(t)') /\ (ListFresh(t) => ListFresh(t)')
  <2>1. Coming(t) => Coming(t)'
    <3>1. t = name => Announces(t, n)
      BY <1>2 DEF Announces
    <3>. QED BY <1>3, <3>1, BehindComing
  <2>2. Listed(t)' = Listed(t) /\ UNCHANGED Truth(t)
    BY <1>4 DEF Listed, Shown, Truth
  <2>. QED BY <1>4, <1>5, <1>6, <2>1, <2>2 DEF BadgeFresh, ListFresh
<1>. QED BY <1>1, <1>3, <1>7, <1>8, <1>9, <1>10, BehindKeeps

\* The host changes a list, and owes the page the news of it.
LEMMA ArriveKeeps ==
  ASSUME SettleInv, UNCHANGED open, NEW kind \in Badges, Arrive(kind),
         queue' \subseteq Decisions, proposals' \subseteq Proposals, deals' \subseteq Deals,
         \A t \in Badges : t # kind => UNCHANGED Truth(t)
  PROVE  TypesFit' /\ Calm' /\ PhaseKnown' /\ PauseKnown' /\ TabsFollow' /\ (open' = "app" => screen' = "app")
<1>1. /\ TypesFit /\ Calm /\ PhaseKnown /\ PauseKnown /\ TabsFollow /\ (open = "app" => screen = "app")
      /\ IsRow(inbox)
  BY FormedCalls DEF SettleInv, Formed
<1>2. /\ owed' = owed \cup {kind} /\ UNCHANGED <<phase, calls, inbox, drops, wedged, paused>>
      /\ UNCHANGED <<screen, activeTab, pane, cards, counts, header, open>>
  BY DEF Arrive, link, page
<1>3. UNCHANGED Pending
  BY <1>2 DEF Pending, Replies
<1>4. Behind
  BY <1>1, <1>2, <1>3 DEF Behind, Succeeds
<1>5. TypesFit' /\ Calm'
  <2>1. phase' \in Phases /\ drops' \in Nat /\ (drops' = 0 => drops = 0 /\ phase' = "ready") /\ paused' \in BOOLEAN
    BY <1>1, <1>2 DEF TypesFit, Calm
  <2>2. \A m : Has(inbox', m) => Has(inbox, m)
    BY <1>2
  <2>. QED BY <1>1, <1>4, <2>1, <2>2, BehindTypes
<1>6. (PhaseFresh => PhaseFresh') /\ (PauseFresh => PauseFresh')
  BY <1>2, <1>3 DEF PhaseFresh, PauseFresh, AwaitsStatus
<1>7. ASSUME NEW t \in Badges PROVE (BadgeFresh(t) => BadgeFresh(t)') /\ (ListFresh(t) => ListFresh(t)')
  <2>1. CASE t = kind
    BY <1>2, <2>1 DEF BadgeFresh, ListFresh, Coming
  <2>2. CASE t # kind
    <3>1. UNCHANGED Truth(t) /\ (Coming(t) => Coming(t)')
      BY <1>2, <1>4, <2>2, BehindComing
    <3>2. Listed(t)' = Listed(t)
      BY <1>2 DEF Listed, Shown
    <3>. QED BY <1>2, <3>1, <3>2 DEF BadgeFresh, ListFresh
  <2>. QED BY <2>1, <2>2
<1>. QED BY <1>1, <1>2, <1>4, <1>5, <1>6, <1>7, BehindKeeps

LEMMA ArrivalsKeep ==
  ASSUME SettleInv, UNCHANGED open, Arrivals
  PROVE  TypesFit' /\ Calm' /\ PhaseKnown' /\ PauseKnown' /\ TabsFollow' /\ (open' = "app" => screen' = "app")
<1>1. queue \subseteq Decisions /\ proposals \subseteq Proposals /\ deals \subseteq Deals
  BY DEF SettleInv, TypesFit
<1>2. ASSUME NEW d \in Decisions, Classified(d)
      PROVE  TypesFit' /\ Calm' /\ PhaseKnown' /\ PauseKnown' /\ TabsFollow' /\ (open' = "app" => screen' = "app")
  <2>1. Arrive("review") /\ "review" \in Badges
        /\ queue' \subseteq Decisions /\ proposals' \subseteq Proposals /\ deals' \subseteq Deals
        /\ \A t \in Badges : t # "review" => UNCHANGED Truth(t)
    BY <1>1, <1>2 DEF Classified, Truth, Badges, Tabs
  <2>. QED BY <2>1, ArriveKeeps
<1>3. ASSUME NEW p \in Proposals, ProposalReady(p)
      PROVE  TypesFit' /\ Calm' /\ PhaseKnown' /\ PauseKnown' /\ TabsFollow' /\ (open' = "app" => screen' = "app")
  <2>1. Arrive("proposals") /\ "proposals" \in Badges
        /\ queue' \subseteq Decisions /\ proposals' \subseteq Proposals /\ deals' \subseteq Deals
        /\ \A t \in Badges : t # "proposals" => UNCHANGED Truth(t)
    BY <1>1, <1>3 DEF ProposalReady, Truth, Badges, Tabs
  <2>. QED BY <2>1, ArriveKeeps
<1>4. ASSUME NEW f \in Deals, FollowupDue(f)
      PROVE  TypesFit' /\ Calm' /\ PhaseKnown' /\ PauseKnown' /\ TabsFollow' /\ (open' = "app" => screen' = "app")
  <2>1. Arrive("followups") /\ "followups" \in Badges
        /\ queue' \subseteq Decisions /\ proposals' \subseteq Proposals /\ deals' \subseteq Deals
        /\ \A t \in Badges : t # "followups" => UNCHANGED Truth(t)
    BY <1>1, <1>4 DEF FollowupDue, Truth, Badges, Tabs
  <2>. QED BY <2>1, ArriveKeeps
<1>5. ASSUME NEW tab, NotificationClicked(tab)
      PROVE  TypesFit' /\ Calm' /\ PhaseKnown' /\ PauseKnown' /\ TabsFollow' /\ (open' = "app" => screen' = "app")
  <2>1. inbox' = Append(inbox, Event("focusTab", tab)) /\ PageRests
        /\ UNCHANGED <<phase, calls, drops, queue, proposals, deals, paused, owed>>
    BY <1>5 DEF NotificationClicked, PageRests, page
  <2>. QED BY <2>1, EventKeeps
<1>6. ASSUME NEW kind \in Badges, Broadcast(kind)
      PROVE  TypesFit' /\ Calm' /\ PhaseKnown' /\ PauseKnown' /\ TabsFollow' /\ (open' = "app" => screen' = "app")
  <2>1. inbox' = Append(inbox, Event(kind, None)) /\ PageRests /\ owed' = owed \ {kind}
        /\ UNCHANGED <<phase, calls, drops, queue, proposals, deals, paused>>
    BY <1>6 DEF Broadcast, PageRests, page
  <2>2. kind # "status"
    BY DEF Badges, Tabs
  <2>. QED BY <2>1, <2>2, EventKeeps
<1>. QED BY <1>2, <1>3, <1>4, <1>5, <1>6 DEF Arrivals

\* The connection has been interrupted: the page will see in which phase it is.
LEMMA LossKeeps ==
  ASSUME SettleInv, Behind, phase' \in Phases, drops' \in Nat \ {0},
         queue' \subseteq Decisions, proposals' \subseteq Proposals, deals' \subseteq Deals, paused' \in BOOLEAN,
         \A m : Has(inbox', m) => Has(inbox, m) \/ MessageOk(m),
         \A told : Settles(PhaseKey, inbox', told, phase'),
         phase' # "ready" \/ (PauseFresh => PauseFresh')
  PROVE  TypesFit' /\ Calm' /\ PhaseKnown' /\ PauseKnown' /\ TabsFollow' /\ (open' = "app" => screen' = "app")
<1>1. /\ TypesFit /\ Calm /\ PhaseKnown /\ PauseKnown /\ TabsFollow /\ (open = "app" => screen = "app")
  BY DEF SettleInv
<1>2. drops' \in Nat /\ drops' # 0
  OBVIOUS
<1>3. TypesFit' /\ Calm'
  BY <1>1, <1>2, BehindTypes
<1>4. PhaseFresh'
  BY DEF PhaseFresh
<1>. QED BY <1>1, <1>2, <1>3, <1>4, BehindKeeps

\* The answers of the calls that failed with the port.
LEMMA FailedHas ==
  ASSUME NEW s, IsRow(s), NEW why
  PROVE  /\ \A m : Has(FailAll(s, why), m) => \E c : Has(s, c) /\ m = Failed(c, why)
         /\ \A c : Has(s, c) => Has(FailAll(s, why), Failed(c, why))
BY FailedPlaces DEF Has

LEMMA FailedFacts ==
  ASSUME NEW c, NEW why
  PROVE  LET m == Failed(c, why)
         IN  m.kind = "answer" /\ m.call = c /\ m.ok = FALSE
BY DEF Failed, Answer

LEMMA FailedQuiet ==
  ASSUME NEW c, c.ask \notin Local
  PROVE  LET m == Failed(c, None)
         IN  MessageOk(m) /\ Says(PhaseKey, m) = {} /\ Says(SeenKey, m) = {}
<1>. DEFINE m == Failed(c, None)
<1>1. m.kind = "answer" /\ m.call = c /\ m.ok = FALSE /\ m.why = None
  BY DEF Failed, Answer
<1>. HIDE DEF m
<1>2. c.ask \notin {"status", "reconnect", "queue"}
  BY DEF Local
<1>3. Says(PhaseKey, m) = {} /\ Says(SeenKey, m) = {}
  BY <1>1, <1>2 DEF Says, Asks, AlsoTells, PhaseKey, SeenKey, Key
<1>. QED BY <1>1, <1>2, <1>3 DEF MessageOk, m

\* A port is gone: the page is told so, and what waits for the host fails.
LEMMA PortGoneFacts ==
  ASSUME IsRow(calls), IsRow(inbox), NEW p, NEW cs, NEW answers, PortGone(p, cs, answers), IsRow(cs), IsRow(answers),
         \A c : Has(cs, c) => Has(calls, c),
         \A c : Has(calls, c) => Has(cs, c) \/ \E m : Has(answers, m) /\ m.call = c,
         \A m : Has(answers, m) => m.kind = "answer" /\ Has(calls, m.call)
  PROVE  /\ phase' = p /\ IsRow(inbox') /\ IsRow(calls')
         /\ \A c : c \in Pending' <=> c \in Pending
         /\ \A m : Has(inbox, m) => Has(inbox', m)
         /\ \A m : Has(inbox', m) => \/ Has(inbox, m) \/ m = Event("status", p) \/ Has(answers, m)
                                     \/ \E c : c.ask \notin Local /\ m = Failed(c, None)
         /\ \A k \in {PhaseKey, SeenKey} : \A told :
              (\A m : Has(answers, m) => Says(k, m) \subseteq {p}) => Settles(k, inbox', told, p)
<1>. DEFINE own == {i \in DOMAIN cs : cs[i].ask \in Local}
            others == DOMAIN cs \ own
            kept == Only(cs, own)
            lost == Only(cs, others)
            n == Event("status", p)
            first == Append(inbox, n)
            bad == FailAll(lost, None)
<1>1. phase' = p /\ calls' = kept /\ inbox' = first \o bad \o answers
  BY DEF PortGone
<1>2. n.kind = "event" /\ n.name = "status" /\ n.value = p
  BY DEF Event
<1>3. own \subseteq DOMAIN cs /\ others \subseteq DOMAIN cs
  OBVIOUS
<1>4. /\ IsRow(kept) /\ IsRow(lost)
      /\ \A i \in DOMAIN kept : \E j \in own : kept[i] = cs[j]
      /\ \A j \in own : \E i \in DOMAIN kept : kept[i] = cs[j]
      /\ \A i \in DOMAIN lost : \E j \in others : lost[i] = cs[j]
      /\ \A j \in others : \E i \in DOMAIN lost : lost[i] = cs[j]
  <2>. HIDE DEF own, others
  <2>. QED BY <1>3, OnlyPlaces
<1>5. \A j \in DOMAIN cs : j \in own \/ (j \in others /\ cs[j].ask \notin Local)
  OBVIOUS
<1>6. \A j \in others : cs[j].ask \notin Local
  OBVIOUS
<1>. HIDE DEF own, others, kept, lost, n
<1>7. \A c : Has(cs, c) <=> Has(kept, c) \/ Has(lost, c)
  BY <1>3, <1>4, <1>5 DEF Has
<1>8. \A c : Has(lost, c) => c.ask \notin Local
  BY <1>4, <1>6 DEF Has
<1>9. IsRow(bad) /\ IsRow(first) /\ (\A m : Has(first, m) <=> Has(inbox, m) \/ m = n)
  BY <1>4, FailedPlaces, AppendedHas, Appended
<1>10. /\ \A m : Has(bad, m) => \E c : Has(lost, c) /\ m = Failed(c, None)
       /\ \A c : Has(lost, c) => Has(bad, Failed(c, None))
  BY <1>4, FailedHas
<1>. HIDE DEF first, bad
<1>11. /\ IsRow(first \o bad) /\ IsRow(inbox')
       /\ \A m : Has(inbox', m) <=> Has(first, m) \/ Has(bad, m) \/ Has(answers, m)
  <2>1. IsRow(first \o bad) /\ \A m : Has(first \o bad, m) <=> Has(first, m) \/ Has(bad, m)
    BY <1>9, Joined, JoinedHas
  <2>. QED BY <1>1, <2>1, Joined, JoinedHas
<1>12. ASSUME NEW c \in Pending PROVE c \in Pending'
  <2>1. CASE \E m : Has(inbox, m) /\ m.kind = "answer" /\ m.call = c
    BY <1>9, <1>11, <2>1, PendingHasNext
  <2>2. CASE Has(kept, c)
    BY <1>1, <2>2, PendingHasNext
  <2>3. CASE Has(lost, c)
    <3>1. Has(inbox', Failed(c, None)) /\ Failed(c, None).kind = "answer" /\ Failed(c, None).call = c
      BY <1>10, <1>11, <2>3, FailedFacts
    <3>. QED BY <3>1, PendingHasNext
  <2>4. ASSUME NEW m, Has(answers, m), m.call = c PROVE c \in Pending'
    BY <1>11, <2>4, PendingHasNext
  <2>. QED BY <1>7, <1>12, <2>1, <2>2, <2>3, <2>4, PendingHas
<1>13. ASSUME NEW c \in Pending' PROVE c \in Pending
  <2>1. CASE Has(kept, c)
    BY <1>7, <2>1, PendingHas
  <2>2. ASSUME NEW m, Has(inbox', m), m.kind = "answer", m.call = c PROVE c \in Pending
    <3>1. CASE Has(first, m)
      BY <1>2, <1>9, <2>2, <3>1, PendingHas
    <3>2. CASE Has(bad, m)
      <4>1. PICK d : Has(lost, d) /\ m = Failed(d, None)
        BY <1>10, <3>2
      <4>2. d = c
        BY <2>2, <4>1, FailedFacts
      <4>. QED BY <1>7, <4>1, <4>2, PendingHas
    <3>3. CASE Has(answers, m)
      BY <2>2, <3>3, PendingHas
    <3>. QED BY <1>11, <2>2, <3>1, <3>2, <3>3
  <2>. QED BY <1>1, <1>13, <2>1, <2>2, PendingHasNext
<1>14. ASSUME NEW k \in {PhaseKey, SeenKey}, NEW told, \A m : Has(answers, m) => Says(k, m) \subseteq {p}
       PROVE  Settles(k, inbox', told, p)
  <2>1. Says(k, n) = {p}
    BY <1>2 DEF Says, PhaseKey, SeenKey, Key
  <2>2. Settles(k, first, told, p)
    BY <2>1, SettlesTold DEF first
  <2>3. \A i \in DOMAIN bad : Says(k, bad[i]) = {}
    <3>1. \A m : Has(bad, m) => Says(k, m) = {}
      BY <1>8, <1>10, FailedQuiet
    <3>. QED BY <3>1 DEF Has
  <2>4. Settles(k, first \o bad, told, p)
    BY <1>9, <2>2, <2>3, SettlesQuiet
  <2>5. \A i \in DOMAIN answers : Says(k, answers[i]) \subseteq {p}
    BY <1>14 DEF Has
  <2>. QED BY <1>1, <1>11, <2>4, <2>5, SettlesQuiet
<1>15. ASSUME NEW m, Has(inbox', m)
       PROVE  \/ Has(inbox, m) \/ m = n \/ Has(answers, m)
              \/ \E c : c.ask \notin Local /\ m = Failed(c, None)
  BY <1>8, <1>9, <1>10, <1>11, <1>15
<1>. QED BY <1>1, <1>4, <1>9, <1>11, <1>12, <1>13, <1>14, <1>15 DEF n

LEMMA PortGoneKeeps ==
  ASSUME SettleInv, PageRests, NEW p \in Phases, NEW cs, NEW answers, PortGone(p, cs, answers),
         IsRow(cs), IsRow(answers), p # "ready", drops' \in Nat \ {0},
         queue' \subseteq Decisions, proposals' \subseteq Proposals, deals' \subseteq Deals, paused' \in BOOLEAN,
         \A c : Has(cs, c) => Has(calls, c),
         \A c : Has(calls, c) => Has(cs, c) \/ \E m : Has(answers, m) /\ m.call = c,
         \A m : Has(answers, m) => /\ m.kind = "answer" /\ Has(calls, m.call)
                                   /\ MessageOk(m) /\ Says(PhaseKey, m) \subseteq {p}
  PROVE  TypesFit' /\ Calm' /\ PhaseKnown' /\ PauseKnown' /\ TabsFollow' /\ (open' = "app" => screen' = "app")
<1>1. IsRow(calls) /\ IsRow(inbox)
  BY FormedCalls DEF SettleInv, Formed
<1>2. /\ phase' = p /\ IsRow(inbox')
      /\ \A c : c \in Pending' <=> c \in Pending
      /\ \A m : Has(inbox, m) => Has(inbox', m)
      /\ \A m : Has(inbox', m) => \/ Has(inbox, m) \/ m = Event("status", p) \/ Has(answers, m)
                                  \/ \E c : c.ask \notin Local /\ m = Failed(c, None)
      /\ \A told : Settles(PhaseKey, inbox', told, p)
  BY <1>1, PortGoneFacts
<1>3. Behind
  BY <1>2 DEF Behind, PageRests, Succeeds
<1>4. MessageOk(Event("status", p))
  <2>1. Event("status", p).kind = "event" /\ Event("status", p).name = "status" /\ Event("status", p).value = p
    BY DEF Event
  <2>. QED BY <2>1, EventsTell DEF MessageOk
<1>5. \A m : Has(inbox', m) => Has(inbox, m) \/ MessageOk(m)
  BY <1>2, <1>4, FailedQuiet
<1>. QED BY <1>2, <1>3, <1>5, LossKeeps

LEMMA LinkKeeps ==
  ASSUME SettleInv, PageRests, UNCHANGED world, LinkSteps
  PROVE  TypesFit' /\ Calm' /\ PhaseKnown' /\ PauseKnown' /\ TabsFollow' /\ (open' = "app" => screen' = "app")
<1>1. /\ TypesFit /\ Calm /\ Formed(calls, inbox) /\ IsRow(calls) /\ IsRow(inbox)
      /\ drops \in Nat /\ phase \in Phases
  BY FormedCalls DEF SettleInv, Formed, TypesFit
<1>2. /\ queue' \subseteq Decisions /\ proposals' \subseteq Proposals /\ deals' \subseteq Deals /\ paused' \in BOOLEAN
      /\ UNCHANGED <<queue, proposals, deals, paused, owed>> /\ \A t : UNCHANGED Truth(t)
  BY <1>1 DEF TypesFit, world, Truth
<1>3. IsRow(<<>>) /\ \A m : ~Has(<<>>, m)
  BY NewNone DEF NewFits
<1>4. CASE Drop
  <2>1. PortGone("disconnected", calls, <<>>) /\ drops' \in Nat \ {0}
    BY <1>1, <1>4 DEF Drop
  <2>2. "disconnected" \in Phases
    BY DEF Phases
  <2>. QED BY <1>1, <1>2, <1>3, <2>1, <2>2, PortGoneKeeps
<1>5. ASSUME NEW p \in Phases, inbox' = Append(inbox, Event("status", p)), UNCHANGED calls,
             phase' = p, drops' \in Nat \ {0}
      PROVE  TypesFit' /\ Calm' /\ PhaseKnown' /\ PauseKnown' /\ TabsFollow' /\ (open' = "app" => screen' = "app")
  <2>. DEFINE n == Event("status", p)
  <2>1. n.kind = "event" /\ n.name = "status" /\ n.value = p /\ inbox' = Append(inbox, n)
    BY <1>5 DEF Event
  <2>2. Behind /\ \A m : Has(inbox', m) <=> Has(inbox, m) \/ m = n
    BY <1>1, <1>5, EventBehind
  <2>. HIDE DEF n
  <2>3. Says(PhaseKey, n) = {p} /\ Says(PauseKey, n) = {}
    BY <2>1, EventsTell
  <2>4. MessageOk(n)
    BY <1>5, <2>1, <2>3 DEF MessageOk
  <2>5. \A told : Settles(PhaseKey, inbox', told, phase')
    BY <1>1, <1>5, <2>1, <2>3, SettlesTold
  <2>6. Fresh(PauseKey, calls, inbox, {header.pause}, paused) => Fresh(PauseKey, calls', inbox', {header.pause}, paused)
    BY <1>1, <1>5, <2>1, <2>3, FreshAppended
  <2>7. PauseFresh => PauseFresh'
    BY <1>2, <2>6 DEF PauseFresh, PageRests
  <2>. QED BY <1>2, <1>5, <2>2, <2>4, <2>5, <2>7, LossKeeps
<1>6. CASE Silence
  <2>1. drops' \in Nat \ {0} /\ "disconnected" \in Phases
    BY <1>1, <1>6 DEF Silence, Phases
  <2>. QED BY <1>5, <1>6, <2>1 DEF Silence
<1>7. CASE Connected
  <2>1. drops' \in Nat \ {0} /\ "ready" \in Phases
    BY <1>1, <1>7 DEF Connected, Phases, Calm
  <2>. QED BY <1>5, <1>7, <2>1 DEF Connected
<1>8. ASSUME NEW i \in DOMAIN calls, ServeReconnect(i)
      PROVE  TypesFit' /\ Calm' /\ PhaseKnown' /\ PauseKnown' /\ TabsFollow' /\ (open' = "app" => screen' = "app")
  <2>. DEFINE n  == Answer(calls[i], TRUE, "connecting")
              cs == RemoveAt(calls, i)
  <2>1. /\ calls[i].ask = "reconnect" /\ PortGone("connecting", cs, <<n>>) /\ UNCHANGED drops
        /\ n.kind = "answer" /\ n.call = calls[i] /\ n.value = "connecting"
    BY <1>8 DEF ServeReconnect, Answer
  <2>2. Has(calls, calls[i])
    BY DEF Has
  <2>3. drops' \in Nat \ {0}
    BY <1>1, <2>1, <2>2, PendingHas DEF Calm
  <2>. HIDE DEF n
  <2>4. MessageOk(n) /\ Says(PhaseKey, n) = {"connecting"}
    <3>1. Says(PhaseKey, n) = {"connecting"}
      BY <2>1 DEF Says, Asks, Tells, PhaseKey, Key
    <3>2. \A t \in Badges : Lists[t] # "reconnect"
      BY DEF Lists, Badges, Tabs
    <3>. QED BY <2>1, <3>1, <3>2 DEF MessageOk, Phases
  <2>5. IsRow(<<n>>) /\ \A m : Has(<<n>>, m) <=> m = n
    BY RowOfOne
  <2>6. IsRow(cs) /\ (\A c : Has(cs, c) => Has(calls, c)) /\ \A c : Has(calls, c) => c = calls[i] \/ Has(cs, c)
    BY <1>1, Removed, RemovedHas
  <2>. HIDE DEF cs
  <2>7. "connecting" \in Phases
    BY DEF Phases
  <2>8. \A m : Has(<<n>>, m) => /\ m.kind = "answer" /\ Has(calls, m.call)
                                /\ MessageOk(m) /\ Says(PhaseKey, m) \subseteq {"connecting"}
    BY <2>1, <2>2, <2>4, <2>5
  <2>9. \A c : Has(calls, c) => Has(cs, c) \/ \E m : Has(<<n>>, m) /\ m.call = c
    BY <2>1, <2>5, <2>6
  <2>. QED BY <1>2, <2>1, <2>3, <2>5, <2>6, <2>7, <2>8, <2>9, PortGoneKeeps
<1>9. ASSUME NEW i \in DOMAIN calls, ServeStatus(i)
      PROVE  TypesFit' /\ Calm' /\ PhaseKnown' /\ PauseKnown' /\ TabsFollow' /\ (open' = "app" => screen' = "app")
  <2>. DEFINE n == Answer(calls[i], TRUE, phase)
  <2>1. /\ calls[i].ask = "status" /\ Served(i, TRUE, phase)
        /\ n.kind = "answer" /\ n.call = calls[i] /\ n.value = phase
    BY <1>9 DEF ServeStatus, Answer
  <2>. HIDE DEF n
  <2>2. Says(PhaseKey, n) \subseteq {phase}
    BY <2>1 DEF Says, Tells, AlsoTells, PhaseKey, Key
  <2>3. \A t \in Badges : n.call.ask # Lists[t]
    BY <2>1 DEF Lists, Badges, Tabs
  <2>4. Says(PauseKey, n) = {} /\ \A t \in Badges : Says(Key("badge", t), n) = {} /\ Says(Key("list", t), n) = {}
    BY <2>1, <2>3, AnswersTell
  <2>5. MessageOk(n)
    BY <1>1, <2>1, <2>2, <2>3 DEF MessageOk
  <2>. QED BY <1>2, <2>1, <2>2, <2>4, <2>5, ServedKeeps DEF n
<1>. QED BY <1>4, <1>6, <1>7, <1>8, <1>9 DEF LinkSteps

\* The host did it and died before its answer was read.
LEMMA LostKeeps ==
  ASSUME SettleInv, PageRests, NEW i \in DOMAIN calls, DoneAndLost(i)
  PROVE  TypesFit' /\ Calm' /\ PhaseKnown' /\ PauseKnown' /\ TabsFollow' /\ (open' = "app" => screen' = "app")
<1>1. TypesFit /\ IsRow(calls) /\ CallOk(calls[i]) /\ drops \in Nat
  BY FormedCalls, PendingHas DEF SettleInv, TypesFit, Formed, Has
<1>2. /\ calls[i].ask \in Changing /\ HostDoes(calls[i]) /\ PortGone("disconnected", calls, <<>>)
      /\ drops' \in Nat \ {0} /\ "disconnected" \in Phases
  BY <1>1 DEF DoneAndLost, Drop, Phases
<1>3. queue' \subseteq Decisions /\ proposals' \subseteq Proposals /\ deals' \subseteq Deals /\ paused' \in BOOLEAN
  BY <1>1, <1>2, HostFacts
<1>4. IsRow(<<>>) /\ \A m : ~Has(<<>>, m)
  BY NewNone DEF NewFits
<1>. QED BY <1>1, <1>2, <1>3, <1>4, PortGoneKeeps

\* The walkthrough begins.
LEMMA WalkthroughKeeps ==
  ASSUME SettleInv, open \in {"dashboard", "app", "panel"}, open # "panel", UNCHANGED open,
         screen = "boot", screen' = "step1", UNCHANGED <<link, pane, cards, counts, header, world>>
  PROVE  TypesFit' /\ Calm' /\ PhaseKnown' /\ PauseKnown' /\ TabsFollow' /\ (open' = "app" => screen' = "app")
<1>1. /\ TypesFit /\ Calm /\ PhaseKnown /\ open = "dashboard"
      /\ UNCHANGED <<phase, calls, inbox, drops, queue, proposals, deals, paused>> /\ UNCHANGED Pending
  BY DEF SettleInv, link, world, Pending, Replies
<1>2. TypesFit' /\ Calm'
  BY <1>1 DEF TypesFit, Calm
<1>3. PhaseKnown' /\ PauseKnown'
  BY <1>1 DEF PhaseKnown, PauseKnown
<1>4. Starting'
  BY StepScreens DEF Starting
<1>. QED BY <1>1, <1>2, <1>3, <1>4 DEF TabsFollow

LEMMA SettleNext ==
  ASSUME SettleInv, open \in {"dashboard", "app", "panel"}, open # "panel", UNCHANGED open, [Next]_vars
  PROVE  SettleInv'
<1>0. FilterInv /\ TypesFit /\ Calm /\ PhaseKnown /\ PauseKnown /\ TabsFollow /\ (open = "app" => screen = "app")
  BY DEF SettleInv
<1>. DEFINE Kept == /\ TypesFit' /\ Calm' /\ PhaseKnown' /\ PauseKnown' /\ TabsFollow'
                    /\ open' = "app" => screen' = "app"
<1>1. FilterInv'
  BY <1>0, FilterNext
<1>. SUFFICES Kept
  BY <1>1 DEF SettleInv
<1>2. (\E in, new : TurnOk(in, new)) => Kept
  BY TurnKeeps
<1>3. CASE EnterApp \/ OnboardStep \/ UserActs \/ PageHandles \/ TimerFires
  <2>1. \E in, new : TurnOk(in, new)
    BY <1>0, <1>3, EnteringAlone, WalkingAlone, ClicksTurn, HandlersTurn, TimerAlone
  <2>. QED BY <1>2, <2>1
<1>4. CASE screen = "boot" /\ screen' = "step1" /\ UNCHANGED <<link, pane, cards, counts, header, world>>
  BY <1>4, WalkthroughKeeps
<1>5. CASE Arrivals
  BY <1>5, ArrivalsKeep
<1>6. CASE Serve /\ UNCHANGED page
  BY <1>6, ServeKeeps DEF PageRests, page
<1>7. ASSUME NEW i \in DOMAIN calls, DoneAndLost(i), UNCHANGED page PROVE Kept
  BY <1>7, LostKeeps DEF PageRests, page
<1>8. CASE LinkSteps /\ UNCHANGED <<page, world>>
  BY <1>8, LinkKeeps DEF PageRests, page
<1>9. CASE UNCHANGED vars
  <2>1. /\ UNCHANGED <<phase, calls, inbox, drops, screen, activeTab, pane, cards, counts, header>>
        /\ UNCHANGED <<queue, proposals, deals, paused, owed>>
    BY <1>9 DEF vars, link, page, world
  <2>2. UNCHANGED Pending
    BY <2>1 DEF Pending, Replies
  <2>3. \A t \in Badges : UNCHANGED <<BadgeFresh(t), ListFresh(t)>>
    BY <2>1, <2>2 DEF BadgeFresh, ListFresh, Coming, Truth, Listed, Shown
  <2>4. UNCHANGED <<Entering, Starting, Priming, LossSeen, AwaitsStatus>>
    BY <2>1, <2>2 DEF Entering, Starting, Priming, LossSeen, AwaitsStatus
  <2>5. TypesFit' /\ Calm' /\ PhaseKnown' /\ PauseKnown'
    BY <1>0, <2>1, <2>2, <2>4 DEF TypesFit, Calm, PhaseKnown, PauseKnown
  <2>6. TabsFollow'
    BY <1>0, <2>1, <2>3, <2>4 DEF TabsFollow, Badges, Tabs
  <2>. QED BY <1>0, <2>1, <2>5, <2>6
<1>10. CASE Boot
  BY <1>3, <1>4, <1>10 DEF Boot
<1>11. CASE FinishOnboarding
  BY <1>3, <1>11 DEF FinishOnboarding
<1>. QED BY <1>3, <1>5, <1>6, <1>7, <1>8, <1>9, <1>10, <1>11 DEF Next

\* Nothing is told and nothing is under way.
LEMMA Quiet ==
  ASSUME calls = <<>>, inbox = <<>>
  PROVE  /\ Pending = {} /\ (\A m : ~Has(inbox, m)) /\ ~AwaitsStatus
         /\ \A k, told, x : Settles(k, inbox, told, x) <=> told \subseteq {x}
         /\ \A k, told, x : Fresh(k, calls, inbox, told, x) <=> told \subseteq {x}
<1>1. DOMAIN calls = {} /\ DOMAIN inbox = {}
  <2>1. DOMAIN <<>> = {}
    BY NewNone DEF NewFits, Has
  <2>. QED BY <2>1
<1>2. Pending = {} /\ ~AwaitsStatus
  BY <1>1 DEF Pending, Replies, ToSet, AwaitsStatus
<1>. QED BY <1>1, <1>2 DEF Has, Settles, Fresh

LEMMA OpenedSettles ==
  ASSUME open = "dashboard", Opened
  PROVE  SettleInv
<1>1. FilterInv
  BY FilterInit DEF Opened, LinkInit, World
<1>2. /\ Pending = {} /\ (\A m : ~Has(inbox, m))
      /\ \A k, told, x : Fresh(k, calls, inbox, told, x) <=> told \subseteq {x}
  BY Quiet DEF Opened, LinkInit
<1>3. TypesFit
  <2>1. phase \in Phases /\ drops \in Nat
    BY DEF Opened, LinkInit, Phases
  <2>2. /\ queue \subseteq Decisions /\ proposals \subseteq Proposals /\ deals \subseteq Deals /\ paused \in BOOLEAN
        /\ cards = {} /\ DOMAIN counts = Badges
        /\ DOMAIN header = {"last", "banner", "pause"} /\ header.last = None
    BY DEF Opened, World
  <2>. QED BY <1>2, <2>1, <2>2 DEF TypesFit
<1>4. Calm
  BY <1>2 DEF Calm, Opened, LinkInit
<1>5. PhaseKnown /\ PauseKnown
  BY DEF PhaseKnown, PauseKnown, Opened
<1>6. TabsFollow
  <2>1. activeTab = "review" /\ \A t \in Badges : {counts[t]} \ {None} = {}
    BY DEF Opened
  <2>. QED BY <1>2, <2>1 DEF TabsFollow, BadgeFresh, Badges, Tabs
<1>. QED BY <1>1, <1>3, <1>4, <1>5, <1>6 DEF SettleInv

LEMMA RestingSettles ==
  ASSUME open = "app", Resting, drops \in Nat
  PROVE  SettleInv
<1>1. FilterInv
  BY FilterInit DEF Resting, World
<1>2. /\ Pending = {} /\ (\A m : ~Has(inbox, m))
      /\ \A k, told, x : Settles(k, inbox, told, x) <=> told \subseteq {x}
      /\ \A k, told, x : Fresh(k, calls, inbox, told, x) <=> told \subseteq {x}
  BY Quiet DEF Resting
<1>3. /\ phase = "ready" /\ screen = "app" /\ activeTab = "review" /\ paused = FALSE
      /\ DOMAIN header = {"last", "banner", "pause"} /\ header.last = "ready" /\ header.banner = FALSE /\ header.pause = FALSE
      /\ DOMAIN counts = Badges /\ \A t \in Badges : counts[t] = Cardinality(Truth(t))
      /\ queue \subseteq Decisions /\ proposals \subseteq Proposals /\ deals \subseteq Deals
  BY DEF Resting, World
<1>4. \A c \in cards : CardOk(c)
  BY DEF Resting, World, CardOk, Items, Badges, Tabs
<1>5. TypesFit /\ Calm
  BY <1>2, <1>3, <1>4 DEF TypesFit, Calm, Phases
<1>6. PhaseKnown /\ PauseKnown
  <2>1. header.last \notin {None} /\ {header.last} \ {None} \subseteq {phase}
    BY <1>3, LinkAssumption DEF Phases
  <2>2. PhaseKnown
    BY <1>2, <1>3, <2>1 DEF PhaseKnown
  <2>3. {header.pause} \subseteq {paused}
    BY <1>3
  <2>. QED BY <1>2, <2>2, <2>3 DEF PauseKnown
<1>7. TabsFollow
  <2>1. \A t \in Badges : {counts[t]} \ {None} \subseteq {Cardinality(Truth(t))}
    BY <1>3
  <2>. QED BY <1>2, <1>3, <2>1 DEF TabsFollow, BadgeFresh, Badges, Tabs
<1>. QED BY <1>1, <1>3, <1>5, <1>6, <1>7 DEF SettleInv

\* At rest what was told last is what is shown.
LEMMA SettleImplied ==
  ASSUME SettleInv, open \in {"dashboard", "app"}
  PROVE  DashboardSettles /\ (open = "app" => ReviewBadgeSettles)
<1>. SUFFICES ASSUME Rest
              PROVE  BadgesSettle /\ ListsSettle /\ HeaderSettles /\ (open = "app" => BadgeSettles("review"))
  BY DEF DashboardSettles, ReviewBadgeSettles
<1>1. /\ Pending = {} /\ (\A m : ~Has(inbox, m)) /\ ~AwaitsStatus
      /\ \A k, told, x : Settles(k, inbox, told, x) <=> told \subseteq {x}
      /\ \A k, told, x : Fresh(k, calls, inbox, told, x) <=> told \subseteq {x}
  BY Quiet DEF Rest
<1>2. screen = "app" /\ ~Entering /\ ~Starting /\ ~Priming /\ (\A t : ~Coming(t))
  BY <1>1, StepScreens DEF Rest, Entering, Starting, Priming, Coming
<1>3. /\ PhaseKnown /\ PauseKnown /\ TabsFollow
  BY DEF SettleInv
<1>4. ASSUME NEW t \in Badges, BadgeFresh(t) PROVE BadgeSettles(t)
  BY <1>1, <1>2, <1>4 DEF BadgeFresh, BadgeSettles
<1>5. BadgesSettle /\ (open = "app" => BadgeSettles("review"))
  <2>1. CASE drops # 0
    BY <2>1 DEF BadgesSettle, BadgeSettles
  <2>2. CASE drops = 0
    BY <1>2, <1>3, <1>4, <2>2 DEF BadgesSettle, TabsFollow, Badges, Tabs
  <2>. QED BY <2>1, <2>2
<1>6. ListsSettle
  <2>1. SUFFICES ASSUME NEW t \in {"proposals", "followups"}, drops = 0, activeTab = t, pane.of = t
                 PROVE  {c.item : c \in Shown} = Truth(t)
    BY DEF ListsSettle
  <2>2. ListFresh(t)
    BY <1>2, <1>3, <2>1 DEF TabsFollow
  <2>3. Listed(t) \subseteq {Truth(t)}
    BY <1>1, <1>2, <2>2 DEF ListFresh
  <2>. QED BY <2>1, <2>3 DEF Listed
<1>7. HeaderSettles
  <2>1. {header.last} \ {None} \subseteq {phase} /\ (header.banner => header.last \notin {None, "ready"})
    BY <1>1, <1>2, <1>3 DEF PhaseKnown
  <2>2. LossSeen \/ {header.pause} \subseteq {paused}
    BY <1>1, <1>2, <1>3 DEF PauseKnown
  <2>. QED BY <1>1, <2>1, <2>2 DEF HeaderSettles, LossSeen
<1>. QED BY <1>5, <1>6, <1>7

-----------------------------------------------------------------------------
(* The panel speaks over the same link.                                    *)
LEMMA SameLink ==
  /\ \A cs, in, new : P!Send(cs, in, new) <=> Send(cs, in, new)
  /\ \A ask : P!Call(ask) = Call(ask)
  /\ \A i, ok, value : P!Served(i, ok, value) <=> Served(i, ok, value)
  /\ P!LinkSteps <=> LinkSteps
  /\ P!LinkInit <=> LinkInit
<1>1. \A S : P!Cardinality(S) = Cardinality(S)
  BY DEF P!Cardinality, Cardinality
<1>2. \A s, i : P!RemoveAt(s, i) = RemoveAt(s, i)
  BY DEF P!RemoveAt, RemoveAt
<1>3. \A s, K : P!Only(s, K) = Only(s, K)
  <2>1. \A K, n : P!Nth(K, n) = Nth(K, n)
    BY DEF P!Nth, Nth, P!Cardinality, Cardinality
  <2>. QED BY <1>1, <2>1 DEF P!Only, Only
<1>4. \A c, ok, value : P!Answer(c, ok, value) = Answer(c, ok, value)
  BY DEF P!Answer, Answer
<1>5. \A name, value : P!Event(name, value) = Event(name, value)
  BY DEF P!Event, Event
<1>6. \A s, why : P!FailAll(s, why) = FailAll(s, why)
  BY DEF P!FailAll, FailAll, P!Answer, Answer
<1>7. P!Local = Local /\ \A c : P!Accepts(c) <=> Accepts(c)
  BY DEF P!Accepts, Accepts, P!Local, Local, P!Posted, Posted
<1>8. ASSUME NEW cs, NEW in, NEW new PROVE P!Send(cs, in, new) <=> Send(cs, in, new)
  BY <1>3, <1>6, <1>7 DEF P!Send, Send
<1>9. \A ask : P!Call(ask) = Call(ask)
  BY DEF P!Call, Call
<1>10. \A i, ok, value : P!Served(i, ok, value) <=> Served(i, ok, value)
  BY <1>2, <1>4 DEF P!Served, Served
<1>11. ASSUME NEW p, NEW cs, NEW answers PROVE P!PortGone(p, cs, answers) <=> PortGone(p, cs, answers)
  BY <1>3, <1>5, <1>6, <1>7 DEF P!PortGone, PortGone
<1>12. P!LinkSteps <=> LinkSteps
  <2>1. P!Drop <=> Drop
    BY <1>11 DEF P!Drop, Drop
  <2>2. P!Silence <=> Silence
    BY <1>5, <1>7 DEF P!Silence, Silence
  <2>3. P!Connected <=> Connected
    BY <1>5 DEF P!Connected, Connected
  <2>4. \A i : P!ServeReconnect(i) <=> ServeReconnect(i)
    BY <1>2, <1>4, <1>11 DEF P!ServeReconnect, ServeReconnect
  <2>5. \A i : P!ServeStatus(i) <=> ServeStatus(i)
    BY <1>10 DEF P!ServeStatus, ServeStatus
  <2>. QED BY <2>1, <2>2, <2>3, <2>4, <2>5 DEF P!LinkSteps, LinkSteps
<1>13. P!LinkInit <=> LinkInit
  BY DEF P!LinkInit, LinkInit
<1>. QED BY <1>8, <1>9, <1>10, <1>12, <1>13

\* A call of one of these kinds is under way.
UnderWay(asks) == \E c \in Pending : c.ask \in asks

Informs(m) ==
  /\ m.kind \in {"answer", "event"}
  /\ m.kind = "event" => m.name = "status" /\ m.value \in Phases
  /\ m.kind = "answer" => /\ m.call.ask = "status" => m.value \in Phases
                          /\ m.call.ask = "reconnect" => m.value = "connecting"
                          /\ m.call.ask = "classify" => m.why \in {None} \cup (Phases \ {"ready"})

\* The panel knows the phase, or will be told; it waits as long as it says so.
PanelInv ==
  /\ IsRow(calls) /\ IsRow(inbox) /\ phase \in Phases /\ (\A m : Has(inbox, m) => Informs(m))
  /\ DOMAIN body = {"card", "n", "busy", "rows"}
  /\ (\E i \in DOMAIN calls : calls[i].ask = "status") \/ Settles(SeenKey, inbox, {seen} \ {None}, phase)
  /\ seen = None => UnderWay({"status"})
  /\ body.card = "empty" => UnderWay({"status", "message"})
  /\ body.card = "loading" => UnderWay({"classify"})
  /\ body.card = "connection" /\ seen = "ready" => UnderWay({"status", "message"})

\* What the panel asks, it gets told or waits for.
SendAdds(in, new) ==
  \E bad : /\ IsRow(bad) /\ inbox' = in \o bad
           /\ \A m : Has(bad, m) => \E c : Has(new, c) /\ Refused(m, c)

LEMMA SendHas ==
  ASSUME IsRow(calls), NEW in, IsRow(in), NEW new, IsRow(new), Send(calls, in, new)
  PROVE  /\ IsRow(calls') /\ IsRow(inbox') /\ UNCHANGED phase
         /\ \A c : Has(calls, c) => Has(calls', c)
         /\ \A c : Has(calls', c) => Has(calls, c) \/ Has(new, c)
         /\ \A m : Has(in, m) => Has(inbox', m)
         /\ \A m : Has(inbox', m) => Has(in, m) \/ \E c : Has(new, c) /\ Refused(m, c)
         /\ \A c : Has(new, c) => Has(calls', c) \/ \E m : Has(inbox', m) /\ Refused(m, c)
         /\ SendAdds(in, new)
<1>1. PICK good, bad : Sent(calls, in, new, good, bad)
  BY SendEffect
<1>2. /\ IsRow(good) /\ IsRow(bad) /\ calls' = calls \o good /\ inbox' = in \o bad
      /\ \A i \in DOMAIN good : \E j \in DOMAIN new : good[i] = new[j]
      /\ \A i \in DOMAIN bad : \E j \in DOMAIN new : Refused(bad[i], new[j])
      /\ \A j \in DOMAIN new : \/ \E i \in DOMAIN good : good[i] = new[j]
                               \/ \E i \in DOMAIN bad : Refused(bad[i], new[j])
  BY <1>1 DEF Sent
<1>3. /\ IsRow(calls') /\ IsRow(inbox') /\ UNCHANGED phase
      /\ \A c : Has(calls', c) <=> Has(calls, c) \/ Has(good, c)
      /\ \A m : Has(inbox', m) <=> Has(in, m) \/ Has(bad, m)
  <2>1. IsRow(calls \o good) /\ \A c : Has(calls \o good, c) <=> Has(calls, c) \/ Has(good, c)
    BY <1>2, Joined, JoinedHas
  <2>2. IsRow(in \o bad) /\ \A m : Has(in \o bad, m) <=> Has(in, m) \/ Has(bad, m)
    BY <1>2, Joined, JoinedHas
  <2>3. UNCHANGED phase
    BY DEF Send
  <2>. HIDE DEF Has, IsRow
  <2>. QED BY <1>2, <2>1, <2>2, <2>3
<1>4. /\ \A c : Has(good, c) => Has(new, c)
      /\ \A m : Has(bad, m) => \E c : Has(new, c) /\ Refused(m, c)
      /\ \A c : Has(new, c) => Has(good, c) \/ \E m : Has(bad, m) /\ Refused(m, c)
  BY <1>2 DEF Has
<1>5. SendAdds(in, new)
  BY <1>2, <1>4 DEF SendAdds
<1>. QED BY <1>3, <1>4, <1>5

\* A turn of the panel: it takes a message, or runs by itself, and asks.
PanelTurn(in, new) ==
  /\ in = inbox \/ (inbox # <<>> /\ in = Tail(inbox))
  /\ IsRow(new) /\ Send(calls, in, new)
  /\ \A c : Has(new, c) => c.ask = "classify" \/ c.ask \in Local \cup Posted
  /\ \/ \E m : Taken(in, m) /\ Says(SeenKey, m) = {seen'}
     \/ (\A m : Taken(in, m) => Says(SeenKey, m) = {}) /\ seen' = seen
  /\ DOMAIN body' = {"card", "n", "busy", "rows"}
  /\ \/ body'.card \in {"nomessage", "error", "verdict"}
     \/ body'.card = "loading" /\ \E c : Has(new, c) /\ c.ask = "classify"
     \/ body'.card = "connection" /\ seen' # "ready"
     \/ /\ body'.card = body.card
        /\ \A m : Taken(in, m) /\ m.kind = "answer" =>
             /\ m.call.ask \notin {"message", "classify"}
             /\ m.call.ask = "status" => \E c : Has(new, c) /\ c.ask = "message"
        /\ \/ seen' # "ready" \/ seen \in {None, "ready"}
           \/ \E c : Has(new, c) /\ c.ask \in {"status", "message"}

LEMMA PanelTurnKeeps ==
  ASSUME PanelInv, NEW in, NEW new, PanelTurn(in, new)
  PROVE  PanelInv'
<1>. USE DEF PanelTurn
<1>1. IsRow(calls) /\ IsRow(inbox) /\ phase \in Phases /\ \A m : Has(inbox, m) => Informs(m)
  BY DEF PanelInv
<1>2. IsRow(in) /\ \A m : Has(inbox, m) <=> Has(in, m) \/ Taken(in, m)
  <2>1. CASE in = inbox
    BY <1>1, <2>1, HeadAndTail DEF Taken
  <2>2. CASE inbox # <<>> /\ in = Tail(inbox)
    BY <1>1, <2>2, HeadAndTail DEF Taken
  <2>. QED BY <2>1, <2>2
<1>3. /\ IsRow(calls') /\ IsRow(inbox') /\ UNCHANGED phase
      /\ \A c : Has(calls, c) => Has(calls', c)
      /\ \A c : Has(calls', c) => Has(calls, c) \/ Has(new, c)
      /\ \A m : Has(in, m) => Has(inbox', m)
      /\ \A m : Has(inbox', m) => Has(in, m) \/ \E c : Has(new, c) /\ Refused(m, c)
      /\ \A c : Has(new, c) => Has(calls', c) \/ \E m : Has(inbox', m) /\ Refused(m, c)
  BY <1>1, <1>2, SendHas
<1>4. ASSUME NEW m, NEW c, Has(new, c), Refused(m, c)
      PROVE  m.kind = "answer" /\ m.call = c /\ Informs(m) /\ Says(SeenKey, m) = {phase}
  <2>1. m.kind = "answer" /\ m.call = c /\ m.ok = FALSE /\ m.why = phase
    BY <1>4 DEF Refused, Failed, Answer
  <2>2. c.ask = "classify" /\ phase # "ready"
    BY <1>4 DEF Refused, Accepts
  <2>3. Says(SeenKey, m) = {phase}
    BY <1>1, <2>1, <2>2, LinkAssumption DEF Says, Asks, AlsoTells, Tells, SeenKey, Key
  <2>. QED BY <1>1, <2>1, <2>2, <2>3 DEF Informs
<1>5. \A m : Has(inbox', m) => Informs(m)
  BY <1>1, <1>2, <1>3, <1>4
<1>6. \A c : Has(new, c) => c \in Pending'
  BY <1>3, <1>4, PendingHasNext
<1>7. \A c \in Pending : c \in Pending' \/ \E m : Taken(in, m) /\ m.kind = "answer" /\ m.call = c
  BY <1>2, <1>3, PendingHas, PendingHasNext
<1>8. ASSUME NEW asks, UnderWay(asks), \A m : Taken(in, m) /\ m.kind = "answer" => m.call.ask \notin asks
      PROVE  UnderWay(asks)'
  BY <1>7, <1>8 DEF UnderWay
<1>9. (\E i \in DOMAIN calls' : calls'[i].ask = "status") \/ Settles(SeenKey, inbox', {seen'} \ {None}, phase')
  <2>1. CASE \E i \in DOMAIN calls : calls[i].ask = "status"
    <3>1. PICK c : Has(calls, c) /\ c.ask = "status"
      BY <2>1 DEF Has
    <3>. QED BY <1>3, <3>1 DEF Has
  <2>2. CASE Settles(SeenKey, inbox, {seen} \ {None}, phase)
    <3>1. Settles(SeenKey, in, {seen'} \ {None}, phase)
      <4>1. CASE inbox # <<>> /\ in = Tail(inbox)
        <5>1. \A m : Taken(in, m) <=> m = Head(inbox)
          BY <4>1 DEF Taken
        <5>2. {seen'} \ {None} \subseteq
                IF Says(SeenKey, Head(inbox)) = {} THEN {seen} \ {None} ELSE Says(SeenKey, Head(inbox))
          BY <5>1
        <5>. QED BY <1>1, <2>2, <4>1, <5>2, SettlesHandled
      <4>2. CASE in = inbox /\ ~(inbox # <<>> /\ in = Tail(inbox))
        BY <2>2, <4>2 DEF Taken
      <4>. QED BY <4>1, <4>2
    <3>2. PICK bad : /\ IsRow(bad) /\ inbox' = in \o bad
                     /\ \A m : Has(bad, m) => \E c : Has(new, c) /\ Refused(m, c)
      <4>. HIDE DEF PanelTurn
      <4>1. IsRow(new) /\ Send(calls, in, new)
        BY DEF PanelTurn
      <4>2. SendAdds(in, new)
        BY <1>1, <1>2, <4>1, SendHas
      <4>. QED BY <4>2 DEF SendAdds
    <3>3. \A i \in DOMAIN bad : Says(SeenKey, bad[i]) \subseteq {phase}
      <4>1. \A m : Has(bad, m) => Says(SeenKey, m) = {phase}
        BY <1>4, <3>2
      <4>. QED BY <4>1 DEF Has
    <3>. QED BY <1>2, <1>3, <3>1, <3>2, <3>3, SettlesQuiet
  <2>. QED BY <2>1, <2>2 DEF PanelInv
<1>10. ASSUME NEW m, Taken(in, m), m.kind = "answer", m.call.ask = "status" PROVE Says(SeenKey, m) # {}
  BY <1>10 DEF Says, Asks, SeenKey, Key
<1>11. ASSUME NEW m, Taken(in, m), Says(SeenKey, m) = {seen'} PROVE seen' # None
  <2>1. Informs(m)
    BY <1>1, <1>2, <1>11
  <2>2. CASE m.kind = "event"
    BY <1>11, <2>1, <2>2, LinkAssumption DEF Informs, Says, SeenKey, Key
  <2>3. CASE m.kind = "answer"
    BY <1>11, <2>1, <2>3, LinkAssumption DEF Informs, Says, Asks, AlsoTells, Tells, SeenKey, Key, Phases
  <2>. QED BY <2>1, <2>2, <2>3 DEF Informs
<1>12. ASSUME seen' = None PROVE UnderWay({"status"})'
  <2>1. seen = None /\ \A m : Taken(in, m) => Says(SeenKey, m) = {}
    BY <1>11, <1>12
  <2>. QED BY <1>8, <1>10, <2>1 DEF PanelInv
<1>13. ASSUME NEW asks, \E c : Has(new, c) /\ c.ask \in asks PROVE UnderWay(asks)'
  BY <1>6, <1>13 DEF UnderWay
<1>14. ASSUME body'.card = body.card,
              \A m : Taken(in, m) /\ m.kind = "answer" =>
                /\ m.call.ask \notin {"message", "classify"}
                /\ m.call.ask = "status" => \E c : Has(new, c) /\ c.ask = "message",
              \/ seen' # "ready" \/ seen \in {None, "ready"}
              \/ \E c : Has(new, c) /\ c.ask \in {"status", "message"}
       PROVE  /\ body'.card = "empty" => UnderWay({"status", "message"})'
              /\ body'.card = "loading" => UnderWay({"classify"})'
              /\ body'.card = "connection" /\ seen' = "ready" => UnderWay({"status", "message"})'
  <2>1. UnderWay({"status", "message"}) => UnderWay({"status", "message"})'
    <3>1. CASE \E m : Taken(in, m) /\ m.kind = "answer" /\ m.call.ask = "status"
      BY <1>13, <1>14, <3>1
    <3>2. CASE ~\E m : Taken(in, m) /\ m.kind = "answer" /\ m.call.ask = "status"
      BY <1>8, <1>14, <3>2
    <3>. QED BY <3>1, <3>2
  <2>2. UnderWay({"classify"}) => UnderWay({"classify"})'
    BY <1>8, <1>14
  <2>3. UnderWay({"status"}) => UnderWay({"status", "message"})
    BY DEF UnderWay
  <2>4. (\E c : Has(new, c) /\ c.ask \in {"status", "message"}) => UnderWay({"status", "message"})'
    BY <1>13
  <2>. QED BY <1>14, <2>1, <2>2, <2>3, <2>4 DEF PanelInv
<1>15. /\ body'.card = "empty" => UnderWay({"status", "message"})'
       /\ body'.card = "loading" => UnderWay({"classify"})'
       /\ body'.card = "connection" /\ seen' = "ready" => UnderWay({"status", "message"})'
  <2>1. CASE body'.card = "loading" /\ \E c : Has(new, c) /\ c.ask = "classify"
    BY <1>13, <2>1
  <2>. QED BY <1>14, <2>1
<1>. QED BY <1>1, <1>3, <1>5, <1>9, <1>12, <1>15 DEF PanelInv

-----------------------------------------------------------------------------
(* The handlers of the panel, and what the user does.                      *)
LEMMA TakesFirst ==
  ASSUME PanelInv, inbox # <<>>, NEW new, P!Reply(new)
  PROVE  /\ Send(calls, Tail(inbox), new)
         /\ \A m : Taken(Tail(inbox), m) <=> m = Head(inbox)
         /\ Informs(Head(inbox))
<1>1. IsRow(inbox) /\ \A m : Has(inbox, m) => Informs(m)
  BY DEF PanelInv
<1>2. Informs(Head(inbox))
  BY <1>1, HeadAndTail
<1>3. \A m : Taken(Tail(inbox), m) <=> m = Head(inbox)
  BY DEF Taken
<1>4. Send(calls, Tail(inbox), new)
  BY SameLink DEF P!Reply
<1>. QED BY <1>2, <1>3, <1>4

LEMMA Rendered ==
  ASSUME NEW card, P!Render(card)
  PROVE  body'.card = card /\ DOMAIN body' = {"card", "n", "busy", "rows"}
<1>. DEFINE n == P!NextRender
            rows == IF card = "verdict" THEN Offers ELSE {}
<1>1. body' = [card |-> card, n |-> n, busy |-> {}, rows |-> rows]
  BY DEF P!Render
<1>. HIDE DEF n, rows
<1>. QED BY <1>1

LEMMA Released ==
  ASSUME DOMAIN body = {"card", "n", "busy", "rows"}, NEW buttons, P!Release(buttons)
  PROVE  body'.card = body.card /\ DOMAIN body' = {"card", "n", "busy", "rows"}
<1>1. body' = body \/ body' = [body EXCEPT !.busy = @ \ buttons]
  BY DEF P!Release
<1>. QED BY <1>1

\* The row of one call, and of none.
LEMMA AskOne ==
  ASSUME NEW ask
  PROVE  /\ P!Call(ask) = Call(ask) /\ Call(ask).ask = ask /\ DOMAIN Call(ask) = Fields
         /\ IsRow(<<Call(ask)>>) /\ \A d : Has(<<Call(ask)>>, d) <=> d = Call(ask)
<1>1. Call(ask).ask = ask /\ DOMAIN Call(ask) = Fields
  BY DEF Call, Fields
<1>. QED BY <1>1, SameLink, RowOfOne

LEMMA AskNone == IsRow(<<>>) /\ \A c : ~Has(<<>>, c)
BY NewNone DEF NewFits

PanelMoves == \E in, new : PanelTurn(in, new)

LEMMA OnStatusTurns ==
  ASSUME PanelInv, P!OnStatus
  PROVE  PanelMoves
<1>. DEFINE m == Head(inbox)
            new == IF m.value = "ready" THEN <<Call("message")>> ELSE <<>>
<1>1. inbox # <<>> /\ m.kind = "answer" /\ m.call.ask = "status" /\ seen' = m.value
  BY DEF P!OnStatus, P!Answered, P!Message, P!Asked
<1>2. P!Reply(new)
  BY AskOne DEF P!OnStatus, P!Message
<1>3. IF m.value = "ready" THEN body' = body ELSE P!Render("connection")
  BY DEF P!OnStatus, P!Message
<1>4. /\ IsRow(new) /\ \A c : Has(new, c) <=> m.value = "ready" /\ c = Call("message")
  BY AskOne, AskNone
<1>. HIDE DEF new, m
<1>5. /\ Send(calls, Tail(inbox), new)
      /\ \A x : Taken(Tail(inbox), x) <=> x = m
      /\ Informs(m)
  BY <1>1, <1>2, TakesFirst DEF m
<1>6. Says(SeenKey, m) = {seen'}
  BY <1>1 DEF Says, Asks, Tells, SeenKey, Key
<1>7. CASE m.value = "ready"
  <2>1. body' = body /\ DOMAIN body = {"card", "n", "busy", "rows"}
    BY <1>3, <1>7 DEF PanelInv
  <2>2. Has(new, Call("message")) /\ Call("message").ask = "message"
    BY <1>4, <1>7, AskOne
  <2>3. \A c : Has(new, c) => c.ask \in Local
    BY <1>4, <2>2 DEF Local
  <2>4. \A x : Taken(Tail(inbox), x) => x.call.ask \notin {"message", "classify"}
    BY <1>1, <1>5
  <2>5. Taken(Tail(inbox), m) /\ inbox # <<>>
    BY <1>1, <1>5
  <2>. HIDE DEF Taken, Has, IsRow
  <2>6. PanelTurn(Tail(inbox), new)
    BY <1>4, <1>5, <1>6, <2>1, <2>2, <2>3, <2>4, <2>5 DEF PanelTurn
  <2>. QED BY <2>6 DEF PanelMoves
<1>8. CASE m.value # "ready"
  <2>1. body'.card = "connection" /\ DOMAIN body' = {"card", "n", "busy", "rows"}
    BY <1>3, <1>8, Rendered
  <2>. QED BY <1>1, <1>4, <1>5, <1>6, <1>8, <2>1 DEF PanelMoves, PanelTurn
<1>. QED BY <1>7, <1>8

LEMMA OnMessageTurns ==
  ASSUME PanelInv, P!OnMessage
  PROVE  PanelMoves
<1>. DEFINE m == Head(inbox)
            new == IF m.ok THEN <<Call("classify")>> ELSE <<>>
<1>1. inbox # <<>> /\ m.kind = "answer" /\ m.call.ask = "message" /\ seen' = seen
  BY DEF P!OnMessage, P!Answered, P!Message, P!Asked
<1>2. P!Reply(new) /\ P!Render(IF m.ok THEN "loading" ELSE "nomessage")
  BY AskOne DEF P!OnMessage, P!Message
<1>3. IsRow(new) /\ \A c : Has(new, c) <=> m.ok /\ c = Call("classify")
  BY AskOne, AskNone
<1>. HIDE DEF new, m
<1>4. /\ Send(calls, Tail(inbox), new)
      /\ \A x : Taken(Tail(inbox), x) <=> x = m
      /\ Informs(m)
  BY <1>1, <1>2, TakesFirst DEF m
<1>5. Says(SeenKey, m) = {}
  BY <1>1 DEF Says, Asks, AlsoTells, SeenKey, Key
<1>6. body'.card = (IF m.ok THEN "loading" ELSE "nomessage") /\ DOMAIN body' = {"card", "n", "busy", "rows"}
  BY <1>2, Rendered
<1>7. CASE m.ok
  <2>1. Has(new, Call("classify")) /\ Call("classify").ask = "classify"
    BY <1>3, <1>7, AskOne
  <2>2. body'.card = "loading" /\ \A c : Has(new, c) => c.ask = "classify"
    BY <1>3, <1>6, <1>7, <2>1
  <2>3. PanelTurn(Tail(inbox), new)
    BY <1>1, <1>3, <1>4, <1>5, <1>6, <2>1, <2>2 DEF PanelTurn
  <2>. QED BY <2>3 DEF PanelMoves
<1>8. CASE ~m.ok
  BY <1>1, <1>3, <1>4, <1>5, <1>6, <1>8 DEF PanelMoves, PanelTurn
<1>. QED BY <1>7, <1>8

LEMMA OnClassifyTurns ==
  ASSUME PanelInv, P!OnClassify
  PROVE  PanelMoves
<1>. DEFINE m == Head(inbox)
            card == IF m.ok THEN "verdict" ELSE IF m.why # None THEN "connection" ELSE "error"
            refused == ~m.ok /\ m.why # None
<1>1. inbox # <<>> /\ m.kind = "answer" /\ m.call.ask = "classify"
  BY DEF P!OnClassify, P!Answered, P!Message, P!Asked
<1>2. P!Reply(<<>>) /\ P!Render(card) /\ seen' = IF refused THEN m.why ELSE seen
  BY DEF P!OnClassify, P!Message
<1>3. refused <=> ~m.ok /\ m.why # None
  OBVIOUS
<1>. HIDE DEF refused, m
<1>4. /\ Send(calls, Tail(inbox), <<>>)
      /\ \A x : Taken(Tail(inbox), x) <=> x = m
      /\ Informs(m)
  BY <1>1, <1>2, TakesFirst DEF m
<1>5. body'.card = card /\ DOMAIN body' = {"card", "n", "busy", "rows"}
  BY <1>2, Rendered
<1>6. Says(SeenKey, m) = IF refused THEN {m.why} ELSE {}
  BY <1>1, <1>3 DEF Says, Asks, AlsoTells, Tells, SeenKey, Key
<1>7. refused => card = "connection" /\ m.why # "ready"
  BY <1>1, <1>3, <1>4 DEF Informs, Phases
<1>8. ~refused => card \in {"verdict", "error"}
  BY <1>3
<1>. HIDE DEF card
<1>9. CASE refused
  <2>1. seen' = m.why /\ Says(SeenKey, m) = {m.why} /\ body'.card = "connection" /\ seen' # "ready"
    BY <1>2, <1>5, <1>6, <1>7, <1>9
  <2>2. Taken(Tail(inbox), m) /\ Says(SeenKey, m) = {seen'}
    BY <1>4, <2>1
  <2>3. PanelTurn(Tail(inbox), <<>>)
    BY <1>1, <1>4, <1>5, <2>1, <2>2, AskNone DEF PanelTurn
  <2>. QED BY <2>3 DEF PanelMoves
<1>10. CASE ~refused
  <2>1. seen' = seen /\ Says(SeenKey, m) = {} /\ body'.card \in {"verdict", "error"}
    BY <1>2, <1>5, <1>6, <1>8, <1>10
  <2>2. PanelTurn(Tail(inbox), <<>>)
    BY <1>1, <1>4, <1>5, <2>1, AskNone DEF PanelTurn
  <2>. QED BY <2>2 DEF PanelMoves
<1>. QED BY <1>9, <1>10

LEMMA OnReconnectTurns ==
  ASSUME PanelInv, P!OnReconnect
  PROVE  PanelMoves
<1>. DEFINE m == Head(inbox)
<1>1. inbox # <<>> /\ m.kind = "answer" /\ m.call.ask = "reconnect" /\ seen' = m.value
  BY DEF P!OnReconnect, P!Answered, P!Message, P!Asked
<1>2. P!Reply(<<>>) /\ P!Render("connection")
  BY DEF P!OnReconnect
<1>. HIDE DEF m
<1>3. /\ Send(calls, Tail(inbox), <<>>)
      /\ \A x : Taken(Tail(inbox), x) <=> x = m
      /\ Informs(m)
  BY <1>1, <1>2, TakesFirst DEF m
<1>4. body'.card = "connection" /\ DOMAIN body' = {"card", "n", "busy", "rows"}
  BY <1>2, Rendered
<1>5. Says(SeenKey, m) = {m.value} /\ m.value = "connecting"
  BY <1>1, <1>3 DEF Says, Asks, Tells, SeenKey, Key, Informs
<1>. QED BY <1>1, <1>3, <1>4, <1>5, AskNone DEF PanelMoves, PanelTurn

\* The body stays as it is, but for its buttons.
LEMMA OnRestTurns ==
  ASSUME PanelInv, P!OnFolders \/ P!OnDismissed
  PROVE  PanelMoves
<1>. DEFINE m == Head(inbox)
<1>1. inbox # <<>> /\ m.kind = "answer" /\ m.call.ask \in {"folders", "dismiss"} /\ seen' = seen /\ P!Reply(<<>>)
  BY DEF P!OnFolders, P!OnDismissed, P!Answered, P!Message, P!Asked
<1>2. DOMAIN body = {"card", "n", "busy", "rows"}
  BY DEF PanelInv
<1>3. body'.card = body.card /\ DOMAIN body' = {"card", "n", "busy", "rows"}
  <2>1. CASE P!OnFolders
    <3>1. body' = body \/ P!Release({"go"})
      BY <2>1 DEF P!OnFolders
    <3>. QED BY <1>2, <3>1, Released
  <2>2. CASE P!OnDismissed
    <3>. DEFINE busy == body.busy \ {P!Asked.row}
                rows == IF P!Message.ok THEN body.rows \ {P!Asked.row} ELSE body.rows
    <3>1. body' = body \/ body' = [body EXCEPT !.busy = busy, !.rows = rows]
      BY <2>2 DEF P!OnDismissed
    <3>. HIDE DEF busy, rows
    <3>. QED BY <1>2, <3>1
  <2>. QED BY <2>1, <2>2
<1>. HIDE DEF m
<1>4. /\ Send(calls, Tail(inbox), <<>>)
      /\ \A x : Taken(Tail(inbox), x) <=> x = m
  BY <1>1, TakesFirst DEF m
<1>5. Says(SeenKey, m) = {}
  BY <1>1 DEF Says, Asks, AlsoTells, SeenKey, Key
<1>. QED BY <1>1, <1>3, <1>4, <1>5, AskNone DEF PanelMoves, PanelTurn

LEMMA OnActedTurns ==
  ASSUME PanelInv, NEW ask, P!OnActed(ask)
  PROVE  PanelMoves
<1>. DEFINE m == Head(inbox)
            new == IF m.ok THEN <<Call("classify")>> ELSE <<>>
<1>1. inbox # <<>> /\ m.kind = "answer" /\ m.call.ask \in {"apply", "undo", "junk", "label", "move"} /\ seen' = seen
  BY DEF P!OnActed, P!Answered, P!Message, P!Asked
<1>2. P!Reply(new) /\ IF m.ok THEN P!Render("loading") ELSE P!Release({m.call.row})
  BY AskOne DEF P!OnActed, P!Message, P!Asked
<1>3. IsRow(new) /\ \A c : Has(new, c) <=> m.ok /\ c = Call("classify")
  BY AskOne, AskNone
<1>. HIDE DEF new, m
<1>4. /\ Send(calls, Tail(inbox), new)
      /\ \A x : Taken(Tail(inbox), x) <=> x = m
  BY <1>1, <1>2, TakesFirst DEF m
<1>5. Says(SeenKey, m) = {}
  BY <1>1 DEF Says, Asks, AlsoTells, SeenKey, Key
<1>6. CASE m.ok
  <2>1. Has(new, Call("classify")) /\ Call("classify").ask = "classify"
    BY <1>3, <1>6, AskOne
  <2>2. body'.card = "loading" /\ DOMAIN body' = {"card", "n", "busy", "rows"}
    BY <1>2, <1>6, Rendered
  <2>3. \A c : Has(new, c) => c.ask = "classify"
    BY <1>3, <2>1
  <2>4. PanelTurn(Tail(inbox), new)
    BY <1>1, <1>3, <1>4, <1>5, <2>1, <2>2, <2>3 DEF PanelTurn
  <2>. QED BY <2>4 DEF PanelMoves
<1>7. CASE ~m.ok
  <2>1. body'.card = body.card /\ DOMAIN body' = {"card", "n", "busy", "rows"}
    BY <1>2, <1>7, Released DEF PanelInv
  <2>. QED BY <1>1, <1>3, <1>4, <1>5, <1>7, <2>1 DEF PanelMoves, PanelTurn
<1>. QED BY <1>6, <1>7

LEMMA OnStatusChangedTurns ==
  ASSUME PanelInv, P!OnStatusChanged
  PROVE  PanelMoves
<1>. DEFINE m == Head(inbox)
            back == m.value = "ready" /\ seen \notin {None, "ready"}
            new == IF back THEN <<Call("status")>> ELSE <<>>
<1>1. inbox # <<>> /\ m.kind = "event" /\ seen' = m.value
  BY DEF P!OnStatusChanged, P!Message
<1>2. P!Reply(new) /\ IF m.value \notin {seen, "ready"} THEN P!Render("connection") ELSE body' = body
  BY AskOne DEF P!OnStatusChanged, P!Message
<1>3. IsRow(new) /\ \A c : Has(new, c) <=> back /\ c = Call("status")
  BY AskOne, AskNone
<1>. HIDE DEF new, m
<1>4. /\ Send(calls, Tail(inbox), new)
      /\ \A x : Taken(Tail(inbox), x) <=> x = m
      /\ Informs(m)
  BY <1>1, <1>2, TakesFirst DEF m
<1>5. Says(SeenKey, m) = {seen'}
  BY <1>1, <1>4 DEF Informs, Says, SeenKey, Key
<1>6. Call("status").ask = "status"
  BY AskOne
<1>7. CASE m.value \notin {seen, "ready"}
  <2>1. body'.card = "connection" /\ DOMAIN body' = {"card", "n", "busy", "rows"}
    BY <1>2, <1>7, Rendered
  <2>2. \A c : ~Has(new, c)
    BY <1>3, <1>7
  <2>. QED BY <1>1, <1>3, <1>4, <1>5, <1>7, <2>1, <2>2 DEF PanelMoves, PanelTurn
<1>8. CASE m.value \in {seen, "ready"}
  <2>1. body' = body /\ DOMAIN body = {"card", "n", "busy", "rows"}
    BY <1>2, <1>8 DEF PanelInv
  <2>2. seen' # "ready" \/ seen \in {None, "ready"} \/ Has(new, Call("status"))
    BY <1>1, <1>3, <1>8
  <2>3. \A c : Has(new, c) => c.ask \in Local
    BY <1>3, <1>6 DEF Local
  <2>. QED BY <1>1, <1>3, <1>4, <1>5, <1>6, <2>1, <2>2, <2>3 DEF PanelMoves, PanelTurn
<1>. QED BY <1>7, <1>8

LEMMA PressTurns ==
  ASSUME PanelInv, NEW buttons, NEW call, P!Press(buttons, call),
         DOMAIN call = Fields, call.ask \in Local \cup Posted
  PROVE  PanelMoves
<1>. DEFINE c == [call EXCEPT !.card = body.n]
            busy == body.busy \cup buttons
<1>1. c.ask = call.ask
  BY DEF Fields
<1>2. body' = [body EXCEPT !.busy = busy] /\ seen' = seen /\ P!Send(calls, inbox, <<c>>)
  BY DEF P!Press
<1>. HIDE DEF c, busy
<1>3. DOMAIN body = {"card", "n", "busy", "rows"} /\ IsRow(inbox)
  BY DEF PanelInv
<1>4. body'.card = body.card /\ DOMAIN body' = {"card", "n", "busy", "rows"}
  BY <1>2, <1>3
<1>5. Send(calls, inbox, <<c>>) /\ IsRow(<<c>>) /\ \A d : Has(<<c>>, d) <=> d = c
  BY <1>2, SameLink, RowOfOne
<1>. QED BY <1>1, <1>2, <1>3, <1>4, <1>5, NothingTaken DEF PanelMoves, PanelTurn

LEMMA PressesTurn ==
  ASSUME PanelInv, P!Presses
  PROVE  PanelMoves
<1>1. ASSUME NEW ask \in Local \cup Posted
      PROVE  /\ P!Call(ask) = Call(ask) /\ DOMAIN Call(ask) = Fields /\ Call(ask).ask = ask
             /\ \A r : DOMAIN [Call(ask) EXCEPT !.row = r] = Fields /\ [Call(ask) EXCEPT !.row = r].ask = ask
  <2>1. P!Call(ask) = Call(ask) /\ DOMAIN Call(ask) = Fields /\ Call(ask).ask = ask
    BY AskOne
  <2>. QED BY <2>1 DEF Fields
<1>2. {"reconnect", "apply", "dismiss", "undo", "junk", "folders", "label", "move"} \subseteq Local \cup Posted
  BY DEF Local, Posted
<1>3. ASSUME NEW ask \in Local \cup Posted, NEW b, P!Press(b, P!Call(ask)) PROVE PanelMoves
  BY <1>1, <1>3, PressTurns
<1>4. ASSUME NEW ask \in Local \cup Posted, NEW b, NEW r, P!Press(b, [P!Call(ask) EXCEPT !.row = r]) PROVE PanelMoves
  <2>1. P!Press(b, [Call(ask) EXCEPT !.row = r])
    BY <1>1, <1>4
  <2>. QED BY <1>1, <2>1, PressTurns
<1>5. CASE P!Retry
  <2>1. P!Press({"retry"}, [P!Call("reconnect") EXCEPT !.row = "retry"])
    BY <1>5 DEF P!Retry
  <2>. QED BY <1>2, <1>4, <2>1
<1>6. CASE P!ApplyRow
  <2>1. PICK r : P!Press({r}, [P!Call("apply") EXCEPT !.row = r])
    BY <1>6 DEF P!ApplyRow
  <2>. QED BY <1>2, <1>4, <2>1
<1>7. CASE P!DismissRow
  <2>1. PICK r : P!Press({r}, [P!Call("dismiss") EXCEPT !.row = r])
    BY <1>7 DEF P!DismissRow
  <2>. QED BY <1>2, <1>4, <2>1
<1>8. CASE \E ask \in {"undo", "junk"} : P!PressOnce(ask)
  <2>1. PICK ask \in {"undo", "junk"} : P!Press({ask}, [P!Call(ask) EXCEPT !.row = ask])
    BY <1>8 DEF P!PressOnce
  <2>. QED BY <1>2, <1>4, <2>1
<1>9. CASE P!ChooseLabel
  <2>1. P!Press({}, P!Call("label"))
    BY <1>9 DEF P!ChooseLabel
  <2>. QED BY <1>2, <1>3, <2>1
<1>10. CASE P!MoveTo
  <2>1. P!Press({"go"}, [P!Call("move") EXCEPT !.row = "go"])
    BY <1>10 DEF P!MoveTo
  <2>. QED BY <1>2, <1>4, <2>1
<1>11. IsRow(inbox) /\ DOMAIN body = {"card", "n", "busy", "rows"}
  BY DEF PanelInv
<1>12. CASE P!ClassifyNow
  <2>1. P!Render("loading") /\ Send(calls, inbox, <<Call("classify")>>) /\ seen' = seen
    BY <1>12, AskOne, SameLink DEF P!ClassifyNow
  <2>2. /\ IsRow(<<Call("classify")>>) /\ Call("classify").ask = "classify"
        /\ \A d : Has(<<Call("classify")>>, d) <=> d = Call("classify")
    BY AskOne
  <2>. QED BY <1>11, <2>1, <2>2, Rendered, NothingTaken DEF PanelMoves, PanelTurn
<1>13. CASE \E m \in {"category", "move"} : P!ToggleMenu(m)
  <2>. DEFINE c == [Call("folders") EXCEPT !.card = body.n, !.row = "go"]
              new == IF menu' = "move" THEN <<c>> ELSE <<>>
              busy == IF menu' = "move" THEN body.busy \cup {"go"} ELSE body.busy \ {"go"}
  <2>1. body' = [body EXCEPT !.busy = busy] /\ seen' = seen /\ P!Send(calls, inbox, new)
    BY <1>13, AskOne DEF P!ToggleMenu
  <2>2. c.ask = "folders"
    BY AskOne DEF Fields
  <2>. HIDE DEF c, busy
  <2>3. IsRow(new) /\ \A d : Has(new, d) => d = c
    BY RowOfOne, AskNone
  <2>. HIDE DEF new
  <2>4. body'.card = body.card /\ DOMAIN body' = {"card", "n", "busy", "rows"} /\ Send(calls, inbox, new)
    BY <1>11, <2>1, SameLink
  <2>. QED BY <1>2, <1>11, <2>1, <2>2, <2>3, <2>4, NothingTaken DEF PanelMoves, PanelTurn
<1>. QED BY <1>5, <1>6, <1>7, <1>8, <1>9, <1>10, <1>12, <1>13 DEF P!Presses

LEMMA PanelMovesKeep ==
  ASSUME PanelInv, P!Handles \/ P!Presses
  PROVE  PanelInv'
<1>1. PanelMoves
  BY OnStatusTurns, OnMessageTurns, OnClassifyTurns, OnReconnectTurns, OnRestTurns, OnActedTurns,
     OnStatusChangedTurns, PressesTurn DEF P!Handles
<1>. QED BY <1>1, PanelTurnKeeps DEF PanelMoves

-----------------------------------------------------------------------------
(* What the background does while the panel waits.                         *)
\* The panel rests; the phase, which it may know, is told it.
LEMMA InformedKeeps ==
  ASSUME PanelInv, UNCHANGED <<body, seen>>, phase' \in Phases, IsRow(calls'), IsRow(inbox'),
         Pending \subseteq Pending', \A m : Has(inbox', m) => Has(inbox, m) \/ Informs(m),
         (\E i \in DOMAIN calls' : calls'[i].ask = "status") \/ Settles(SeenKey, inbox', {seen} \ {None}, phase')
  PROVE  PanelInv'
<1>1. \A asks : UnderWay(asks) => UnderWay(asks)'
  BY DEF UnderWay
<1>2. /\ DOMAIN body' = {"card", "n", "busy", "rows"}
      /\ seen' = None => UnderWay({"status"})'
      /\ body'.card = "empty" => UnderWay({"status", "message"})'
      /\ body'.card = "loading" => UnderWay({"classify"})'
      /\ body'.card = "connection" /\ seen' = "ready" => UnderWay({"status", "message"})'
  BY <1>1 DEF PanelInv
<1>3. \A m : Has(inbox', m) => Informs(m)
  BY DEF PanelInv
<1>4. {seen'} \ {None} = {seen} \ {None}
  OBVIOUS
<1>. QED BY <1>2, <1>3, <1>4 DEF PanelInv

LEMMA AnsweredKeeps ==
  ASSUME PanelInv, UNCHANGED <<body, seen>>, NEW i \in DOMAIN calls, NEW ok, NEW value, Served(i, ok, value),
         calls[i].ask # "reconnect",
         calls[i].ask = "status" => value = phase
  PROVE  PanelInv'
<1>. DEFINE c == calls[i]
            m == Answer(c, ok, value)
<1>1. IsRow(calls) /\ IsRow(inbox) /\ phase \in Phases
  BY DEF PanelInv
<1>2. calls' = RemoveAt(calls, i) /\ inbox' = Append(inbox, m) /\ phase' = phase
  BY DEF Served
<1>3. m.kind = "answer" /\ m.call = c /\ m.value = value /\ m.why = None
  BY DEF Answer
<1>4. c.ask # "reconnect" /\ (c.ask = "status" => value = phase)
  OBVIOUS
<1>5. /\ \A d : Has(calls', d) => Has(calls, d)
      /\ \A d : Has(calls, d) => d = c \/ Has(calls', d)
  BY <1>1, <1>2, RemovedHas
<1>6. IsRow(calls')
  BY <1>1, <1>2, Removed
<1>. HIDE DEF m
<1>7. IsRow(inbox') /\ \A e : Has(inbox', e) <=> Has(inbox, e) \/ e = m
  BY <1>1, <1>2, AppendedHas, Appended
<1>8. Pending \subseteq Pending'
  BY <1>3, <1>5, <1>7, PendingHas, PendingHasNext
<1>9. Informs(m)
  BY <1>1, <1>3, <1>4 DEF Informs
<1>10. (\E j \in DOMAIN calls' : calls'[j].ask = "status") \/ Settles(SeenKey, inbox', {seen} \ {None}, phase')
  <2>1. CASE c.ask = "status"
    <3>1. Says(SeenKey, m) = {phase}
      BY <1>3, <1>4, <2>1 DEF Says, Asks, Tells, SeenKey, Key
    <3>. QED BY <1>1, <1>2, <3>1, SettlesTold
  <2>2. ASSUME NEW d, Has(calls, d), d.ask = "status", c.ask # "status"
        PROVE  \E j \in DOMAIN calls' : calls'[j].ask = "status"
    <3>1. Has(calls', d)
      BY <1>5, <2>2
    <3>. QED BY <2>2, <3>1 DEF Has
  <2>3. CASE Settles(SeenKey, inbox, {seen} \ {None}, phase) /\ c.ask # "status"
    <3>1. Says(SeenKey, m) = {}
      BY <1>3, <1>4, <2>3 DEF Says, Asks, AlsoTells, SeenKey, Key
    <3>. QED BY <1>1, <1>2, <2>3, <3>1, SettlesAppended
  <2>4. (\E j \in DOMAIN calls : calls[j].ask = "status") => \E d : Has(calls, d) /\ d.ask = "status"
    BY DEF Has
  <2>. QED BY <2>1, <2>2, <2>3, <2>4 DEF PanelInv
<1>11. \A e : Has(inbox', e) => Has(inbox, e) \/ Informs(e)
  BY <1>7, <1>9
<1>. QED BY <1>1, <1>2, <1>6, <1>7, <1>8, <1>10, <1>11, InformedKeeps

LEMMA AnnouncedKeeps ==
  ASSUME PanelInv, UNCHANGED <<body, seen, calls>>, NEW p \in Phases,
         phase' = p, inbox' = Append(inbox, Event("status", p))
  PROVE  PanelInv'
<1>. DEFINE m == Event("status", p)
<1>1. IsRow(calls) /\ IsRow(inbox) /\ calls' = calls
  BY DEF PanelInv
<1>2. m.kind = "event" /\ m.name = "status" /\ m.value = p
  BY DEF Event
<1>3. inbox' = Append(inbox, m)
  OBVIOUS
<1>. HIDE DEF m
<1>4. IsRow(inbox') /\ \A e : Has(inbox', e) <=> Has(inbox, e) \/ e = m
  BY <1>1, <1>3, AppendedHas, Appended
<1>5. Pending \subseteq Pending'
  BY <1>1, <1>4, PendingHas, PendingHasNext
<1>6. Informs(m) /\ Says(SeenKey, m) = {p}
  BY <1>2 DEF Informs, Says, SeenKey, Key
<1>7. Settles(SeenKey, inbox', {seen} \ {None}, phase')
  BY <1>1, <1>3, <1>6, SettlesTold
<1>8. \A e : Has(inbox', e) => Has(inbox, e) \/ Informs(e)
  BY <1>4, <1>6
<1>. QED BY <1>1, <1>4, <1>5, <1>7, <1>8, InformedKeeps

LEMMA LostPortKeeps ==
  ASSUME PanelInv, UNCHANGED <<body, seen>>, NEW p \in Phases, NEW cs, NEW answers, PortGone(p, cs, answers),
         IsRow(cs), IsRow(answers),
         \A c : Has(cs, c) => Has(calls, c),
         \A c : Has(calls, c) => Has(cs, c) \/ \E m : Has(answers, m) /\ m.call = c,
         \A m : Has(answers, m) => /\ m.kind = "answer" /\ Has(calls, m.call)
                                   /\ Informs(m) /\ Says(SeenKey, m) \subseteq {p}
  PROVE  PanelInv'
<1>1. IsRow(calls) /\ IsRow(inbox)
  BY DEF PanelInv
<1>2. /\ phase' = p /\ IsRow(inbox') /\ IsRow(calls')
      /\ \A c : c \in Pending' <=> c \in Pending
      /\ \A m : Has(inbox', m) => \/ Has(inbox, m) \/ m = Event("status", p) \/ Has(answers, m)
                                  \/ \E c : c.ask \notin Local /\ m = Failed(c, None)
      /\ \A told : Settles(SeenKey, inbox', told, p)
  BY <1>1, PortGoneFacts
<1>3. Informs(Event("status", p))
  BY DEF Informs, Event
<1>4. ASSUME NEW c, c.ask \notin Local PROVE Informs(Failed(c, None))
  <2>1. Failed(c, None).kind = "answer" /\ Failed(c, None).call = c /\ Failed(c, None).why = None
    BY DEF Failed, Answer
  <2>2. c.ask \notin {"status", "reconnect"}
    BY <1>4 DEF Local
  <2>. QED BY <2>1, <2>2 DEF Informs
<1>5. \A m : Has(inbox', m) => Has(inbox, m) \/ Informs(m)
  BY <1>2, <1>3, <1>4
<1>. QED BY <1>2, <1>5, InformedKeeps

LEMMA PanelLinkKeeps ==
  ASSUME PanelInv, LinkSteps, UNCHANGED <<body, seen>>
  PROVE  PanelInv'
<1>0. IsRow(calls) /\ IsRow(inbox) /\ phase \in Phases
  BY DEF PanelInv
<1>1. CASE Drop
  <2>1. PortGone("disconnected", calls, <<>>) /\ "disconnected" \in Phases
    BY <1>1 DEF Drop, Phases
  <2>. QED BY <1>0, <2>1, AskNone, LostPortKeeps
<1>2. CASE Silence
  <2>1. /\ phase' = "disconnected" /\ inbox' = Append(inbox, Event("status", "disconnected"))
        /\ calls' = calls /\ "disconnected" \in Phases
    BY <1>2 DEF Silence, Phases
  <2>. QED BY <2>1, AnnouncedKeeps
<1>3. CASE Connected
  <2>1. phase' = "ready" /\ inbox' = Append(inbox, Event("status", "ready")) /\ calls' = calls /\ "ready" \in Phases
    BY <1>3 DEF Connected, Phases
  <2>. QED BY <2>1, AnnouncedKeeps
<1>4. ASSUME NEW i \in DOMAIN calls, ServeReconnect(i) PROVE PanelInv'
  <2>. DEFINE m == Answer(calls[i], TRUE, "connecting")
              cs == RemoveAt(calls, i)
  <2>1. PortGone("connecting", cs, <<m>>) /\ calls[i].ask = "reconnect" /\ "connecting" \in Phases
    BY <1>4 DEF ServeReconnect, Phases
  <2>2. m.kind = "answer" /\ m.call = calls[i] /\ m.value = "connecting" /\ m.why = None
    BY DEF Answer
  <2>3. /\ IsRow(cs)
        /\ \A c : Has(cs, c) => Has(calls, c)
        /\ \A c : Has(calls, c) => c = calls[i] \/ Has(cs, c)
    BY <1>0, RemovedHas, Removed
  <2>4. Has(calls, calls[i])
    BY DEF Has
  <2>. HIDE DEF m, cs
  <2>5. Informs(m) /\ Says(SeenKey, m) = {"connecting"}
    BY <2>1, <2>2 DEF Informs, Says, Asks, Tells, SeenKey, Key
  <2>6. IsRow(<<m>>) /\ \A e : Has(<<m>>, e) <=> e = m
    BY RowOfOne
  <2>. QED BY <2>1, <2>2, <2>3, <2>4, <2>5, <2>6, LostPortKeeps
<1>5. ASSUME NEW i \in DOMAIN calls, ServeStatus(i) PROVE PanelInv'
  <2>1. calls[i].ask = "status" /\ Served(i, TRUE, phase)
    BY <1>5 DEF ServeStatus
  <2>. QED BY <2>1, AnsweredKeeps
<1>. QED BY <1>1, <1>2, <1>3, <1>4, <1>5 DEF LinkSteps

\* Every step of the panel.
LEMMA PanelNext ==
  ASSUME PanelInv, [P!Next]_<<link, panelVars>>
  PROVE  PanelInv'
<1>1. CASE P!Handles \/ P!Presses
  BY <1>1, PanelMovesKeep
<1>2. CASE LinkSteps /\ UNCHANGED <<body, seen>>
  BY <1>2, PanelLinkKeeps
<1>3. ASSUME NEW i \in DOMAIN calls, P!ServeMail(i) \/ P!ServeHost(i), UNCHANGED <<body, seen>>
      PROVE  PanelInv'
  <2>1. PICK ok : P!Served(i, ok, None)
    BY <1>3 DEF P!ServeMail, P!ServeHost
  <2>2. calls[i].ask \notin {"status", "reconnect"}
    BY <1>3 DEF P!ServeMail, P!ServeHost, P!Mail
  <2>3. Served(i, ok, None)
    BY <2>1, SameLink
  <2>. QED BY <1>3, <2>2, <2>3, AnsweredKeeps
<1>4. CASE UNCHANGED <<link, panelVars>>
  <2>1. UNCHANGED <<calls, inbox, phase, body, seen>>
    BY <1>4 DEF link, panelVars
  <2>2. Pending' = Pending
    BY <2>1 DEF Pending, Replies
  <2>. QED BY <2>1, <2>2, InformedKeeps DEF PanelInv
<1>5. P!Next => \/ P!Handles \/ P!Presses
                \/ LinkSteps /\ UNCHANGED <<body, seen>>
                \/ \E i \in DOMAIN calls : (P!ServeMail(i) \/ P!ServeHost(i)) /\ UNCHANGED <<body, seen>>
  BY SameLink DEF P!Next, P!Serve, P!panel
<1>. QED BY <1>1, <1>2, <1>3, <1>4, <1>5

LEMMA PanelStarts == P!Init => PanelInv
<1>. SUFFICES ASSUME P!Init PROVE PanelInv
  OBVIOUS
<1>1. /\ inbox = <<>> /\ phase \in Phases /\ calls = <<Call("status")>>
      /\ DOMAIN body = {"card", "n", "busy", "rows"} /\ body.card = "empty" /\ seen = None
  BY AskOne, SameLink DEF P!Init, LinkInit, Phases
<1>2. /\ IsRow(calls) /\ Has(calls, Call("status")) /\ Call("status").ask = "status"
  BY <1>1, AskOne
<1>3. \E i \in DOMAIN calls : calls[i].ask = "status"
  BY <1>2 DEF Has
<1>4. UnderWay({"status"}) /\ UnderWay({"status", "message"})
  BY <1>2, PendingHas DEF UnderWay
<1>. QED BY <1>1, <1>2, <1>3, <1>4, AskNone DEF PanelInv

LEMMA PanelImplied == PanelInv => P!PanelSettles
<1>. SUFFICES ASSUME PanelInv, calls = <<>>, inbox = <<>>
              PROVE  seen = phase /\ body.card \notin {"empty", "loading"}
                     /\ (phase = "ready" => body.card # "connection")
  BY DEF P!PanelSettles
<1>1. Pending = {} /\ \A told : Settles(SeenKey, inbox, told, phase) <=> told \subseteq {phase}
  BY Quiet
<1>2. \A asks : ~UnderWay(asks)
  BY <1>1 DEF UnderWay
<1>3. \A i \in DOMAIN calls : FALSE
  BY AskNone DEF Has
<1>4. seen = phase
  BY <1>1, <1>2, <1>3 DEF PanelInv
<1>. QED BY <1>2, <1>4 DEF PanelInv

-----------------------------------------------------------------------------
\* Pages settle: when nothing is in flight any more, the panel knows the phase
\* of the connection, is off its recovery card when the host is back and no
\* longer loading; the header of the dashboard shows the phase and the pause
\* switch as they are, its lists and badges what the host has, and on the open
\* app the review badge too (panel.js and dashboard.js, whatever is lost,
\* refused, overtaken or comes at the same time).
THEOREM PagesAlwaysSettle == MCSpec => []PagesSettle
<1>. DEFINE Inv == /\ open \in {"dashboard", "app", "panel"}
                   /\ open # "panel" => SettleInv
                   /\ open = "panel" => PanelInv
<1>1. MCInit => Inv
  <2>1. ASSUME MCInit, open = "app", Resting PROVE SettleInv
    <3>1. drops \in Nat
      BY <2>1, LinkAssumption DEF MCInit, P!Init, Closed
    <3>. QED BY <2>1, <3>1, RestingSettles
  <2>. QED BY <2>1, OpenedSettles, PanelStarts DEF MCInit
<1>2. Inv /\ [MCNext]_allVars => Inv'
  <2>. SUFFICES ASSUME Inv, [MCNext]_allVars PROVE Inv'
    OBVIOUS
  <2>1. open' = open
    BY DEF MCNext, allVars
  <2>2. CASE open # "panel"
    <3>1. [Next]_vars
      BY <2>2 DEF MCNext, allVars
    <3>2. SettleInv'
      BY <2>1, <2>2, <3>1, SettleNext
    <3>. QED BY <2>1, <2>2, <3>2
  <2>3. CASE open = "panel"
    <3>1. [P!Next]_<<link, panelVars>>
      BY <2>3 DEF MCNext, allVars, vars
    <3>2. PanelInv'
      BY <2>3, <3>1, PanelNext
    <3>. QED BY <2>1, <2>3, <3>2
  <2>. QED BY <2>2, <2>3
<1>3. Inv => PagesSettle
  <2>1. ASSUME Inv, open = "panel" PROVE P!PanelSettles
    BY <2>1, PanelImplied
  <2>2. ASSUME Inv, open # "panel" PROVE DashboardSettles /\ (open = "app" => ReviewBadgeSettles)
    BY <2>2, SettleImplied
  <2>. QED BY <2>1, <2>2 DEF PagesSettle
<1>. QED BY <1>1, <1>2, <1>3, PTL DEF MCSpec
==============================================================================

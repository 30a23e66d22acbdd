------------------------------- MODULE Panel -------------------------------
(***************************************************************************)
(* The panel of one message (panel.js): it asks for the status, finds the  *)
(* displayed message, has it classified, and shows the verdict with its    *)
(* buttons, a recovery card, or an error.  Each render replaces the whole  *)
(* body; a handler that waits may still hold buttons of the one before.    *)
(***************************************************************************)
EXTENDS PageLink

CONSTANTS
  Offers,      \* suggestions of the verdict that can be applied
  MaxPresses   \* bound: what the user does

VARIABLES
  body,        \* [card, n, rows, busy]: what is shown, which render, its rows, its disabled buttons
  seen,        \* lastPhase
  menu,        \* openMenu: "category", "move", or None
  presses

panel == <<body, seen, menu, presses>>
vars  == <<link, panel>>

-----------------------------------------------------------------------------
Cards == {"empty", "connection", "nomessage", "error", "loading", "verdict"}

\* Renders are told apart as long as a handler holds one.
HeldRenders == {calls[i].card : i \in DOMAIN calls}
          \union {inbox[i].call.card : i \in {j \in DOMAIN inbox : inbox[j].kind = "answer"}}
NextRender == CHOOSE n \in 1..Len(calls) + Len(inbox) + 2 :
                /\ n \notin HeldRenders \union {body.n}
                /\ \A k \in 1..n - 1 : k \in HeldRenders \union {body.n}

\* clear() and rebuild
Render(card) ==
  /\ body' = [card |-> card, n |-> NextRender, busy |-> {},
              rows |-> IF card = "verdict" THEN Offers ELSE {}]
  /\ menu' = None

Message == Head(inbox)
Asked   == Message.call
Answered(ask) == inbox # <<>> /\ Message.kind = "answer" /\ Asked.ask = ask
Reply(new)    == Send(calls, Tail(inbox), new) /\ UNCHANGED presses

\* A button is pressed: it waits for the call with the others in its row.
Press(buttons, call) ==
  /\ presses < MaxPresses /\ presses' = presses + 1
  /\ body' = [body EXCEPT !.busy = @ \union buttons]
  /\ Send(calls, inbox, <<[call EXCEPT !.card = body.n]>>)
  /\ UNCHANGED <<seen, menu>>

\* The buttons of a handler are enabled again, if they are still there.
Release(buttons) ==
  body' = IF Asked.card = body.n THEN [body EXCEPT !.busy = @ \ buttons] ELSE body

-----------------------------------------------------------------------------
\* boot: status, then the displayed message, then its classification.
Init ==
  /\ LinkInit /\ calls = <<Call("status")>>
  /\ body = [card |-> "empty", n |-> 1, busy |-> {}, rows |-> {}]
  /\ seen = None /\ menu = None /\ presses = 0

OnStatus ==
  /\ Answered("status")
  /\ seen' = Message.value
  /\ IF Message.value = "ready"
     THEN UNCHANGED <<body, menu>> /\ Reply(<<Call("message")>>)
     ELSE Render("connection") /\ Reply(<<>>)

\* classify(): the body says so while the host is asked.
OnMessage ==
  /\ Answered("message")
  /\ IF Message.ok THEN Render("loading") /\ Reply(<<Call("classify")>>)
                   ELSE Render("nomessage") /\ Reply(<<>>)
  /\ UNCHANGED seen

OnClassify ==
  /\ Answered("classify")
  /\ CASE Message.ok -> Render("verdict") /\ UNCHANGED seen
       [] ~Message.ok /\ Message.why # None -> Render("connection") /\ seen' = Message.why
       [] OTHER -> Render("error") /\ UNCHANGED seen
  /\ Reply(<<>>)

-----------------------------------------------------------------------------
Retry ==
  /\ body.card = "connection" /\ "retry" \notin body.busy
  /\ Press({"retry"}, [Call("reconnect") EXCEPT !.row = "retry"])

\* The status a reconnect returns is that of the handshake just begun.
OnReconnect ==
  /\ Answered("reconnect")
  /\ seen' = Message.value
  /\ Render("connection")
  /\ Reply(<<>>)

ClassifyNow ==
  /\ body.card = "error"
  /\ presses < MaxPresses /\ presses' = presses + 1
  /\ Render("loading")
  /\ Send(calls, inbox, <<Call("classify")>>)
  /\ UNCHANGED seen

Offered(row) == body.card = "verdict" /\ row \in body.rows \ body.busy

ApplyRow   == \E row \in Offers : Offered(row) /\ Press({row}, [Call("apply") EXCEPT !.row = row])
DismissRow == \E row \in Offers : Offered(row) /\ Press({row}, [Call("dismiss") EXCEPT !.row = row])

\* An auto-applied action is undone, junk is taken back.
PressOnce(ask) ==
  /\ ask \in {"undo", "junk"} /\ body.card = "verdict" /\ ask \notin body.busy
  /\ Press({ask}, [Call(ask) EXCEPT !.row = ask])

\* toggleMenu; the move menu asks for the folders, whose list it then holds.
ToggleMenu(m) ==
  /\ body.card = "verdict"
  /\ presses < MaxPresses /\ presses' = presses + 1
  /\ menu' = IF menu = m THEN None ELSE m
  /\ body' = [body EXCEPT !.busy = IF menu' = "move" THEN @ \union {"go"} ELSE @ \ {"go"}]
  /\ Send(calls, inbox, IF menu' = "move" THEN <<[Call("folders") EXCEPT !.card = body.n, !.row = "go"]>>
                        ELSE <<>>)
  /\ UNCHANGED seen

OnFolders ==
  /\ Answered("folders")
  /\ LET newer == \E i \in DOMAIN calls : calls[i].ask = "folders" /\ calls[i].card = body.n
     IN  IF Message.ok /\ ~newer THEN Release({"go"}) ELSE UNCHANGED body
  /\ Reply(<<>>) /\ UNCHANGED <<seen, menu>>

ChooseLabel == menu = "category" /\ Press({}, Call("label"))
MoveTo      == menu = "move" /\ "go" \notin body.busy /\ Press({"go"}, [Call("move") EXCEPT !.row = "go"])

\* What succeeded is followed by a new classification.
OnActed(ask) ==
  /\ ask \in {"apply", "undo", "junk", "label", "move"} /\ Answered(ask)
  /\ IF Message.ok THEN Render("loading") /\ Reply(<<Call("classify")>>)
                   ELSE Release({Asked.row}) /\ UNCHANGED menu /\ Reply(<<>>)
  /\ UNCHANGED seen

OnDismissed ==
  /\ Answered("dismiss")
  /\ body' = IF Asked.card # body.n THEN body
             ELSE [body EXCEPT !.busy = @ \ {Asked.row},
                               !.rows = IF Message.ok THEN @ \ {Asked.row} ELSE @]
  /\ Reply(<<>>) /\ UNCHANGED <<seen, menu>>

-----------------------------------------------------------------------------

\* mm:statusChanged: transitions only; a loss replaces the verdict, a recovery
\* starts over.
OnStatusChanged ==
  /\ inbox # <<>> /\ Message.kind = "event"
  /\ seen' = Message.value
  /\ IF Message.value \notin {seen, "ready"} THEN Render("connection") ELSE UNCHANGED <<body, menu>>
  /\ Reply(IF Message.value = "ready" /\ seen \notin {None, "ready"} THEN <<Call("status")>> ELSE <<>>)

-----------------------------------------------------------------------------
\* The background, and the host behind it, answer.
Mail == {"message", "apply", "undo", "junk", "move", "folders"}

ServeMail(i) == calls[i].ask \in Mail /\ \E ok \in BOOLEAN : Served(i, ok, None)

Due(i) == calls[i].ask \in Local \/ \A j \in 1..i - 1 : calls[j].ask \in Local

ServeHost(i) ==
  /\ calls[i].ask \in {"classify", "label", "dismiss"} /\ Due(i)
  /\ \E ok \in BOOLEAN : Served(i, ok, None)

Handles ==
  \/ OnStatus \/ OnMessage \/ OnClassify \/ OnReconnect \/ OnFolders \/ OnDismissed
  \/ (\E ask \in {"apply", "undo", "junk", "label", "move"} : OnActed(ask))
  \/ OnStatusChanged

Presses ==
  \/ Retry \/ ClassifyNow \/ ApplyRow \/ DismissRow \/ (\E ask \in {"undo", "junk"} : PressOnce(ask))
  \/ (\E m \in {"category", "move"} : ToggleMenu(m)) \/ ChooseLabel \/ MoveTo

Serve == \E i \in DOMAIN calls : ServeMail(i) \/ ServeHost(i)

Next ==
  \/ Handles \/ Presses
  \/ ((Serve \/ LinkSteps) /\ UNCHANGED panel)

Spec == Init /\ [][Next]_vars
-----------------------------------------------------------------------------
TypeOK ==
  /\ body.card \in Cards /\ body.n \in Nat /\ body.rows \subseteq Offers
  /\ menu \in {None, "category", "move"} /\ presses \in 0..MaxPresses

\* What the code does not keep, see README: a host that was silent for longer
\* than the heartbeat waits may answer all the same.
LateVerdictNeedsHost == body.card = "verdict" => seen = "ready"

\* At rest the panel knows the phase, has left its recovery card when the host
\* is back, and is not still loading.
PanelSettles ==
  calls = <<>> /\ inbox = <<>> =>
    /\ seen = phase /\ body.card \notin {"empty", "loading"}
    /\ phase = "ready" => body.card # "connection"
=============================================================================

------------------------------ MODULE PageLink ------------------------------
(***************************************************************************)
(* How a page of the extension talks to the background page, which owns    *)
(* the native port: send() of dashboard.js and panel.js on one side, the   *)
(* request router and hostCall of background.js on the other.              *)
(*                                                                         *)
(* A call is in flight until the background answers it, with what it reads *)
(* at that moment; calls may be answered in any order.  What the           *)
(* background sends to a page, answers and broadcasts, arrives in the      *)
(* order it was sent.  send() never rejects: whatever goes wrong is an     *)
(* answer that is not ok.                                                  *)
(***************************************************************************)
EXTENDS Integers, FiniteSets, SequencesExt

CONSTANTS
  None,       \* no value
  MaxDrops    \* bound: losses of the connection

Phases == {"ready", "connecting", "disconnected"}

ASSUME LinkAssumption == MaxDrops \in Nat /\ None \notin Phases

VARIABLES
  phase,      \* host.status.phase of the background page
  calls,      \* the page's calls in flight
  inbox,      \* answers and broadcasts on their way to the page
  drops,      \* interruptions so far: losses, and a page opened before the host was ready
  wedged      \* whether one of them was a silence

link == <<phase, calls, inbox, drops, wedged>>

-----------------------------------------------------------------------------
\* A call: what is asked, about which item, and where its handler goes on.
Call(ask) ==
  [ask |-> ask, way |-> "act", item |-> None, row |-> None, card |-> None,
   todo |-> <<>>, all |-> TRUE, newest |-> TRUE, then |-> "stop"]

\* What the background does whether or not the host is connected.
Local == {"stash", "status", "reconnect", "queue", "resolve", "resolved",
          "message", "apply", "undo", "junk", "move", "folders"}

\* hostCall refuses without a connection; user actions are posted to any port.
Posted == {"dismiss", "label"}
Accepts(call) == call.ask \in Local \union Posted \/ phase = "ready"

\* An answer carries the call back to the handler that waits for it.
Answer(call, ok, value) ==
  [kind |-> "answer", call |-> call, ok |-> ok, value |-> value, why |-> None]
Event(name, value) == [kind |-> "event", name |-> name, value |-> value]

\* A refusal says in which phase it was; a rejected request does not.
FailAll(some, why) ==
  [i \in DOMAIN some |-> [Answer(some[i], FALSE, None) EXCEPT !.why = why]]

\* Those of a sequence at some of its places, in their order.
Nth(places, n) == CHOOSE i \in places : Cardinality({j \in places : j <= i}) = n
Only(s, places) == [n \in 1 .. Cardinality(places) |-> s[Nth(places, n)]]

\* The page makes the calls new; cs are its calls, in its messages, so far.
Send(cs, in, new) ==
  LET accepted == {i \in DOMAIN new : Accepts(new[i])}
  IN  /\ calls' = cs \o Only(new, accepted)
      /\ inbox' = in \o FailAll(Only(new, DOMAIN new \ accepted), phase)
      /\ UNCHANGED <<phase, drops, wedged>>

-----------------------------------------------------------------------------
LinkInit ==
  /\ phase \in {"ready", "connecting", "disconnected"}
  /\ drops = IF phase = "ready" THEN 0 ELSE 1
  /\ inbox = <<>> /\ wedged = FALSE

\* The pending requests of a port that goes are rejected after the broadcast
\* of the status.
PortGone(p, cs, answers) ==
  LET own == {i \in DOMAIN cs : cs[i].ask \in Local}
  IN  /\ phase' = p
      /\ calls' = Only(cs, own)
      /\ inbox' = Append(inbox, Event("status", p))
                    \o FailAll(Only(cs, DOMAIN cs \ own), None) \o answers

\* The host dies, or the handshake fails.
Drop ==
  /\ phase # "disconnected" /\ drops < MaxDrops
  /\ PortGone("disconnected", calls, <<>>)
  /\ drops' = drops + 1
  /\ UNCHANGED wedged

\* The heartbeat times out: what is pending stays so, and may be answered late.
\* With nothing pending it is like a loss.
Silence ==
  /\ phase = "ready" /\ drops < MaxDrops
  /\ \E i \in DOMAIN calls : calls[i].ask \notin Local
  /\ phase' = "disconnected"
  /\ inbox' = Append(inbox, Event("status", "disconnected"))
  /\ drops' = drops + 1
  /\ wedged' = TRUE
  /\ UNCHANGED calls

\* The handshake is answered.
Connected ==
  /\ phase = "connecting"
  /\ phase' = "ready"
  /\ inbox' = Append(inbox, Event("status", "ready"))
  /\ UNCHANGED <<calls, drops, wedged>>

\* mm:reconnect: the old port goes, a new handshake begins.
ServeReconnect(i) ==
  /\ calls[i].ask = "reconnect"
  /\ PortGone("connecting", RemoveAt(calls, i), <<Answer(calls[i], TRUE, "connecting")>>)
  /\ UNCHANGED <<drops, wedged>>

\* A call is answered, by the background or by the host behind it.
Served(i, ok, value) ==
  /\ inbox' = Append(inbox, Answer(calls[i], ok, value))
  /\ calls' = RemoveAt(calls, i)
  /\ UNCHANGED <<phase, drops, wedged>>

\* mm:getStatus
ServeStatus(i) == calls[i].ask = "status" /\ Served(i, TRUE, phase)

LinkSteps ==
  \/ Drop \/ Silence \/ Connected
  \/ \E i \in DOMAIN calls : ServeReconnect(i) \/ ServeStatus(i)
=============================================================================

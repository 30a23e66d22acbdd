--------------------------- MODULE NativeChannel ---------------------------
(***************************************************************************)
(* The native port of the extension (extension/native.js), the pipes, and  *)
(* the host at their other end (serve, serve_blocking and handle in        *)
(* mailmate-native-host).                                                  *)
(*                                                                         *)
(* The background page is single-threaded: one event handler, with the     *)
(* promise callbacks it sets off, is one action.  Each connectNative opens *)
(* a port and starts a host process of its own.  A host drains overdue     *)
(* follow-ups before it reads its first frame, serves one frame at a time, *)
(* and reads on after its port was closed until its input is used up.      *)
(*                                                                         *)
(* Ports are numbered in the order they are opened, requests in the order  *)
(* they are made (requestSeq).                                             *)
(***************************************************************************)
EXTENDS Integers, Sequences

CONSTANTS
  MaxPorts,     \* bound: connections made in the session
  MaxRequests   \* bound: requests made in the session

ASSUME BoundsAssumption == MaxPorts \in Nat \ {0} /\ MaxRequests \in Nat \ {0}

VARIABLES
  phase,      \* status.phase
  port,       \* the port the page holds
  connected,  \* whether that port may still be written to
  beating,    \* the heartbeat interval is running
  pending,    \* the keys of the pending map
  timed,      \* requests whose _withTimeout timer is running
  requests,   \* every request made: its kind, its port, what its caller saw
  toHost,     \* per port, the frames on their way to the host
  toExt,      \* per port, the answers on their way to the page
  host,       \* per port, the host process
  speaks      \* per port, whether that host speaks the page's protocol

page == <<phase, port, connected, beating, pending, timed, requests>>
vars == <<page, toHost, toExt, host, speaks>>

Ports == 1 .. MaxPorts
Ids   == 1 .. Len(requests)
NextId == Len(requests) + 1

\* hello and ping run under a timer, a call does not, and nobody awaits the
\* answer to new_mail.
Kinds == {"hello", "ping", "call", "new_mail"}

Made(kind, p) == [kind |-> kind, port |-> p, outcome |-> "open", served |-> 0]

Open(ids) == {id \in ids : requests[id].outcome = "open"}

Settle(ids, outcome) ==
  [id \in Ids |-> IF id \in Open(ids) THEN [requests[id] EXCEPT !.outcome = outcome]
                  ELSE requests[id]]

IsHello(id) == requests[id].kind = "hello"

-----------------------------------------------------------------------------
(* The page *)

Init ==
  /\ phase = "connecting"
  /\ port = 1 /\ connected = TRUE /\ beating = TRUE
  /\ requests = << Made("hello", 1) >>
  /\ pending = {1} /\ timed = {1}
  /\ toHost = [p \in Ports |-> IF p = 1 THEN <<1>> ELSE <<>>]
  /\ toExt = [p \in Ports |-> <<>>]
  /\ host = [p \in Ports |-> IF p = 1 THEN "launching" ELSE "absent"]
  /\ \E b \in BOOLEAN : speaks = [p \in Ports |-> p = 1 /\ b]

\* request and notifyHost: postMessage throws on a port known to be closed,
\* and what is written to a host that is gone is lost.
Post(kind) ==
  /\ NextId <= MaxRequests
  /\ IF connected
     THEN /\ requests' = Append(requests, Made(kind, port))
          /\ pending' = IF kind = "new_mail" THEN pending ELSE pending \cup {NextId}
          /\ toHost' = IF host[port] = "gone" THEN toHost
                       ELSE [toHost EXCEPT ![port] = Append(@, NextId)]
     ELSE /\ requests' = Append(requests, [Made(kind, port) EXCEPT !.outcome = "rejected"])
          /\ UNCHANGED <<pending, toHost>>

\* From the dashboard, a panel or the context menu, which asks in any phase.
Call ==
  /\ Post("call")
  /\ UNCHANGED <<phase, port, connected, beating, timed, toExt, host, speaks>>

NewMail ==
  /\ Post("new_mail")
  /\ UNCHANGED <<phase, port, connected, beating, timed, toExt, host, speaks>>

\* The interval is far longer than a timeout.
Heartbeat ==
  /\ beating /\ timed = {}
  /\ Post("ping")
  /\ timed' = timed \cup {NextId}
  /\ UNCHANGED <<phase, port, connected, beating, toExt, host, speaks>>

\* The request stays in pending: a late answer finds a settled promise.
Timeout(id) ==
  /\ id \in timed
  /\ timed' = timed \ {id}
  /\ requests' = Settle({id}, "rejected")
  /\ phase' = IF IsHello(id) \/ phase = "ready" THEN "disconnected" ELSE phase
  /\ UNCHANGED <<port, connected, beating, pending, toHost, toExt, host, speaks>>

\* What the handlers behind a hello or a ping make of its answer.
PhaseOnAnswer(id, ok) ==
  IF requests[id].outcome # "open" THEN phase
  ELSE CASE IsHello(id) /\ ok  -> IF speaks[port] THEN "ready" ELSE "version_mismatch"
         [] IsHello(id) /\ ~ok -> "disconnected"
         [] requests[id].kind = "ping" /\ ~ok /\ phase = "ready" -> "disconnected"
         [] OTHER -> phase

\* A response; one whose id is not pending is ignored.
HandleAnswer ==
  /\ connected /\ toExt[port] # <<>>
  /\ toExt' = [toExt EXCEPT ![port] = Tail(@)]
  /\ LET id == Head(toExt[port]).id
         ok == Head(toExt[port]).ok
     IN  IF id \in pending
         THEN /\ pending' = pending \ {id}
              /\ timed' = timed \ {id}
              /\ requests' = Settle({id}, IF ok THEN "resolved" ELSE "rejected")
              /\ phase' = PhaseOnAnswer(id, ok)
         ELSE UNCHANGED <<pending, timed, requests, phase>>
  /\ UNCHANGED <<port, connected, beating, toHost, host, speaks>>

\* Mutant: the pending requests are left to themselves.
OnDisconnectKeepsPending ==
  /\ connected /\ host[port] = "gone" /\ toExt[port] = <<>>
  /\ connected' = FALSE /\ beating' = FALSE
  /\ phase' = "disconnected"
  /\ UNCHANGED <<port, pending, timed, requests, toHost, toExt, host, speaks>>

\* Mutant: the status is left to the next heartbeat.
OnDisconnectKeepsPhase ==
  /\ connected /\ host[port] = "gone" /\ toExt[port] = <<>>
  /\ connected' = FALSE /\ beating' = FALSE
  /\ requests' = Settle(pending, "rejected")
  /\ pending' = {} /\ timed' = {}
  /\ UNCHANGED <<phase, port, toHost, toExt, host, speaks>>

\* The host hung up; everything it wrote was delivered before.
OnDisconnect ==
  /\ connected /\ host[port] = "gone" /\ toExt[port] = <<>>
  /\ connected' = FALSE /\ beating' = FALSE
  /\ requests' = Settle(pending, "rejected")
  /\ pending' = {} /\ timed' = {}
  /\ phase' = "disconnected"
  /\ UNCHANGED <<port, toHost, toExt, host, speaks>>

\* Retry, from any surface and in any phase. A handshake that was under way
\* is rejected, and its handler runs after the new connection has begun. What
\* the old host answers from now on is not heard; the new host may be another
\* build, of another protocol.
Reconnect ==
  /\ port < MaxPorts /\ NextId <= MaxRequests
  /\ port' = port + 1 /\ connected' = TRUE /\ beating' = TRUE
  /\ requests' = Append(Settle(pending, "rejected"), Made("hello", port + 1))
  /\ pending' = {NextId} /\ timed' = {NextId}
  /\ phase' = IF \E id \in timed : IsHello(id) THEN "disconnected" ELSE "connecting"
  /\ toHost' = [toHost EXCEPT ![port + 1] = <<NextId>>]
  /\ host' = [host EXCEPT ![port + 1] = "launching"]
  /\ toExt' = [toExt EXCEPT ![port] = <<>>]
  /\ \E b \in BOOLEAN : speaks' = [speaks EXCEPT ![port + 1] = b]

-----------------------------------------------------------------------------
(* A host process *)

Listening(p) == p = port /\ connected

\* The launch drain is over.
BeginServing(p) ==
  /\ host[p] = "launching"
  /\ host' = [host EXCEPT ![p] = "serving"]
  /\ UNCHANGED <<page, toHost, toExt, speaks>>

\* A frame of another protocol is answered with an error, hello included;
\* new_mail has no response otherwise. On a closed port the answer is lost.
Serve(p) ==
  /\ host[p] = "serving" /\ toHost[p] # <<>>
  /\ LET id == Head(toHost[p])
     IN  /\ requests' = IF speaks[p] THEN [requests EXCEPT ![id].served = @ + 1] ELSE requests
         /\ toExt' = IF Listening(p) /\ (speaks[p] => requests[id].kind # "new_mail")
                     THEN [toExt EXCEPT ![p] = Append(@, [id |-> id, ok |-> speaks[p]])]
                     ELSE toExt
  /\ toHost' = [toHost EXCEPT ![p] = Tail(@)]
  /\ UNCHANGED <<phase, port, connected, beating, pending, timed, host, speaks>>

\* A call the host fails to carry out: an error response.
ServeFails(p) ==
  /\ host[p] = "serving" /\ toHost[p] # <<>> /\ speaks[p]
  /\ requests[Head(toHost[p])].kind = "call"
  /\ toExt' = IF Listening(p)
              THEN [toExt EXCEPT ![p] = Append(@, [id |-> Head(toHost[p]), ok |-> FALSE])]
              ELSE toExt
  /\ toHost' = [toHost EXCEPT ![p] = Tail(@)]
  /\ UNCHANGED <<page, host, speaks>>

\* End of input, after the frames that were already in the pipe.
Exit(p) ==
  /\ host[p] = "serving" /\ ~Listening(p) /\ toHost[p] = <<>>
  /\ host' = [host EXCEPT ![p] = "gone"]
  /\ UNCHANGED <<page, toHost, toExt, speaks>>

\* A crash, a failed launch, or Thunderbird killing a host that lingers.
Die(p) ==
  /\ host[p] \in {"launching", "serving"}
  /\ host' = [host EXCEPT ![p] = "gone"]
  /\ toHost' = [toHost EXCEPT ![p] = <<>>]
  /\ UNCHANGED <<page, toExt, speaks>>

-----------------------------------------------------------------------------

PageStep ==
  \/ HandleAnswer
  \/ OnDisconnect
  \/ \E id \in Ids : Timeout(id)

HostStep(p) == BeginServing(p) \/ Serve(p) \/ ServeFails(p) \/ Exit(p)

Environment == Call \/ NewMail \/ Heartbeat \/ Reconnect \/ \E p \in Ports : Die(p)

Next == PageStep \/ Environment \/ \E p \in Ports : HostStep(p)

Spec == Init /\ [][Next]_vars

\* The page handles its events and its timers fire; a host that neither
\* crashed nor was closed gets on with what it reads. Nobody has to retry.
FairSpec ==
  /\ Spec
  /\ WF_vars(HandleAnswer) /\ WF_vars(OnDisconnect)
  /\ WF_vars(\E id \in Ids : Timeout(id))
  /\ \A p \in Ports : WF_vars(HostStep(p))

-----------------------------------------------------------------------------
(* Properties *)

Request == [kind : Kinds, port : Ports, outcome : {"open", "resolved", "rejected"},
            served : Nat]

\* Every queue, map and timer holds requests that were made.
TypeOK ==
  /\ phase \in {"connecting", "ready", "disconnected", "version_mismatch"}
  /\ port \in Ports /\ connected \in BOOLEAN /\ beating \in BOOLEAN
  /\ requests \in Seq(Request)
  /\ pending \subseteq Ids /\ timed \subseteq Ids
  /\ toHost \in [Ports -> Seq(Ids)]
  /\ toExt \in [Ports -> Seq([id : Ids, ok : BOOLEAN])]
  /\ host \in [Ports -> {"absent", "launching", "serving", "gone"}]
  /\ speaks \in [Ports -> BOOLEAN]

\* The status never claims a connection it has not: ready means that the host
\* of the port the page holds now answered this port's own handshake in this
\* protocol, and has not hung up since, whatever was answered late, timed out
\* or was retried before.
ReadyIsAnswered ==
  phase = "ready" =>
    /\ connected /\ speaks[port]
    /\ \E id \in Ids : IsHello(id) /\ requests[id].port = port
                         /\ requests[id].outcome = "resolved"

\* Every call is answered or rejected in the end: no button waits for ever,
\* over crashes, retries and late answers.
CallsSettle ==
  \A id \in 1 .. MaxRequests :
    (id \in pending) ~> (id \notin pending)

\* A handshake that a host of another protocol answers in time ends in the
\* calm state version_mismatch, not in disconnected.
MismatchIsReported ==
  [][\A id \in timed :
       /\ IsHello(id) /\ ~speaks[port]
       /\ toExt[port] # <<>> /\ Head(toExt[port]).id = id
       /\ port' = port /\ toExt' # toExt /\ id \notin pending'
       => phase' = "version_mismatch"]_vars
=============================================================================

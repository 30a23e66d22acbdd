--------------------------- MODULE ExtensionProofs ---------------------------
(***************************************************************************)
(* Theorems about the extension's background page and the host at the      *)
(* other end of its port: the port and its status (NativeChannel), for     *)
(* every number of ports and requests; standard output (HostWire), for     *)
(* every input; the dashboard buffers (SessionBuffer), for any decisions,  *)
(* instances, handlers and cap.                                            *)
(***************************************************************************)
EXTENDS MCChannel, SessionBuffer, SequenceTheorems, TLAPS

-----------------------------------------------------------------------------
(* The requests that were made *)

\* A request that was made stays: it goes on being what it is, of the port it
\* was made on, and an answer it was given stands.
Kept(r, s) ==
  /\ s \in Request
  /\ s.kind = r.kind /\ s.port = r.port
  /\ r.outcome # "open" => s.outcome = r.outcome

RequestsKept ==
  /\ requests' \in Seq(Request)
  /\ Len(requests') >= Len(requests)
  /\ \A id \in Ids : Kept(requests[id], requests'[id])

LEMMA MadeType ==
  ASSUME NEW kind \in Kinds, NEW p \in Ports
  PROVE  /\ Made(kind, p) \in Request
         /\ [Made(kind, p) EXCEPT !.outcome = "rejected"] \in Request
         /\ Made(kind, p).kind = kind /\ Made(kind, p).port = p
  BY DEF Made, Request

LEMMA SettleKeeps ==
  ASSUME requests \in Seq(Request), NEW ids, NEW outcome \in {"resolved", "rejected"}
  PROVE  /\ Settle(ids, outcome) \in Seq(Request)
         /\ Len(Settle(ids, outcome)) = Len(requests)
         /\ \A id \in Ids : Kept(requests[id], Settle(ids, outcome)[id])
         /\ \A id \in Ids : id \in ids /\ requests[id].outcome = "open"
                              => Settle(ids, outcome)[id].outcome = outcome
<1> DEFINE s == Settle(ids, outcome)
<1>1. Len(requests) \in Nat /\ requests \in [Ids -> Request]
  BY LenProperties DEF Ids
<1>2. s = [id \in Ids |-> IF id \in Open(ids) THEN [requests[id] EXCEPT !.outcome = outcome]
                          ELSE requests[id]]
  BY DEF Settle
<1>3. \A id \in Ids : s[id] \in Request /\ Kept(requests[id], s[id])
  BY <1>1, <1>2 DEF Kept, Open, Request
<1>4. s \in [1 .. Len(requests) -> Request]
  BY <1>2, <1>3 DEF Ids
<1>5. s \in Seq(Request) /\ Len(s) = Len(requests)
  BY <1>1, <1>4
<1>6. ASSUME NEW id \in Ids, id \in ids, requests[id].outcome = "open"
      PROVE  s[id].outcome = outcome
  BY <1>1, <1>2, <1>6 DEF Open, Request
<1>. QED BY <1>3, <1>5, <1>6

LEMMA AppendKeeps ==
  ASSUME requests \in Seq(Request), NEW r \in Request, requests' = Append(requests, r)
  PROVE  RequestsKept /\ Len(requests') = NextId /\ requests'[NextId] = r
<1>1. /\ Append(requests, r) \in Seq(Request)
      /\ Len(Append(requests, r)) = Len(requests) + 1
      /\ \A id \in Ids : Append(requests, r)[id] = requests[id]
      /\ Append(requests, r)[NextId] = r
  BY DEF Ids, NextId
<1>2. \A id \in Ids : requests[id] \in Request
  BY ElementOfSeq DEF Ids
<1>3. Len(requests) \in Nat
  OBVIOUS
<1>. QED BY <1>1, <1>2, <1>3 DEF RequestsKept, Kept, NextId, Ids

LEMMA ServedKeeps ==
  ASSUME requests \in Seq(Request), NEW id \in Ids,
         requests' = [requests EXCEPT ![id].served = @ + 1]
  PROVE  RequestsKept /\ Len(requests') = Len(requests)
<1>0. Len(requests) \in Nat /\ requests \in [Ids -> Request]
  BY LenProperties DEF Ids
<1>1. requests[id] \in Request
  BY <1>0
<1>2. requests[id].served + 1 \in Nat
  BY <1>1 DEF Request
<1>3. [requests[id] EXCEPT !.served = @ + 1] \in Request
  BY <1>1, <1>2 DEF Request
<1>4. requests' = [requests EXCEPT ![id] = [requests[id] EXCEPT !.served = @ + 1]]
  BY <1>0
<1>5. /\ requests' \in Seq(Request) /\ Len(requests') = Len(requests)
      /\ \A j \in Ids : requests'[j] = IF j = id THEN [requests[id] EXCEPT !.served = @ + 1]
                                       ELSE requests[j]
  BY <1>3, <1>4, ExceptSeq DEF Ids
<1>6. Kept(requests[id], [requests[id] EXCEPT !.served = @ + 1])
  BY <1>1, <1>3 DEF Kept, Request
<1>. QED BY <1>0, <1>5, <1>6 DEF RequestsKept, Kept

\* What holds requests by their ids goes on doing so.
LEMMA IdsGrow ==
  ASSUME requests \in Seq(Request), RequestsKept
  PROVE  /\ Ids \subseteq Ids'
         /\ \A q \in Seq(Ids) : q \in Seq(Ids')
         /\ \A q \in Seq([id : Ids, ok : BOOLEAN]) : q \in Seq([id : Ids', ok : BOOLEAN])
<1>1. Ids \subseteq Ids'
  <2>1. Len(requests) \in Nat /\ Len(requests') \in Nat
    BY LenProperties DEF RequestsKept
  <2>. QED BY <2>1 DEF RequestsKept, Ids
<1>2. [id : Ids, ok : BOOLEAN] \subseteq [id : Ids', ok : BOOLEAN]
  BY <1>1
<1>. QED BY <1>1, <1>2, SeqMonotonic

-----------------------------------------------------------------------------
(* Types *)

Wires ==
  /\ toHost \in [Ports -> Seq(Ids)]
  /\ toExt \in [Ports -> Seq([id : Ids, ok : BOOLEAN])]

LEMMA FirstPort == 1 \in Ports /\ Ports \subseteq Nat
  BY BoundsAssumption DEF Ports

LEMMA TypeInit == Init => TypeOK
<1>. SUFFICES ASSUME Init PROVE TypeOK
  OBVIOUS
<1>1. Made("hello", 1) \in Request
  BY MadeType, FirstPort DEF Kinds
<1>2. requests \in Seq(Request) /\ Len(requests) = 1
  BY <1>1 DEF Init
<1>3. 1 \in Ids
  BY <1>2 DEF Ids
<1>4. <<>> \in Seq(Ids) /\ <<1>> \in Seq(Ids) /\ <<>> \in Seq([id : Ids, ok : BOOLEAN])
  BY <1>3
<1>5. Wires
  BY <1>4 DEF Init, Wires
<1>6. host \in [Ports -> {"absent", "launching", "serving", "gone"}]
  BY DEF Init
<1>7. speaks \in [Ports -> BOOLEAN]
  BY DEF Init
<1>. QED BY <1>2, <1>3, <1>5, <1>6, <1>7, FirstPort DEF Init, TypeOK, Wires

\* A request that is posted.
LEMMA PostType ==
  ASSUME TypeOK, NEW kind \in Kinds, Post(kind), port' = port
  PROVE  /\ RequestsKept /\ Len(requests') = NextId /\ NextId \in Ids'
         /\ requests'[NextId].port = port
         /\ pending' \subseteq Ids' /\ (connected \/ pending' = pending)
         /\ pending' \subseteq pending \cup {NextId}
         /\ toHost' \in [Ports -> Seq(Ids')]
<1>1. port \in Ports /\ requests \in Seq(Request) /\ pending \subseteq Ids
  BY DEF TypeOK
<1>2. PICK r \in Request : r.port = port /\ requests' = Append(requests, r)
  BY <1>1, MadeType DEF Post, Made
<1>3. RequestsKept /\ Len(requests') = NextId /\ requests'[NextId] = r
  BY <1>1, <1>2, AppendKeeps
<1>4. NextId \in Ids' /\ Ids \subseteq Ids' /\ \A q \in Seq(Ids) : q \in Seq(Ids')
  <2>1. Len(requests) \in Nat
    BY <1>1
  <2>. QED BY <1>1, <1>3, <2>1, IdsGrow DEF Ids, NextId
<1>5. toHost' \in [Ports -> Seq(Ids')]
  <2>1. toHost \in [Ports -> Seq(Ids')]
    BY <1>4 DEF TypeOK
  <2>2. toHost[port] \in Seq(Ids')
    BY <1>1, <2>1
  <2>3. Append(toHost[port], NextId) \in Seq(Ids')
    BY <1>4, <2>2
  <2>. QED BY <1>1, <2>1, <2>3 DEF Post
<1>6. /\ connected \/ pending' = pending
      /\ pending' \subseteq pending \cup {NextId}
  BY DEF Post
<1>. QED BY <1>1, <1>2, <1>3, <1>4, <1>5, <1>6

\* A step that leaves the requests alone.
LEMMA RequestsFrame ==
  ASSUME requests \in Seq(Request), UNCHANGED requests
  PROVE  RequestsKept /\ Ids' = Ids
<1>1. \A id \in Ids : requests[id] \in Request
  BY ElementOfSeq DEF Ids
<1>2. Len(requests) \in Nat
  BY LenProperties
<1>. QED BY <1>1, <1>2 DEF RequestsKept, Kept, Ids

\* A step that settles some requests, or none, and makes none.
LEMMA SettleStep ==
  ASSUME TypeOK, NEW ids, NEW outcome \in {"resolved", "rejected"},
         requests' = Settle(ids, outcome)
  PROVE  RequestsKept /\ Ids' = Ids
  BY SettleKeeps DEF TypeOK, RequestsKept, Ids

LEMMA HandleAnswerType == TypeOK /\ HandleAnswer => TypeOK' /\ RequestsKept /\ Ids' = Ids
<1>. SUFFICES ASSUME TypeOK, HandleAnswer
              PROVE  TypeOK' /\ RequestsKept /\ Ids' = Ids
  OBVIOUS
<1> DEFINE a == Head(toExt[port])
<1>1. /\ port \in Ports /\ toExt[port] \in Seq([id : Ids, ok : BOOLEAN]) /\ toExt[port] # <<>>
  BY DEF TypeOK, HandleAnswer
<1>2. /\ a.id \in Ids /\ a.ok \in BOOLEAN
      /\ Tail(toExt[port]) \in Seq([id : Ids, ok : BOOLEAN])
  <2>1. a \in [id : Ids, ok : BOOLEAN] /\ Tail(toExt[port]) \in Seq([id : Ids, ok : BOOLEAN])
    BY <1>1, HeadTailProperties
  <2>. QED BY <2>1
<1>3. toExt' \in [Ports -> Seq([id : Ids, ok : BOOLEAN])]
  BY <1>1, <1>2 DEF HandleAnswer, TypeOK
<1>4. RequestsKept /\ Ids' = Ids
  <2>1. CASE a.id \in pending
    <3>1. requests' = Settle({a.id}, IF a.ok THEN "resolved" ELSE "rejected")
      BY <2>1 DEF HandleAnswer
    <3>. QED BY <3>1, SettleStep
  <2>2. CASE a.id \notin pending
    BY <2>2, RequestsFrame DEF HandleAnswer, TypeOK
  <2>. QED BY <2>1, <2>2
<1>5. phase' \in {"connecting", "ready", "disconnected", "version_mismatch"}
  BY DEF HandleAnswer, PhaseOnAnswer, TypeOK
<1>6. pending' \subseteq Ids /\ timed' \subseteq Ids
  BY DEF HandleAnswer, TypeOK
<1>. QED BY <1>3, <1>4, <1>5, <1>6 DEF HandleAnswer, TypeOK, RequestsKept

LEMMA ReconnectType == TypeOK /\ Reconnect => TypeOK' /\ RequestsKept /\ requests'[NextId].port = port'
<1>. SUFFICES ASSUME TypeOK, Reconnect
              PROVE  TypeOK' /\ RequestsKept /\ requests'[NextId].port = port'
  OBVIOUS
<1> DEFINE s == Settle(pending, "rejected")
           r == Made("hello", port + 1)
<1>1. port \in Ports /\ port + 1 \in Ports /\ requests \in Seq(Request)
  BY BoundsAssumption DEF TypeOK, Reconnect, Ports
<1>2. r \in Request /\ r.port = port + 1
  BY <1>1, MadeType DEF Kinds
<1>3. s \in Seq(Request) /\ Len(s) = Len(requests) /\ \A id \in Ids : Kept(requests[id], s[id])
  BY <1>1, SettleKeeps
<1>4. requests' = Append(s, r)
  BY DEF Reconnect
<1>5. /\ requests' \in Seq(Request) /\ Len(requests') = NextId
      /\ \A id \in Ids : requests'[id] = s[id]
      /\ requests'[NextId] = r
  <2> HIDE DEF s, r
  <2>. QED BY <1>2, <1>3, <1>4 DEF Ids, NextId
<1>6. Len(requests) \in Nat /\ NextId \in Ids'
  BY <1>1, <1>5 DEF Ids, NextId
<1>7. RequestsKept
  <2> HIDE DEF s, r
  <2>. QED BY <1>3, <1>5, <1>6 DEF RequestsKept, Kept, NextId
<1>8. toHost' \in [Ports -> Seq(Ids')]
  <2>1. <<NextId>> \in Seq(Ids')
    BY <1>6
  <2>2. toHost \in [Ports -> Seq(Ids')]
    BY <1>1, <1>7, IdsGrow DEF TypeOK
  <2>. QED BY <1>1, <2>1, <2>2 DEF Reconnect
<1>9. toExt' \in [Ports -> Seq([id : Ids', ok : BOOLEAN])]
  <2>1. <<>> \in Seq([id : Ids', ok : BOOLEAN])
    OBVIOUS
  <2>2. toExt \in [Ports -> Seq([id : Ids', ok : BOOLEAN])]
    BY <1>1, <1>7, IdsGrow DEF TypeOK
  <2>. QED BY <1>1, <2>1, <2>2 DEF Reconnect
<1>10. /\ host' \in [Ports -> {"absent", "launching", "serving", "gone"}]
       /\ speaks' \in [Ports -> BOOLEAN]
  BY DEF Reconnect, TypeOK
<1>. QED
  BY <1>1, <1>2, <1>5, <1>6, <1>7, <1>8, <1>9, <1>10 DEF Reconnect, TypeOK

\* What a host leaves of the wires and of the requests.
LEMMA ServeType ==
  ASSUME TypeOK, NEW p \in Ports, Serve(p) \/ ServeFails(p)
  PROVE  TypeOK' /\ RequestsKept /\ Ids' = Ids
<1> DEFINE id == Head(toHost[p])
<1>1. toHost[p] \in Seq(Ids) /\ toHost[p] # <<>>
  BY DEF TypeOK, Serve, ServeFails
<1>2. id \in Ids /\ Tail(toHost[p]) \in Seq(Ids)
  BY <1>1, HeadTailProperties
<1>3. toHost' \in [Ports -> Seq(Ids)]
  BY <1>2 DEF TypeOK, Serve, ServeFails
<1>4. toExt' \in [Ports -> Seq([id : Ids, ok : BOOLEAN])]
  <2>1. \A ok \in BOOLEAN : Append(toExt[p], [id |-> id, ok |-> ok]) \in Seq([id : Ids, ok : BOOLEAN])
    <3>1. toExt[p] \in Seq([id : Ids, ok : BOOLEAN])
      BY DEF TypeOK
    <3>2. \A ok \in BOOLEAN : [id |-> id, ok |-> ok] \in [id : Ids, ok : BOOLEAN]
      BY <1>2
    <3>. QED BY <3>1, <3>2
  <2>2. speaks[p] \in BOOLEAN
    BY DEF TypeOK
  <2>3. CASE Serve(p)
    BY <2>1, <2>2, <2>3 DEF Serve, TypeOK
  <2>4. CASE ServeFails(p)
    BY <2>1, <2>4 DEF ServeFails, TypeOK
  <2>. QED BY <2>3, <2>4
<1>5. RequestsKept /\ Ids' = Ids
  <2>1. CASE Serve(p) /\ speaks[p]
    BY <1>2, <2>1, ServedKeeps DEF Serve, TypeOK, Ids
  <2>2. CASE UNCHANGED requests
    BY <2>2, RequestsFrame DEF TypeOK
  <2>. QED BY <2>1, <2>2 DEF Serve, ServeFails, page
<1>6. UNCHANGED <<phase, port, connected, beating, pending, timed, host, speaks>>
  BY DEF Serve, ServeFails, page
<1>. QED BY <1>3, <1>4, <1>5, <1>6 DEF TypeOK, RequestsKept

LEMMA PostedType ==
  ASSUME TypeOK, Call \/ NewMail \/ Heartbeat
  PROVE  /\ TypeOK' /\ RequestsKept
         /\ NextId \in Ids' /\ requests'[NextId].port = port
         /\ pending' \subseteq pending \cup {NextId}
<1>1. PICK kind \in Kinds : Post(kind)
  BY DEF Call, NewMail, Heartbeat, Kinds
<1>2. UNCHANGED <<phase, port, connected, beating, toExt, host, speaks>>
  BY DEF Call, NewMail, Heartbeat
<1>3. /\ RequestsKept /\ Len(requests') = NextId /\ NextId \in Ids'
      /\ requests'[NextId].port = port
      /\ pending' \subseteq Ids'
      /\ pending' \subseteq pending \cup {NextId}
      /\ toHost' \in [Ports -> Seq(Ids')]
  BY <1>1, <1>2, PostType
<1>4. /\ Ids \subseteq Ids'
      /\ \A q \in Seq([id : Ids, ok : BOOLEAN]) : q \in Seq([id : Ids', ok : BOOLEAN])
  BY <1>3, IdsGrow DEF TypeOK
<1>5. toExt' \in [Ports -> Seq([id : Ids', ok : BOOLEAN])]
  BY <1>2, <1>4 DEF TypeOK
<1>6. timed' \subseteq Ids'
  BY <1>3, <1>4 DEF Call, NewMail, Heartbeat, TypeOK
<1>. QED BY <1>2, <1>3, <1>5, <1>6 DEF TypeOK, RequestsKept

\* Every step keeps the requests that were made.
LEMMA TypeStep == TypeOK /\ [Next]_vars => TypeOK' /\ RequestsKept
<1>. SUFFICES ASSUME TypeOK, [Next]_vars
              PROVE  TypeOK' /\ RequestsKept
  OBVIOUS
<1>1. CASE HandleAnswer
  BY <1>1, HandleAnswerType
<1>2. CASE OnDisconnect
  <2>1. RequestsKept /\ Ids' = Ids
    BY <1>2, SettleStep DEF OnDisconnect
  <2>. QED BY <1>2, <2>1 DEF OnDisconnect, TypeOK, RequestsKept
<1>3. ASSUME NEW id \in Ids, Timeout(id)
      PROVE  TypeOK' /\ RequestsKept
  <2>1. RequestsKept /\ Ids' = Ids
    BY <1>3, SettleStep DEF Timeout
  <2>. QED BY <1>3, <2>1 DEF Timeout, TypeOK, RequestsKept
<1>4. CASE Call \/ NewMail \/ Heartbeat
  BY <1>4, PostedType
<1>5. CASE Reconnect
  BY <1>5, ReconnectType
<1>6. ASSUME NEW p \in Ports, Die(p) \/ BeginServing(p) \/ Exit(p)
      PROVE  TypeOK' /\ RequestsKept
  <2>1. UNCHANGED <<page, toExt, speaks>> /\ UNCHANGED requests
    BY <1>6 DEF Die, BeginServing, Exit, page
  <2>2. RequestsKept /\ Ids' = Ids
    BY <2>1, RequestsFrame DEF TypeOK
  <2>3. toHost' \in [Ports -> Seq(Ids)]
    <3>1. <<>> \in Seq(Ids)
      OBVIOUS
    <3>2. toHost' = toHost \/ toHost' = [toHost EXCEPT ![p] = <<>>]
      BY <1>6 DEF Die, BeginServing, Exit
    <3>. QED BY <3>1, <3>2 DEF TypeOK
  <2>4. host' \in [Ports -> {"absent", "launching", "serving", "gone"}]
    BY <1>6 DEF Die, BeginServing, Exit, TypeOK
  <2>. QED BY <2>1, <2>2, <2>3, <2>4 DEF page, TypeOK
<1>7. ASSUME NEW p \in Ports, Serve(p) \/ ServeFails(p)
      PROVE  TypeOK' /\ RequestsKept
  BY <1>7, ServeType
<1>8. CASE UNCHANGED vars
  <2>1. RequestsKept /\ Ids' = Ids
    BY <1>8, RequestsFrame DEF vars, page, TypeOK
  <2>. QED BY <1>8, <2>1 DEF vars, page, TypeOK
<1>. QED
  BY <1>1, <1>2, <1>3, <1>4, <1>5, <1>6, <1>7, <1>8
  DEF Next, PageStep, Environment, HostStep

\* In every reachable state the variables have their types.
THEOREM TypeCorrect == Spec => []TypeOK
<1>. QED BY TypeInit, TypeStep, PTL DEF Spec

-----------------------------------------------------------------------------
(* The status *)

\* The handshake a ready page rests on.
Answered ==
  \E id \in Ids : IsHello(id) /\ requests[id].port = port /\ requests[id].outcome = "resolved"

\* What is pending was asked on the port the page holds: an answer to it can
\* only be that port's.
PendingIsCurrent == \A id \in pending : requests[id].port = port

StatusInv == PendingIsCurrent /\ ReadyIsAnswered

LEMMA StatusInit == Init => StatusInv
  BY DEF Init, StatusInv, PendingIsCurrent, ReadyIsAnswered, Made

\* A handshake that was answered stays answered while the port is the same.
LEMMA AnsweredStays ==
  ASSUME TypeOK, RequestsKept, UNCHANGED port, Answered
  PROVE  Answered'
<1>1. PICK id \in Ids : IsHello(id) /\ requests[id].port = port /\ requests[id].outcome = "resolved"
  BY DEF Answered
<1>2. id \in Ids' /\ Kept(requests[id], requests'[id])
  BY IdsGrow DEF TypeOK, RequestsKept
<1>3. \A k \in Ids' : k = id => IsHello(k)' /\ requests'[k].port = port'
                                  /\ requests'[k].outcome = "resolved"
  BY <1>1, <1>2 DEF Kept, IsHello
<1>. QED BY <1>2, <1>3 DEF Answered

\* A step that keeps the port, and neither readies the status nor loses the
\* connection a ready one claims.
LEMMA StatusFrame ==
  ASSUME TypeOK, StatusInv, RequestsKept, UNCHANGED <<port, speaks>>,
         \A id \in pending' : id \in pending \/ requests'[id].port = port,
         phase' = "ready" => phase = "ready" /\ connected' = connected
  PROVE  StatusInv'
<1>1. PendingIsCurrent'
  <2>1. ASSUME NEW id \in pending
        PROVE  requests'[id].port = port'
    <3>1. id \in Ids
      BY DEF TypeOK
    <3>. QED BY <3>1 DEF RequestsKept, Kept, StatusInv, PendingIsCurrent
  <2>. QED BY <2>1 DEF PendingIsCurrent
<1>2. ReadyIsAnswered'
  <2>. SUFFICES ASSUME phase' = "ready"
                PROVE  connected' /\ speaks[port] /\ Answered'
    BY DEF ReadyIsAnswered, Answered
  <2>1. connected' /\ speaks[port] /\ Answered
    BY DEF StatusInv, ReadyIsAnswered, Answered
  <2>. QED BY <2>1, AnsweredStays
<1>. QED BY <1>1, <1>2 DEF StatusInv

LEMMA HandleAnswerStatus ==
  ASSUME TypeOK, StatusInv, HandleAnswer
  PROVE  StatusInv'
<1> DEFINE a == Head(toExt[port])
<1>1. RequestsKept /\ Ids' = Ids
  BY HandleAnswerType
<1>2. UNCHANGED <<port, speaks, connected>> /\ connected /\ pending' \subseteq pending
  BY DEF HandleAnswer
<1>3. CASE phase' # "ready" \/ phase = "ready"
  BY <1>1, <1>2, <1>3, StatusFrame
<1>4. CASE phase' = "ready" /\ phase # "ready"
  <2>1. /\ a.id \in pending /\ a.ok
        /\ phase' = PhaseOnAnswer(a.id, a.ok)
        /\ requests' = Settle({a.id}, IF a.ok THEN "resolved" ELSE "rejected")
    <3>1. toExt[port] \in Seq([id : Ids, ok : BOOLEAN]) /\ toExt[port] # <<>>
      BY DEF TypeOK, HandleAnswer
    <3>2. a \in [id : Ids, ok : BOOLEAN]
      BY <3>1, HeadTailProperties
    <3>3. a.id \in pending
      BY <1>4 DEF HandleAnswer
    <3>4. /\ phase' = PhaseOnAnswer(a.id, a.ok)
          /\ requests' = Settle({a.id}, IF a.ok THEN "resolved" ELSE "rejected")
      BY <3>3 DEF HandleAnswer
    <3> HIDE DEF a
    <3>. QED BY <1>4, <3>2, <3>3, <3>4 DEF PhaseOnAnswer
  <2> HIDE DEF a
  <2>2. requests[a.id].outcome = "open" /\ IsHello(a.id) /\ speaks[port]
    BY <1>4, <2>1 DEF PhaseOnAnswer
  <2>3. a.id \in Ids /\ requests[a.id].port = port
    BY <2>1 DEF TypeOK, StatusInv, PendingIsCurrent
  <2>4. requests'[a.id].outcome = "resolved"
    BY <2>1, <2>2, <2>3, SettleKeeps DEF TypeOK
  <2>5. requests'[a.id].port = port /\ requests'[a.id].kind = "hello"
    BY <1>1, <2>2, <2>3 DEF RequestsKept, Kept, IsHello
  <2>6. ReadyIsAnswered'
    <3>1. \A k \in Ids' : k = a.id => IsHello(k)' /\ requests'[k].port = port'
                                        /\ requests'[k].outcome = "resolved"
      BY <1>2, <2>4, <2>5 DEF IsHello
    <3>. QED BY <1>1, <1>2, <2>2, <2>3, <3>1 DEF ReadyIsAnswered
  <2>7. PendingIsCurrent'
    <3>1. ASSUME NEW id \in pending'
          PROVE  requests'[id].port = port'
      <4>1. id \in Ids /\ requests[id].port = port
        BY <1>2 DEF TypeOK, StatusInv, PendingIsCurrent
      <4>. QED BY <1>1, <1>2, <4>1 DEF RequestsKept, Kept
    <3>. QED BY <3>1 DEF PendingIsCurrent
  <2>. QED BY <2>6, <2>7 DEF StatusInv
<1>. QED BY <1>3, <1>4

LEMMA StatusStep == TypeOK /\ StatusInv /\ [Next]_vars => StatusInv'
<1>. SUFFICES ASSUME TypeOK, StatusInv, [Next]_vars
              PROVE  StatusInv'
  OBVIOUS
<1>0. RequestsKept
  BY TypeStep
<1>1. CASE HandleAnswer
  BY <1>1, HandleAnswerStatus
<1>2. CASE OnDisconnect
  BY <1>0, <1>2, StatusFrame DEF OnDisconnect
<1>3. ASSUME NEW id \in Ids, Timeout(id)
      PROVE  StatusInv'
  BY <1>0, <1>3, StatusFrame DEF Timeout
<1>4. CASE Call \/ NewMail \/ Heartbeat
  <2>1. requests'[NextId].port = port /\ pending' \subseteq pending \cup {NextId}
    BY <1>4, PostedType
  <2>2. UNCHANGED <<phase, port, connected, speaks>>
    BY <1>4 DEF Call, NewMail, Heartbeat
  <2>. QED BY <1>0, <2>1, <2>2, StatusFrame
<1>5. CASE Reconnect
  <2>1. requests'[NextId].port = port' /\ pending' = {NextId} /\ phase' # "ready"
    BY <1>5, ReconnectType DEF Reconnect
  <2>. QED BY <2>1 DEF StatusInv, PendingIsCurrent, ReadyIsAnswered
<1>6. ASSUME NEW p \in Ports, Die(p) \/ HostStep(p)
      PROVE  StatusInv'
  <2>1. UNCHANGED <<phase, port, connected, pending, speaks>>
    BY <1>6 DEF Die, HostStep, BeginServing, Serve, ServeFails, Exit, page
  <2>. QED BY <1>0, <2>1, StatusFrame
<1>7. CASE UNCHANGED vars
  BY <1>0, <1>7, StatusFrame DEF vars, page
<1>. QED
  BY <1>1, <1>2, <1>3, <1>4, <1>5, <1>6, <1>7 DEF Next, PageStep, Environment

\* The status claims a connection only when the host of the port the page
\* holds answered this port's own handshake, and has not hung up since.
THEOREM ReadyIsNeverClaimedLate == Spec => []ReadyIsAnswered
<1>1. Spec => [](TypeOK /\ StatusInv)
  BY TypeInit, TypeStep, StatusInit, StatusStep, PTL DEF Spec
<1>2. TypeOK /\ StatusInv => ReadyIsAnswered
  BY DEF StatusInv
<1>. QED BY <1>1, <1>2, PTL

-----------------------------------------------------------------------------
(* Standard output of a host (HostWire)                                    *)

Frame == [is : {"response", "draft", "attention", "card", "command"}, id : Int, big : BOOLEAN]
Part  == [part : {"length", "body"}, frame : Frame]

FramesTyped ==
  /\ main = [at |-> main.at, frames |-> main.frames] /\ main.frames \in Seq(Frame)
  /\ worker = [at |-> worker.at, frames |-> worker.frames] /\ worker.frames \in Seq(Frame)
  /\ out \in Seq(Part)
  /\ taken \in Nat

\* A thread that decides what to send next has sent what it had before: the
\* frames of a thread are replaced only when none is under way.
NothingLeftBehind ==
  /\ main.at = "starting" => main.frames = <<>>
  /\ worker.at # "draining" => worker.frames = <<>>
  /\ main.at \in {"starting", "draining"} => worker.at = "absent"

\* The thread in the writer has sent the length of its first frame and no
\* more; with nobody in the writer the output ends with a body, unless the
\* pipe broke under a frame.
LockInv ==
  /\ \A t \in W!Threads :
       lock = t => /\ W!Frames(t) # <<>> /\ ~Head(W!Frames(t)).big
                   /\ Len(out) % 2 = 1 /\ out[Len(out)].frame = Head(W!Frames(t))
  /\ lock = W!Nobody => broken \/ Len(out) % 2 = 0
  /\ lock \in W!Threads \cup {W!Nobody}

WireInv == FramesTyped /\ NothingLeftBehind /\ LockInv /\ W!FramesAreWhole

LEMMA WireInit == W!Init => WireInv
<1>. SUFFICES ASSUME W!Init PROVE WireInv
  OBVIOUS
<1>1. main = [at |-> "starting", frames |-> <<>>] /\ worker = [at |-> "absent", frames |-> <<>>]
      /\ out = <<>> /\ lock = W!Nobody /\ broken = FALSE /\ taken = 0
  BY DEF W!Init
<1>2. FramesTyped /\ NothingLeftBehind
  BY <1>1 DEF FramesTyped, NothingLeftBehind
<1>3. LockInv
  BY <1>1 DEF LockInv, W!Nobody, W!Threads
<1>4. W!FramesAreWhole
  BY <1>1 DEF W!FramesAreWhole
<1>. QED BY <1>2, <1>3, <1>4 DEF WireInv

LEMMA ShortSeqs ==
  /\ <<>> \in Seq(Frame)
  /\ \A x \in Frame : <<x>> \in Seq(Frame)
  /\ \A x, y \in Frame : <<x, y>> \in Seq(Frame)
  OBVIOUS

\* What a drain announces and what a handler sends are frames.
LEMMA FramesMade ==
  /\ W!Announced \subseteq Seq(Frame) /\ W!NewMailFrames \subseteq Seq(Frame)
  /\ \A id \in Int, big \in BOOLEAN : W!Answer(id, big) \in Frame
  /\ \A id \in Int : W!Answer(id, FALSE) \in Frame
<1>1. /\ \A id \in Int, big \in BOOLEAN : W!Answer(id, big) \in Frame
      /\ \A id \in Int : W!Answer(id, FALSE) \in Frame
  BY DEF W!Answer, Frame
<1>2. /\ W!Notice("draft", TRUE) \in Frame /\ W!Notice("draft", FALSE) \in Frame
      /\ W!Notice("attention", FALSE) \in Frame /\ W!Notice("card", FALSE) \in Frame
      /\ W!Notice("command", FALSE) \in Frame /\ W!Notice("card", TRUE) \in Frame
  BY DEF W!Notice, W!OwnId, Frame
<1>3. W!Announced \subseteq Seq(Frame)
  <2>1. /\ <<>> \in Seq(Frame) /\ <<W!Notice("draft", TRUE)>> \in Seq(Frame)
        /\ <<W!Notice("draft", FALSE), W!Notice("attention", FALSE)>> \in Seq(Frame)
    BY <1>2, ShortSeqs, Zenon
  <2>. QED BY <2>1 DEF W!Announced
<1>4. W!NewMailFrames \subseteq Seq(Frame)
  <2>1. /\ <<>> \in Seq(Frame) /\ <<W!Notice("card", FALSE)>> \in Seq(Frame)
        /\ <<W!Notice("command", FALSE), W!Notice("card", TRUE)>> \in Seq(Frame)
    BY <1>2, ShortSeqs, Zenon
  <2>. QED BY <2>1 DEF W!NewMailFrames
<1>. QED BY <1>1, <1>3, <1>4

\* A thread drops, or replaces, the frame it was at.
LEMMA LeftType ==
  ASSUME FramesTyped, NEW t \in W!Threads, NEW frames \in Seq(Frame), W!Left(t, frames)
  PROVE  /\ main' = [at |-> main.at, frames |-> main'.frames] /\ main'.frames \in Seq(Frame)
         /\ worker' = [at |-> worker.at, frames |-> worker'.frames] /\ worker'.frames \in Seq(Frame)
         /\ W!Frames(t)' = frames
         /\ \A u \in W!Threads \ {t} : W!Frames(u)' = W!Frames(u)
<1>1. CASE t = "main"
  <2>1. main' = [main EXCEPT !.frames = frames] /\ worker' = worker
    BY <1>1 DEF W!Left
  <2>2. main' = [at |-> main.at, frames |-> frames]
    BY <2>1 DEF FramesTyped
  <2>. QED BY <1>1, <2>1, <2>2 DEF FramesTyped, W!Frames, W!Threads
<1>2. CASE t = "worker"
  <2>1. worker' = [worker EXCEPT !.frames = frames] /\ main' = main
    BY <1>2 DEF W!Left
  <2>2. worker' = [at |-> worker.at, frames |-> frames]
    BY <2>1 DEF FramesTyped
  <2>. QED BY <1>2, <2>1, <2>2 DEF FramesTyped, W!Frames, W!Threads
<1>. QED BY <1>1, <1>2 DEF W!Threads

LEMMA FrameAtHead ==
  ASSUME FramesTyped, NEW t \in W!Threads, W!Frames(t) # <<>>
  PROVE  W!Frames(t) \in Seq(Frame) /\ Head(W!Frames(t)) \in Frame /\ Tail(W!Frames(t)) \in Seq(Frame)
  BY HeadTailProperties DEF FramesTyped, W!Frames

LEMMA WriteLengthWhole ==
  ASSUME WireInv, NEW t \in W!Threads, W!WriteLength(t)
  PROVE  WireInv'
<1> DEFINE f == Head(W!Frames(t))
           p == [part |-> "length", frame |-> f]
<1>1. f \in Frame /\ p \in Part /\ ~f.big
  BY FrameAtHead DEF WireInv, W!WriteLength, Part
<1>2. /\ out' = Append(out, p) /\ lock' = t /\ main' = main /\ worker' = worker
      /\ broken' = broken /\ ~broken /\ taken' = taken /\ lock = W!Nobody
      /\ W!Frames(t)' = W!Frames(t) /\ W!Frames(t) # <<>>
  BY DEF W!WriteLength, W!Frames
<1>. HIDE DEF p
<1>3. /\ out \in Seq(Part) /\ Len(out) \in Nat /\ Len(out) % 2 = 0
      /\ Len(out') = Len(out) + 1 /\ out' \in Seq(Part) /\ out'[Len(out')] = p
      /\ \A n \in 1 .. Len(out) : out'[n] = out[n]
  BY <1>1, <1>2 DEF WireInv, FramesTyped, LockInv
<1>4. p.part = "length" /\ p.frame = f
  BY DEF p
<1>5. Len(out') % 2 = 1
  BY <1>3
<1>6. W!FramesAreWhole'
  <2>. SUFFICES ASSUME NEW n \in 1 .. Len(out')
                PROVE  /\ out'[n].part = IF n % 2 = 1 THEN "length" ELSE "body"
                       /\ n % 2 = 0 => out'[n].frame = out'[n - 1].frame
                       /\ ~out'[n].frame.big
    BY <1>3 DEF W!FramesAreWhole
  <2>1. CASE n \in 1 .. Len(out)
    <3>1. n % 2 = 0 => n - 1 \in 1 .. Len(out)
      BY <1>3, <2>1
    <3>2. n \in DOMAIN out
      BY <1>3, <2>1
    <3>. QED BY <1>3, <2>1, <3>1, <3>2 DEF WireInv, W!FramesAreWhole
  <2>2. CASE n = Len(out')
    BY <1>1, <1>3, <1>4, <1>5, <2>2
  <2>. QED BY <1>3, <2>1, <2>2
<1>7. LockInv'
  <2>1. \A u \in W!Threads : lock' = u => u = t
    BY <1>2
  <2>2. lock' # W!Nobody
    BY <1>2 DEF W!Threads, W!Nobody
  <2>. QED BY <1>1, <1>2, <1>3, <1>4, <1>5, <2>1, <2>2 DEF LockInv
<1>8. FramesTyped' /\ NothingLeftBehind'
  BY <1>2, <1>3 DEF WireInv, FramesTyped, NothingLeftBehind
<1>. QED BY <1>6, <1>7, <1>8 DEF WireInv

LEMMA WriteBodyWhole ==
  ASSUME WireInv, NEW t \in W!Threads, W!WriteBody(t)
  PROVE  WireInv'
<1> DEFINE f == Head(W!Frames(t))
           p == [part |-> "body", frame |-> f]
           rest == Tail(W!Frames(t))
<1>1. /\ out' = Append(out, p) /\ lock' = W!Nobody /\ lock = t
      /\ broken' = broken /\ ~broken /\ taken' = taken /\ W!Left(t, rest)
  BY DEF W!WriteBody
<1>2. /\ W!Frames(t) # <<>> /\ ~f.big
      /\ Len(out) % 2 = 1 /\ out[Len(out)].frame = f
  BY <1>1 DEF WireInv, LockInv
<1>3. f \in Frame /\ p \in Part /\ rest \in Seq(Frame)
  BY <1>2, FrameAtHead DEF WireInv, Part
<1>. HIDE DEF p, rest
<1>4. /\ out \in Seq(Part) /\ Len(out) \in Nat
      /\ Len(out') = Len(out) + 1 /\ out' \in Seq(Part) /\ out'[Len(out')] = p
      /\ \A n \in 1 .. Len(out) : out'[n] = out[n]
  BY <1>1, <1>3 DEF WireInv, FramesTyped
<1>5. p.part = "body" /\ p.frame = f
  BY DEF p
<1>6. Len(out') % 2 = 0 /\ Len(out) \in 1 .. Len(out) /\ Len(out') - 1 = Len(out)
  BY <1>2, <1>4
<1>7. W!FramesAreWhole'
  <2>. SUFFICES ASSUME NEW n \in 1 .. Len(out')
                PROVE  /\ out'[n].part = IF n % 2 = 1 THEN "length" ELSE "body"
                       /\ n % 2 = 0 => out'[n].frame = out'[n - 1].frame
                       /\ ~out'[n].frame.big
    BY <1>4 DEF W!FramesAreWhole
  <2>1. CASE n \in 1 .. Len(out)
    <3>1. n % 2 = 0 => n - 1 \in 1 .. Len(out)
      BY <1>4, <2>1
    <3>2. n \in DOMAIN out
      BY <1>4, <2>1
    <3>. QED BY <1>4, <2>1, <3>1, <3>2 DEF WireInv, W!FramesAreWhole
  <2>2. CASE n = Len(out')
    BY <1>2, <1>4, <1>5, <1>6, <2>2
  <2>. QED BY <1>4, <2>1, <2>2
<1>8. LockInv'
  BY <1>1, <1>6 DEF LockInv, W!Threads, W!Nobody
<1>9. FramesTyped' /\ NothingLeftBehind'
  <2>1. FramesTyped'
    BY <1>1, <1>3, <1>4, LeftType DEF WireInv, FramesTyped
  <2>2. main'.at = main.at /\ worker'.at = worker.at
    BY <1>1, <1>3, LeftType DEF WireInv
  <2>3. main'.at = "starting" => main'.frames = <<>>
    <3>1. main.at = "starting" => t # "main"
      BY <1>2 DEF WireInv, NothingLeftBehind, W!Frames
    <3>2. t # "main" => main' = main
      BY <1>1 DEF W!Left
    <3>. QED BY <2>2, <3>1, <3>2 DEF WireInv, NothingLeftBehind
  <2>4. worker'.at # "draining" => worker'.frames = <<>>
    <3>1. worker.at # "draining" => t = "main"
      BY <1>2 DEF WireInv, NothingLeftBehind, W!Frames
    <3>2. t = "main" => worker' = worker
      BY <1>1 DEF W!Left
    <3>. QED BY <2>2, <3>1, <3>2 DEF WireInv, NothingLeftBehind
  <2>. QED BY <2>1, <2>2, <2>3, <2>4 DEF WireInv, NothingLeftBehind
<1>. QED BY <1>7, <1>8, <1>9 DEF WireInv

\* A step that leaves standard output and its lock alone, and the frames of
\* the thread that holds it.
LEMMA WireFrame ==
  ASSUME WireInv, UNCHANGED <<out, lock>>, broken => broken', FramesTyped', NothingLeftBehind',
         \A t \in W!Threads : lock = t => W!Frames(t)' = W!Frames(t)
  PROVE  WireInv'
<1>1. LockInv'
  BY DEF WireInv, LockInv
<1>2. W!FramesAreWhole'
  BY DEF WireInv, W!FramesAreWhole
<1>. QED BY <1>1, <1>2 DEF WireInv

\* The frames of a thread that has none are not those of a frame under way.
LEMMA IdleHoldsNoLock ==
  ASSUME WireInv, NEW t \in W!Threads, W!Frames(t) = <<>>
  PROVE  lock # t
  BY DEF WireInv, LockInv

LEMMA WithholdWhole ==
  ASSUME WireInv, NEW t \in W!Threads, W!Withhold(t)
  PROVE  WireInv'
<1> DEFINE frames == <<W!Answer(Head(W!Frames(t)).id, FALSE)>> \o Tail(W!Frames(t))
<1>1. /\ lock = W!Nobody /\ W!Frames(t) # <<>> /\ W!Left(t, frames)
      /\ UNCHANGED <<out, lock, broken, taken>>
  BY DEF W!Withhold
<1>2. frames \in Seq(Frame)
  <2>1. Head(W!Frames(t)).id \in Int /\ Tail(W!Frames(t)) \in Seq(Frame)
    BY <1>1, FrameAtHead DEF WireInv, Frame
  <2>2. <<W!Answer(Head(W!Frames(t)).id, FALSE)>> \in Seq(Frame)
    BY <2>1, FramesMade, ShortSeqs, Zenon
  <2>. QED BY <2>1, <2>2, ConcatProperties
<1>. HIDE DEF frames
<1>3. /\ main'.at = main.at /\ worker'.at = worker.at
      /\ FramesTyped'
  BY <1>1, <1>2, LeftType DEF WireInv, FramesTyped
<1>4. NothingLeftBehind'
  <2>1. main.at = "starting" => t # "main"
    BY <1>1 DEF WireInv, NothingLeftBehind, W!Frames
  <2>2. worker.at # "draining" => t = "main"
    BY <1>1 DEF WireInv, NothingLeftBehind, W!Frames
  <2>3. (t # "main" => main' = main) /\ (t = "main" => worker' = worker)
    BY <1>1 DEF W!Left
  <2>. QED BY <1>3, <2>1, <2>2, <2>3 DEF WireInv, NothingLeftBehind
<1>5. \A u \in W!Threads : lock # u
  BY <1>1 DEF W!Threads, W!Nobody
<1>. QED BY <1>1, <1>3, <1>4, <1>5, WireFrame

LEMMA WriteFailsWhole ==
  ASSUME WireInv, NEW t \in W!Threads, W!WriteFails(t)
  PROVE  WireInv'
<1>1. /\ broken /\ broken' = broken /\ lock' = W!Nobody /\ out' = out /\ taken' = taken
      /\ W!Frames(t) # <<>>
  BY DEF W!WriteFails
<1>2. LockInv'
  BY <1>1 DEF LockInv, W!Threads, W!Nobody
<1>3. W!FramesAreWhole'
  BY <1>1 DEF WireInv, W!FramesAreWhole
<1>4. <<>> \in Seq(Frame)
  OBVIOUS
<1>5. FramesTyped' /\ NothingLeftBehind'
  <2>1. CASE t = "worker"
    <3>1. main' = main /\ worker' = [worker EXCEPT !.frames = <<>>]
      BY <2>1 DEF W!WriteFails, W!Left
    <3>2. worker' = [at |-> worker.at, frames |-> <<>>]
      BY <3>1 DEF WireInv, FramesTyped
    <3>. QED BY <1>1, <1>4, <3>1, <3>2 DEF WireInv, FramesTyped, NothingLeftBehind
  <2>2. CASE t = "main"
    <3>1. worker' = worker /\ main.at # "starting"
      BY <1>1, <2>2 DEF W!WriteFails, WireInv, NothingLeftBehind, W!Frames
    <3>2. CASE Head(main.frames).is = "command"
      <4>1. main' = [main EXCEPT !.frames = Tail(@)] /\ Tail(main.frames) \in Seq(Frame)
        BY <1>1, <2>2, <3>2, FrameAtHead DEF W!WriteFails, WireInv, W!Frames
      <4>2. main' = [at |-> main.at, frames |-> Tail(main.frames)]
        BY <4>1 DEF WireInv, FramesTyped
      <4>. QED BY <1>1, <3>1, <4>1, <4>2 DEF WireInv, FramesTyped, NothingLeftBehind
    <3>3. CASE Head(main.frames).is # "command"
      <4>1. main' = [at |-> IF main.at = "draining" THEN "down" ELSE "stopping", frames |-> <<>>]
        BY <2>2, <3>3 DEF W!WriteFails
      <4>. QED BY <1>1, <1>4, <3>1, <4>1 DEF WireInv, FramesTyped, NothingLeftBehind
    <3>. QED BY <3>2, <3>3
  <2>. QED BY <2>1, <2>2 DEF W!Threads
<1>. QED BY <1>2, <1>3, <1>5 DEF WireInv

\* The request loop turns: it has nothing to send.
LEMMA MainTurns ==
  ASSUME WireInv,
         \/ W!LaunchDrain \/ W!StartServing \/ W!HandleRequest \/ W!HandleNewMail
         \/ W!HandleNotJson \/ W!StopReading \/ W!TearDown \/ W!Join
  PROVE  WireInv'
<1>1. UNCHANGED <<out, lock, broken>>
  BY DEF W!LaunchDrain, W!StartServing, W!HandleRequest, W!HandleNewMail, W!HandleNotJson,
         W!Reads, W!StopReading, W!TearDown, W!Join
<1>2. CASE W!LaunchDrain
  <2>1. PICK frames \in W!Announced : main' = [at |-> "draining", frames |-> frames]
    BY <1>2 DEF W!LaunchDrain
  <2>2. frames \in Seq(Frame) /\ main.frames = <<>> /\ worker' = worker /\ taken' = taken
        /\ main.at = "starting"
    BY <1>2, <2>1, FramesMade DEF W!LaunchDrain, WireInv, NothingLeftBehind
  <2>3. FramesTyped' /\ NothingLeftBehind'
    BY <1>1, <2>1, <2>2 DEF WireInv, FramesTyped, NothingLeftBehind
  <2>4. \A t \in W!Threads : lock = t => W!Frames(t)' = W!Frames(t)
    BY <2>2, IdleHoldsNoLock DEF W!Frames, W!Threads
  <2>. QED BY <1>1, <2>3, <2>4, WireFrame
<1>3. CASE W!StartServing
  <2>1. PICK at \in {"absent", "asleep"} : worker' = [worker EXCEPT !.at = at]
    BY <1>3 DEF W!StartServing
  <2>2. /\ main.at = "draining" /\ main.frames = <<>> /\ worker.frames = <<>>
        /\ main' = [main EXCEPT !.at = "serving"] /\ taken' = taken
    BY <1>3 DEF W!StartServing, WireInv, NothingLeftBehind
  <2>3. /\ main' = [at |-> "serving", frames |-> <<>>]
        /\ worker' = [at |-> at, frames |-> <<>>]
    BY <2>1, <2>2 DEF WireInv, FramesTyped
  <2>4. FramesTyped' /\ NothingLeftBehind'
    <3>1. <<>> \in Seq(Frame)
      OBVIOUS
    <3>. QED BY <1>1, <2>2, <2>3, <3>1 DEF WireInv, FramesTyped, NothingLeftBehind
  <2>5. \A t \in W!Threads : lock = t => W!Frames(t)' = W!Frames(t)
    BY <2>2, <2>3 DEF W!Frames
  <2>. QED BY <1>1, <2>4, <2>5, WireFrame
<1>4. CASE W!HandleRequest \/ W!HandleNewMail \/ W!HandleNotJson
  <2>1. PICK frames \in Seq(Frame) : W!Reads(frames)
    <3>0. taken \in Nat
      BY DEF WireInv, FramesTyped
    <3>1. CASE W!HandleRequest
      <4>1. PICK b \in BOOLEAN : W!Reads(<<W!Answer(taken + 1, b)>>)
        BY <3>1 DEF W!HandleRequest
      <4>2. <<W!Answer(taken + 1, b)>> \in Seq(Frame)
        BY <3>0, FramesMade
      <4>. QED BY <4>1, <4>2
    <3>2. CASE W!HandleNewMail
      BY <3>2, FramesMade DEF W!HandleNewMail
    <3>3. CASE W!HandleNotJson
      <4>1. <<W!Answer(W!NoId, FALSE)>> \in Seq(Frame)
        <5>1. W!NoId \in Int
          BY DEF W!NoId
        <5>. QED BY <5>1, FramesMade, ShortSeqs, Zenon
      <4>. QED BY <3>3, <4>1 DEF W!HandleNotJson
    <3>. QED BY <1>4, <3>1, <3>2, <3>3
  <2>2. /\ main.at = "serving" /\ main.frames = <<>> /\ taken' = taken + 1 /\ worker' = worker
        /\ main' = [main EXCEPT !.frames = frames]
    BY <2>1 DEF W!Reads
  <2>3. main' = [at |-> "serving", frames |-> frames]
    BY <2>2 DEF WireInv, FramesTyped
  <2>4. FramesTyped' /\ NothingLeftBehind'
    BY <1>1, <2>1, <2>2, <2>3 DEF WireInv, FramesTyped, NothingLeftBehind
  <2>5. \A t \in W!Threads : lock = t => W!Frames(t)' = W!Frames(t)
    BY <2>2, IdleHoldsNoLock DEF W!Frames, W!Threads
  <2>. QED BY <1>1, <2>4, <2>5, WireFrame
<1>5. CASE W!StopReading \/ W!TearDown \/ W!Join
  <2>1. PICK at \in {"stopping", "joining", "down"} : main' = [main EXCEPT !.at = at]
    BY <1>5 DEF W!StopReading, W!TearDown, W!Join
  <2>2. main' = [at |-> at, frames |-> main.frames]
    BY <2>1 DEF WireInv, FramesTyped
  <2>3. worker' = worker /\ taken' \in Nat
    BY <1>5 DEF W!StopReading, W!TearDown, W!Join, WireInv, FramesTyped
  <2>4. FramesTyped' /\ NothingLeftBehind'
    BY <1>1, <2>2, <2>3 DEF WireInv, FramesTyped, NothingLeftBehind
  <2>5. \A t \in W!Threads : W!Frames(t)' = W!Frames(t)
    BY <2>2, <2>3 DEF W!Frames
  <2>. QED BY <1>1, <2>4, <2>5, WireFrame
<1>. QED BY <1>2, <1>3, <1>4, <1>5

LEMMA WorkerTurns ==
  ASSUME WireInv, W!Tick \/ W!Sleep \/ W!WorkerEnds
  PROVE  WireInv'
<1>1. UNCHANGED <<out, lock, broken, main, taken>>
  BY DEF W!Tick, W!Sleep, W!WorkerEnds
<1>2. worker.frames = <<>> /\ main.at \notin {"starting", "draining"}
  BY DEF W!Tick, W!Sleep, W!WorkerEnds, WireInv, NothingLeftBehind
<1>3. PICK at \in {"draining", "asleep", "ended"}, frames \in Seq(Frame) :
        /\ worker' = [at |-> at, frames |-> frames]
        /\ at # "draining" => frames = <<>>
  <2>1. CASE W!Tick
    <3>1. PICK frames \in W!Announced : worker' = [at |-> "draining", frames |-> frames]
      BY <2>1 DEF W!Tick
    <3>. QED BY <3>1, FramesMade
  <2>2. CASE W!Sleep \/ W!WorkerEnds
    <3>1. PICK at \in {"asleep", "ended"} : worker' = [worker EXCEPT !.at = at]
      BY <2>2 DEF W!Sleep, W!WorkerEnds
    <3>2. worker' = [at |-> at, frames |-> <<>>] /\ <<>> \in Seq(Frame)
      BY <1>2, <3>1 DEF WireInv, FramesTyped
    <3>. QED BY <3>2
  <2>. QED BY <2>1, <2>2
<1>4. FramesTyped' /\ NothingLeftBehind'
  BY <1>1, <1>2, <1>3 DEF WireInv, FramesTyped, NothingLeftBehind
<1>5. \A t \in W!Threads : lock = t => W!Frames(t)' = W!Frames(t)
  BY <1>1, <1>2, IdleHoldsNoLock DEF W!Frames, W!Threads
<1>. QED BY <1>1, <1>4, <1>5, WireFrame

LEMMA WireNext == WireInv /\ [W!Next]_wireVars => WireInv'
<1>. SUFFICES ASSUME WireInv, [W!Next]_wireVars PROVE WireInv'
  OBVIOUS
<1>1. ASSUME NEW t \in W!Threads, W!Write(t) PROVE WireInv'
  BY <1>1, WriteLengthWhole, WriteBodyWhole, WithholdWhole, WriteFailsWhole DEF W!Write
<1>2. CASE W!Main
  BY <1>1, <1>2, MainTurns DEF W!Main, W!Threads
<1>3. CASE W!Worker
  BY <1>1, <1>3, WorkerTurns DEF W!Worker, W!Threads
<1>4. CASE W!Tick
  BY <1>4, WorkerTurns
<1>5. CASE W!Break
  BY <1>5, WireFrame DEF W!Break, WireInv, FramesTyped, NothingLeftBehind, W!Frames
<1>6. CASE UNCHANGED wireVars
  BY <1>6, WireFrame DEF wireVars, WireInv, FramesTyped, NothingLeftBehind, W!Frames
<1>. QED BY <1>2, <1>3, <1>4, <1>5, <1>6 DEF W!Next

\* Standard output is a row of whole frames: a length, then the body of that
\* same frame, never one that was to be withheld, with at most the last frame
\* cut off (FrameWriter::write and emit).  The request loop, the launch drain
\* and the worker may write in any order, over any input, any number of drains
\* and a pipe that breaks at any point.
THEOREM FramesGoOutWhole == MCSpec => []FramesAreWhole
<1>1. MCInit => WireInv
  BY WireInit DEF MCInit
<1>2. WireInv /\ [MCNext]_allVars => WireInv'
  <2>. SUFFICES ASSUME WireInv, [MCNext]_allVars PROVE WireInv'
    OBVIOUS
  <2>1. [W!Next]_wireVars
    BY DEF MCNext, AtPage, AtHost, allVars
  <2>. QED BY <2>1, WireNext
<1>3. WireInv => FramesAreWhole
  BY DEF WireInv, FramesAreWhole
<1>. QED BY <1>1, <1>2, <1>3, PTL DEF MCSpec

-----------------------------------------------------------------------------
(* The dashboard buffers (SessionBuffer)                                   *)

WritesQueue(t)     == task[t].pc \in {"queue_get", "queue_set"}
WritesAttention(t) == task[t].pc \in {"attention_get", "attention_set"}

\* A handler is a record; what it carries is of no importance here.
Handlers == \A t \in Tasks : DOMAIN task[t] = DOMAIN Idle

\* Two handlers that write have met, or there is at most one.
OneWriter == \A t, u \in Tasks : Writing(t) /\ Writing(u) => t = u

\* Of a handler that is to write the queue: what it has yet to do to it.
QueueLeft(t) ==
  IF task[t].pc = "queue_set" THEN task[t].queue
  ELSE Revised(task[t], queue)

AttentionLeft(t) ==
  IF task[t].pc = "attention_set" THEN task[t].attention
  ELSE attention \cup {task[t].instance}

\* What is in storage, or will be once the handler that writes has written.
QueueComes ==
  /\ (\A t \in Tasks : ~WritesQueue(t)) => queue = ideal
  /\ \A t \in Tasks : WritesQueue(t) => QueueLeft(t) = ideal

AttentionComes ==
  /\ (\A t \in Tasks : ~WritesAttention(t)) => attention = reported
  /\ \A t \in Tasks : WritesAttention(t) => AttentionLeft(t) = reported

ExactInv ==
  /\ task = [t \in Tasks |-> task[t]] /\ Handlers
  /\ met \in BOOLEAN
  /\ ~met => OneWriter /\ QueueComes /\ AttentionComes

-----------------------------------------------------------------------------

LEMMA IdleShape ==
  /\ DOMAIN Idle = {"pc", "queue", "attention", "op", "card", "instance", "count", "red"}
  /\ Idle.pc = "idle" /\ Refreshing.pc = "badge_queue"
  /\ DOMAIN Refreshing = DOMAIN Idle
  BY DEF Idle, Refreshing

\* A page that starts has handlers, and none of them writes.
LEMMA StartsIdle ==
  ASSUME NEW h \in PageStart
  PROVE  /\ h = [t \in Tasks |-> h[t]]
         /\ \A t \in Tasks : DOMAIN h[t] = DOMAIN Idle /\ h[t].pc \in {"idle", "space"}
<1>1. PICK t \in Tasks :
        h = [u \in Tasks |-> IF u = t THEN [Idle EXCEPT !.pc = "space"] ELSE Idle]
  BY DEF PageStart
<1>2. DOMAIN [Idle EXCEPT !.pc = "space"] = DOMAIN Idle /\ [Idle EXCEPT !.pc = "space"].pc = "space"
  BY IdleShape
<1>. QED BY <1>1, <1>2, IdleShape

LEMMA ExactInit == BufferInit => ExactInv
<1>. SUFFICES ASSUME BufferInit PROVE ExactInv
  OBVIOUS
<1>1. task = [t \in Tasks |-> task[t]] /\ Handlers
      /\ \A t \in Tasks : task[t].pc \in {"idle", "space"}
  BY StartsIdle DEF BufferInit, Handlers
<1>2. \A t \in Tasks : ~Writing(t) /\ ~WritesQueue(t) /\ ~WritesAttention(t)
  BY <1>1 DEF Writing, WritesQueue, WritesAttention
<1>. QED BY <1>1, <1>2 DEF BufferInit, ExactInv, OneWriter, QueueComes, AttentionComes

-----------------------------------------------------------------------------
(* One handler takes a step, the others stay where they are. *)

Moves(t, h) == task' = [task EXCEPT ![t] = h]

LEMMA MovesShape ==
  ASSUME ExactInv, NEW t \in Tasks, NEW h, DOMAIN h = DOMAIN Idle, Moves(t, h)
  PROVE  /\ task' = [u \in Tasks |-> task'[u]] /\ Handlers'
         /\ task'[t] = h
         /\ \A u \in Tasks \ {t} : task'[u] = task[u]
  BY DEF ExactInv, Handlers, Moves

\* A step of a handler that neither wrote nor will, with storage as it is.
LEMMA Harmless ==
  ASSUME ExactInv, task' = [u \in Tasks |-> task'[u]], Handlers',
         UNCHANGED <<stored, history>>,
         \A u \in Tasks : task'[u] = task[u] \/ (~Writing(u) /\ ~Writing(u)')
  PROVE  ExactInv'
<1>1. met' = met /\ queue' = queue /\ ideal' = ideal
      /\ attention' = attention /\ reported' = reported
  BY DEF stored, history
<1>2. \A u \in Tasks : /\ Writing(u)' <=> Writing(u)
                       /\ WritesQueue(u)' <=> WritesQueue(u)
                       /\ WritesAttention(u)' <=> WritesAttention(u)
                       /\ WritesQueue(u) => task'[u] = task[u]
                       /\ WritesAttention(u) => task'[u] = task[u]
  BY DEF Writing, WritesQueue, WritesAttention
<1>3. \A u \in Tasks : /\ WritesQueue(u) => QueueLeft(u)' = QueueLeft(u)
                       /\ WritesAttention(u) => AttentionLeft(u)' = AttentionLeft(u)
  BY <1>1, <1>2 DEF QueueLeft, AttentionLeft
<1>4. ~met => OneWriter' /\ QueueComes' /\ AttentionComes'
  BY <1>1, <1>2, <1>3 DEF ExactInv, OneWriter, QueueComes, AttentionComes
<1>. QED BY <1>1, <1>4 DEF ExactInv

-----------------------------------------------------------------------------
(* Handlers that write begin *)

\* If the history goes on claiming that none have met, no other writes.
LEMMA BeginsAlone ==
  ASSUME ExactInv, NEW t \in Tasks, ~Busy(t),
         met' = (met \/ \E u \in Tasks : Writing(u)), ~met'
  PROVE  /\ ~met /\ queue = ideal /\ attention = reported
         /\ \A u \in Tasks : ~Writing(u)
<1>1. ~met /\ \A u \in Tasks : ~Writing(u)
  OBVIOUS
<1>2. \A u \in Tasks : ~WritesQueue(u) /\ ~WritesAttention(u)
  BY <1>1 DEF Writing, WritesQueue, WritesAttention
<1>. QED BY <1>1, <1>2 DEF ExactInv, QueueComes, AttentionComes

LEMMA ClassificationReadyExact ==
  ASSUME ExactInv, NEW t \in Tasks, NEW c \in Card, ClassificationReady(t, c)
  PROVE  ExactInv'
<1> DEFINE h == [Idle EXCEPT !.pc = "queue_get", !.op = "buffer", !.card = c]
<1>1. DOMAIN h = DOMAIN Idle /\ h.pc = "queue_get" /\ h.op = "buffer" /\ h.card = c
  BY IdleShape DEF Idle
<1>2. Moves(t, h)
  BY DEF ClassificationReady, Begin, Moves
<1>. HIDE DEF h
<1>3. /\ task' = [u \in Tasks |-> task'[u]] /\ Handlers' /\ task'[t] = h
      /\ \A u \in Tasks \ {t} : task'[u] = task[u]
  BY <1>1, <1>2, MovesShape
<1>4. ASSUME ~met' PROVE OneWriter' /\ QueueComes' /\ AttentionComes'
  <2>1. /\ queue = ideal /\ attention = reported
        /\ \A u \in Tasks : ~Writing(u)
    BY <1>4, BeginsAlone DEF ClassificationReady, Begin
  <2>2. /\ queue' = queue /\ ideal' = Buffered(ideal, c)
        /\ attention' = attention /\ reported' = reported
    BY DEF ClassificationReady, stored
  <2>3. /\ \A u \in Tasks \ {t} : ~Writing(u)' /\ ~WritesQueue(u)'
        /\ \A u \in Tasks : ~WritesAttention(u)'
        /\ WritesQueue(t)'
    BY <1>1, <1>3, <2>1 DEF Writing, WritesQueue, WritesAttention
  <2>4. QueueLeft(t)' = ideal'
    BY <1>1, <1>3, <2>1, <2>2 DEF QueueLeft, Revised
  <2>. QED BY <2>1, <2>2, <2>3, <2>4 DEF OneWriter, QueueComes, AttentionComes
<1>5. met' \in BOOLEAN
  BY DEF ClassificationReady, ExactInv
<1>. QED BY <1>3, <1>4, <1>5 DEF ExactInv

LEMMA ResolveReviewExact ==
  ASSUME ExactInv, NEW t \in Tasks, NEW d \in Decisions, ResolveReview(t, d)
  PROVE  ExactInv'
<1> DEFINE h == [Idle EXCEPT !.pc = "queue_get", !.op = "resolve", !.card.id = d]
<1>1. DOMAIN h = DOMAIN Idle /\ h.pc = "queue_get" /\ h.op = "resolve" /\ h.card.id = d
  <2>1. [id |-> d, work |-> TRUE] \in Card
    BY DEF Card
  <2>2. Idle.card \in Card
    BY <2>1 DEF Idle
  <2>3. DOMAIN Idle.card = {"id", "work"}
    BY <2>2 DEF Card
  <2>4. h = [[[Idle EXCEPT !.pc = "queue_get"] EXCEPT !.op = "resolve"]
               EXCEPT !.card = [Idle.card EXCEPT !.id = d]]
    BY IdleShape
  <2>5. [Idle.card EXCEPT !.id = d].id = d
    BY <2>3
  <2>. QED BY <2>4, <2>5, IdleShape
<1>2. Moves(t, h)
  BY DEF ResolveReview, Begin, Moves
<1>. HIDE DEF h
<1>3. /\ task' = [u \in Tasks |-> task'[u]] /\ Handlers' /\ task'[t] = h
      /\ \A u \in Tasks \ {t} : task'[u] = task[u]
  BY <1>1, <1>2, MovesShape
<1>4. ASSUME ~met' PROVE OneWriter' /\ QueueComes' /\ AttentionComes'
  <2>1. /\ queue = ideal /\ attention = reported
        /\ \A u \in Tasks : ~Writing(u)
    BY <1>4, BeginsAlone DEF ResolveReview, Begin
  <2>2. /\ queue' = queue /\ ideal' = Without(ideal, d)
        /\ attention' = attention /\ reported' = reported
    BY DEF ResolveReview, stored
  <2>3. /\ \A u \in Tasks \ {t} : ~Writing(u)' /\ ~WritesQueue(u)'
        /\ \A u \in Tasks : ~WritesAttention(u)'
        /\ WritesQueue(t)'
    BY <1>1, <1>3, <2>1 DEF Writing, WritesQueue, WritesAttention
  <2>4. QueueLeft(t)' = ideal'
    BY <1>1, <1>3, <2>1, <2>2 DEF QueueLeft, Revised
  <2>. QED BY <2>1, <2>2, <2>3, <2>4 DEF OneWriter, QueueComes, AttentionComes
<1>5. met' \in BOOLEAN
  BY DEF ResolveReview, ExactInv
<1>. QED BY <1>3, <1>4, <1>5 DEF ExactInv

LEMMA NeedsAttentionExact ==
  ASSUME ExactInv, NEW t \in Tasks, NEW i \in Instances, NeedsAttention(t, i)
  PROVE  ExactInv'
<1> DEFINE h == [Idle EXCEPT !.pc = "attention_get", !.instance = i]
<1>1. DOMAIN h = DOMAIN Idle /\ h.pc = "attention_get" /\ h.instance = i
  BY IdleShape DEF Idle
<1>2. Moves(t, h)
  BY DEF NeedsAttention, Begin, Moves
<1>. HIDE DEF h
<1>3. /\ task' = [u \in Tasks |-> task'[u]] /\ Handlers' /\ task'[t] = h
      /\ \A u \in Tasks \ {t} : task'[u] = task[u]
  BY <1>1, <1>2, MovesShape
<1>4. ASSUME ~met' PROVE OneWriter' /\ QueueComes' /\ AttentionComes'
  <2>1. /\ queue = ideal /\ attention = reported
        /\ \A u \in Tasks : ~Writing(u)
    BY <1>4, BeginsAlone DEF NeedsAttention, Begin
  <2>2. /\ queue' = queue /\ ideal' = ideal
        /\ attention' = attention /\ reported' = reported \cup {i}
    BY DEF NeedsAttention, stored
  <2>3. /\ \A u \in Tasks \ {t} : ~Writing(u)' /\ ~WritesAttention(u)'
        /\ \A u \in Tasks : ~WritesQueue(u)'
        /\ WritesAttention(t)'
    BY <1>1, <1>3, <2>1 DEF Writing, WritesQueue, WritesAttention
  <2>4. AttentionLeft(t)' = reported'
    BY <1>1, <1>3, <2>1, <2>2 DEF AttentionLeft
  <2>. QED BY <2>1, <2>2, <2>3, <2>4 DEF OneWriter, QueueComes, AttentionComes
<1>5. met' \in BOOLEAN
  BY DEF NeedsAttention, ExactInv
<1>. QED BY <1>3, <1>4, <1>5 DEF ExactInv

-----------------------------------------------------------------------------
(* Handlers read, and write what they made of it *)

LEMMA QueueGetExact ==
  ASSUME ExactInv, NEW t \in Tasks, QueueGet(t)
  PROVE  ExactInv'
<1> DEFINE h == [task[t] EXCEPT !.pc = "queue_set", !.queue = QueueLeft(t)]
<1>0. task[t].pc = "queue_get" /\ DOMAIN task[t] = DOMAIN Idle
  BY DEF QueueGet, ExactInv, Handlers
<1>1. DOMAIN h = DOMAIN Idle /\ h.pc = "queue_set" /\ h.queue = QueueLeft(t)
  BY <1>0, IdleShape
<1>2. Moves(t, h)
  <2>1. QueueLeft(t) = Revised(task[t], queue)
    BY <1>0 DEF QueueLeft
  <2>. QED BY <2>1 DEF QueueGet, Moves, ExactInv
<1>. HIDE DEF h
<1>3. /\ task' = [u \in Tasks |-> task'[u]] /\ Handlers' /\ task'[t] = h
      /\ \A u \in Tasks \ {t} : task'[u] = task[u]
  BY <1>1, <1>2, MovesShape
<1>4. /\ met' = met /\ queue' = queue /\ ideal' = ideal
      /\ attention' = attention /\ reported' = reported
  BY DEF QueueGet, stored, history
<1>5. ASSUME ~met PROVE OneWriter' /\ QueueComes' /\ AttentionComes'
  <2>1. /\ Writing(t) /\ WritesQueue(t) /\ ~WritesAttention(t) /\ QueueLeft(t) = ideal
        /\ \A u \in Tasks \ {t} : ~Writing(u)
    BY <1>0, <1>5 DEF ExactInv, OneWriter, QueueComes, Writing, WritesQueue, WritesAttention
  <2>2. /\ \A u \in Tasks \ {t} : ~Writing(u)' /\ ~WritesQueue(u)'
        /\ \A u \in Tasks : ~WritesAttention(u)' /\ ~WritesAttention(u)
        /\ WritesQueue(t)'
    BY <1>1, <1>3, <2>1 DEF Writing, WritesQueue, WritesAttention
  <2>3. QueueLeft(t)' = ideal'
    BY <1>1, <1>3, <1>4, <2>1 DEF QueueLeft
  <2>4. attention = reported
    BY <1>5, <2>2 DEF ExactInv, AttentionComes
  <2>. QED BY <1>4, <2>2, <2>3, <2>4 DEF OneWriter, QueueComes, AttentionComes
<1>. QED BY <1>3, <1>4, <1>5 DEF ExactInv

LEMMA QueueSetExact ==
  ASSUME ExactInv, NEW t \in Tasks, QueueSet(t)
  PROVE  ExactInv'
<1>1. Moves(t, Refreshing) /\ task[t].pc = "queue_set"
  BY DEF QueueSet, Moves
<1>2. /\ task' = [u \in Tasks |-> task'[u]] /\ Handlers' /\ task'[t] = Refreshing
      /\ \A u \in Tasks \ {t} : task'[u] = task[u]
  BY <1>1, IdleShape, MovesShape
<1>3. /\ met' = met /\ queue' = task[t].queue /\ ideal' = ideal
      /\ attention' = attention /\ reported' = reported
  BY DEF QueueSet, history
<1>4. ASSUME ~met PROVE OneWriter' /\ QueueComes' /\ AttentionComes'
  <2>1. /\ \A u \in Tasks \ {t} : ~Writing(u)
        /\ ~WritesAttention(t) /\ queue' = ideal
    BY <1>1, <1>3, <1>4
       DEF ExactInv, OneWriter, QueueComes, QueueLeft, Writing, WritesQueue, WritesAttention
  <2>2. \A u \in Tasks : /\ ~Writing(u)' /\ ~WritesQueue(u)' /\ ~WritesAttention(u)'
                         /\ ~WritesAttention(u)
    BY <1>2, <2>1, IdleShape DEF Writing, WritesQueue, WritesAttention
  <2>3. attention = reported
    BY <1>4, <2>2 DEF ExactInv, AttentionComes
  <2>. QED BY <1>3, <2>1, <2>2, <2>3 DEF OneWriter, QueueComes, AttentionComes
<1>. QED BY <1>2, <1>3, <1>4 DEF ExactInv

\* A report of an instance that is listed already ends here.
LEMMA AttentionGetExact ==
  ASSUME ExactInv, NEW t \in Tasks, AttentionGet(t)
  PROVE  ExactInv'
<1> DEFINE h == IF task[t].instance \in attention THEN Refreshing
                ELSE [task[t] EXCEPT !.pc = "attention_set", !.attention = AttentionLeft(t)]
<1>0. /\ task[t].pc = "attention_get" /\ DOMAIN task[t] = DOMAIN Idle
      /\ AttentionLeft(t) = attention \cup {task[t].instance}
  BY DEF AttentionGet, ExactInv, Handlers, AttentionLeft
<1>1. /\ DOMAIN h = DOMAIN Idle
      /\ \/ h.pc = "badge_queue" /\ AttentionLeft(t) = attention
         \/ h.pc = "attention_set" /\ h.attention = AttentionLeft(t)
  BY <1>0, IdleShape
<1>2. Moves(t, h)
  BY <1>0 DEF AttentionGet, Moves, ExactInv
<1>. HIDE DEF h
<1>3. /\ task' = [u \in Tasks |-> task'[u]] /\ Handlers' /\ task'[t] = h
      /\ \A u \in Tasks \ {t} : task'[u] = task[u]
  BY <1>1, <1>2, MovesShape
<1>4. /\ met' = met /\ queue' = queue /\ ideal' = ideal
      /\ attention' = attention /\ reported' = reported
  BY DEF AttentionGet, stored, history
<1>5. ASSUME ~met PROVE OneWriter' /\ QueueComes' /\ AttentionComes'
  <2>1. /\ AttentionLeft(t) = reported /\ ~WritesQueue(t)
        /\ \A u \in Tasks \ {t} : ~Writing(u)
    BY <1>0, <1>5 DEF ExactInv, OneWriter, AttentionComes, Writing, WritesQueue, WritesAttention
  <2>2. /\ \A u \in Tasks \ {t} : ~Writing(u)' /\ ~WritesAttention(u)'
        /\ \A u \in Tasks : ~WritesQueue(u)' /\ ~WritesQueue(u)
    BY <1>1, <1>3, <2>1 DEF Writing, WritesQueue, WritesAttention
  <2>3. queue = ideal
    BY <1>5, <2>2 DEF ExactInv, QueueComes
  <2>4. /\ WritesAttention(t)' => AttentionLeft(t)' = reported'
        /\ ~WritesAttention(t)' => attention = reported
    BY <1>1, <1>3, <1>4, <2>1 DEF AttentionLeft, WritesAttention
  <2>. QED BY <1>4, <2>2, <2>3, <2>4 DEF OneWriter, QueueComes, AttentionComes
<1>. QED BY <1>3, <1>4, <1>5 DEF ExactInv

LEMMA AttentionSetExact ==
  ASSUME ExactInv, NEW t \in Tasks, AttentionSet(t)
  PROVE  ExactInv'
<1>1. Moves(t, Refreshing) /\ task[t].pc = "attention_set"
  BY DEF AttentionSet, Moves
<1>2. /\ task' = [u \in Tasks |-> task'[u]] /\ Handlers' /\ task'[t] = Refreshing
      /\ \A u \in Tasks \ {t} : task'[u] = task[u]
  BY <1>1, IdleShape, MovesShape
<1>3. /\ met' = met /\ attention' = task[t].attention /\ reported' = reported
      /\ queue' = queue /\ ideal' = ideal
  BY DEF AttentionSet, history
<1>4. ASSUME ~met PROVE OneWriter' /\ QueueComes' /\ AttentionComes'
  <2>1. /\ \A u \in Tasks \ {t} : ~Writing(u)
        /\ ~WritesQueue(t) /\ attention' = reported
    BY <1>1, <1>3, <1>4
       DEF ExactInv, OneWriter, AttentionComes, AttentionLeft, Writing, WritesQueue, WritesAttention
  <2>2. \A u \in Tasks : /\ ~Writing(u)' /\ ~WritesQueue(u)' /\ ~WritesAttention(u)'
                         /\ ~WritesQueue(u)
    BY <1>2, <2>1, IdleShape DEF Writing, WritesQueue, WritesAttention
  <2>3. queue = ideal
    BY <1>4, <2>2 DEF ExactInv, QueueComes
  <2>. QED BY <1>3, <2>1, <2>2, <2>3 DEF OneWriter, QueueComes, AttentionComes
<1>. QED BY <1>2, <1>3, <1>4 DEF ExactInv

-----------------------------------------------------------------------------
(* What writes nothing *)

\* Handlers that begin with the badge, and the steps up to it.
LEMMA BadgeExact ==
  ASSUME ExactInv, NEW t \in Tasks,
         \/ NothingToReview(t) \/ ProposalReady(t) \/ Pong(t) \/ EnsureSpace(t)
         \/ NoSpace(t) \/ BadgeQueue(t) \/ BadgeAttention(t) \/ BadgeHost(t)
         \/ BadgeHostFails(t) \/ BadgeUpdate(t) \/ BadgeUpdateFails(t)
  PROVE  ExactInv'
<1>0. DOMAIN task[t] = DOMAIN Idle /\ task = [u \in Tasks |-> task[u]]
  BY DEF ExactInv, Handlers
<1>1. UNCHANGED <<stored, history>>
  BY DEF NothingToReview, ProposalReady, Pong, EnsureSpace, NoSpace, BadgeQueue, BadgeAttention,
         BadgeHost, BadgeHostFails, BadgeUpdate, BadgeUpdateFails, stored, history
<1>2. ~Writing(t)
  BY DEF NothingToReview, ProposalReady, Pong, EnsureSpace, NoSpace, BadgeQueue, BadgeAttention,
         BadgeHost, BadgeHostFails, BadgeUpdate, BadgeUpdateFails, Begin, Busy, Writing
<1>3. \E h : /\ Moves(t, h) /\ DOMAIN h = DOMAIN Idle
            /\ h.pc \in {"idle", "badge_queue", "badge_attention", "badge_host", "badge_update"}
  <2>1. CASE NothingToReview(t) \/ ProposalReady(t) \/ Pong(t)
    BY <2>1, IdleShape DEF NothingToReview, ProposalReady, Pong, Begin, Moves
  <2>2. CASE EnsureSpace(t) \/ NoSpace(t) \/ BadgeUpdate(t) \/ BadgeUpdateFails(t)
    BY <2>2, IdleShape DEF EnsureSpace, NoSpace, BadgeUpdate, BadgeUpdateFails, Moves
  <2>3. CASE BadgeQueue(t)
    <3> DEFINE h == [task[t] EXCEPT !.pc = "badge_attention", !.count = Work(queue),
                                     !.red = Work(queue) > 0]
    <3>1. DOMAIN h = DOMAIN Idle /\ h.pc = "badge_attention"
      BY <1>0, IdleShape
    <3>2. Moves(t, h)
      BY <1>0, <2>3 DEF BadgeQueue, Moves
    <3>. HIDE DEF h
    <3>. QED BY <3>1, <3>2
  <2>4. CASE BadgeAttention(t)
    <3> DEFINE h == [task[t] EXCEPT !.pc = IF ready THEN "badge_host" ELSE "badge_update",
                                     !.count = @ + Cardinality(attention)]
    <3>1. DOMAIN h = DOMAIN Idle /\ h.pc \in {"badge_host", "badge_update"}
      BY <1>0, IdleShape
    <3>2. Moves(t, h)
      BY <1>0, <2>4 DEF BadgeAttention, Moves
    <3>. HIDE DEF h
    <3>. QED BY <3>1, <3>2
  <2>5. CASE BadgeHost(t)
    <3> DEFINE h == [task[t] EXCEPT !.pc = "badge_update", !.count = @ + proposals]
    <3>1. DOMAIN h = DOMAIN Idle /\ h.pc = "badge_update"
      BY <1>0, IdleShape
    <3>2. Moves(t, h)
      BY <1>0, <2>5 DEF BadgeHost, Moves
    <3>. HIDE DEF h
    <3>. QED BY <3>1, <3>2
  <2>6. CASE BadgeHostFails(t)
    <3>1. Moves(t, [task[t] EXCEPT !.pc = "badge_update"])
      BY <1>0, <2>6 DEF BadgeHostFails, Go, Moves
    <3>. QED BY <1>0, <3>1, IdleShape
  <2>. QED BY <2>1, <2>2, <2>3, <2>4, <2>5, <2>6
<1>4. PICK h : /\ Moves(t, h) /\ DOMAIN h = DOMAIN Idle
               /\ h.pc \in {"idle", "badge_queue", "badge_attention", "badge_host", "badge_update"}
  BY <1>3
<1>5. /\ task' = [u \in Tasks |-> task'[u]] /\ Handlers' /\ task'[t] = h
      /\ \A u \in Tasks \ {t} : task'[u] = task[u]
  BY <1>4, MovesShape
<1>6. ~Writing(t)'
  BY <1>4, <1>5 DEF Writing
<1>. QED BY <1>1, <1>2, <1>5, <1>6, Harmless

\* A storage call that fails on behalf of a handler that writes is recorded;
\* one that fails while the badge is computed changes nothing stored.
LEMMA StorageFailsExact ==
  ASSUME ExactInv, NEW t \in Tasks, StorageFails(t)
  PROVE  ExactInv'
<1>0. DOMAIN task[t] = DOMAIN Idle /\ task = [u \in Tasks |-> task[u]]
  BY DEF ExactInv, Handlers
<1>1. /\ met' = (met \/ Writing(t))
      /\ UNCHANGED <<stored, ideal, reported>>
  BY DEF StorageFails
<1>2. CASE Writing(t)
  <2>1. \E h : Moves(t, h) /\ DOMAIN h = DOMAIN Idle
    <3>1. CASE task[t].pc = "queue_get"
      <4> DEFINE h == [task[t] EXCEPT !.pc = "queue_set", !.queue = Revised(task[t], <<>>)]
      <4>1. DOMAIN h = DOMAIN Idle
        BY <1>0
      <4>2. Moves(t, h)
        BY <1>0, <3>1 DEF StorageFails, Moves
      <4>. HIDE DEF h
      <4>. QED BY <4>1, <4>2
    <3>2. CASE task[t].pc = "attention_get"
      <4> DEFINE h == [task[t] EXCEPT !.pc = "attention_set", !.attention = {task[t].instance}]
      <4>1. DOMAIN h = DOMAIN Idle
        BY <1>0
      <4>2. Moves(t, h)
        BY <1>0, <3>2 DEF StorageFails, Moves
      <4>. HIDE DEF h
      <4>. QED BY <4>1, <4>2
    <3>3. CASE task[t].pc \in {"queue_set", "attention_set"}
      BY <3>3, IdleShape DEF StorageFails, Moves
    <3>. QED BY <1>2, <3>1, <3>2, <3>3 DEF Writing
  <2>2. task' = [u \in Tasks |-> task'[u]] /\ Handlers'
    BY <2>1, MovesShape
  <2>3. met' = TRUE
    BY <1>1, <1>2
  <2>. QED BY <2>2, <2>3 DEF ExactInv
<1>3. CASE ~Writing(t)
  <2>1. task[t].pc \in {"badge_queue", "badge_attention"}
    BY <1>3 DEF StorageFails, Writing
  <2>2. \E pc \in {"badge_attention", "badge_host", "badge_update"} :
          task' = [task EXCEPT ![t].pc = pc]
    BY <2>1 DEF StorageFails
  <2>3. PICK pc \in {"badge_attention", "badge_host", "badge_update"} :
          task' = [task EXCEPT ![t].pc = pc]
    BY <2>2
  <2>4. Moves(t, [task[t] EXCEPT !.pc = pc])
    BY <1>0, <2>3 DEF Moves
  <2>5. /\ DOMAIN [task[t] EXCEPT !.pc = pc] = DOMAIN Idle
        /\ [task[t] EXCEPT !.pc = pc].pc = pc
    BY <1>0, IdleShape
  <2>6. /\ task' = [u \in Tasks |-> task'[u]] /\ Handlers' /\ task'[t].pc = pc
        /\ \A u \in Tasks \ {t} : task'[u] = task[u]
    BY <2>4, <2>5, MovesShape
  <2>7. UNCHANGED <<stored, history>>
    BY <1>1, <1>3 DEF history, ExactInv
  <2>8. ~Writing(t)'
    BY <2>6 DEF Writing
  <2>. QED BY <1>3, <2>6, <2>7, <2>8, Harmless
<1>. QED BY <1>2, <1>3

\* A new connection lets go the handlers that waited for the old one.
LEMMA StatusChangeExact ==
  ASSUME ExactInv, NEW t \in Tasks, StatusChange(t)
  PROVE  ExactInv'
<1>1. UNCHANGED <<stored, history>>
  BY DEF StatusChange
<1>2. task' = [u \in Tasks |-> task'[u]]
  BY DEF StatusChange
<1>3. \A u \in Tasks : /\ DOMAIN task'[u] = DOMAIN Idle
                       /\ task'[u] = task[u] \/ (~Writing(u) /\ ~Writing(u)')
  <2>1. TAKE u \in Tasks
  <2>2. CASE u = t
    BY <2>2, IdleShape DEF StatusChange, Busy, Writing
  <2>3. CASE u # t /\ task[u].pc = "badge_host" /\ ~ready
    <3>1. task'[u] = [task[u] EXCEPT !.pc = "badge_update"] /\ DOMAIN task[u] = DOMAIN Idle
      BY <2>3 DEF StatusChange, ExactInv, Handlers
    <3>. QED BY <2>3, <3>1, IdleShape DEF Writing
  <2>4. CASE u # t /\ ~(task[u].pc = "badge_host" /\ ~ready)
    BY <2>4 DEF StatusChange, ExactInv, Handlers
  <2>. QED BY <2>2, <2>3, <2>4
<1>4. Handlers'
  BY <1>3 DEF Handlers
<1>. QED BY <1>1, <1>2, <1>3, <1>4, Harmless

LEMMA StillExact ==
  ASSUME ExactInv, ReviewProposal \/ UNCHANGED bufferVars
  PROVE  ExactInv'
<1>1. UNCHANGED <<stored, history>> /\ task' = task
  BY DEF ReviewProposal, bufferVars
<1>. QED BY <1>1, Harmless DEF ExactInv, Handlers

\* A suspension that cut off no handler on its way to storage took nothing.
LEMMA RestartExact ==
  ASSUME ExactInv, Restart
  PROVE  ExactInv'
<1>1. task' = [u \in Tasks |-> task'[u]] /\ Handlers'
      /\ \A u \in Tasks : task'[u].pc \in {"idle", "space"}
  BY StartsIdle DEF Restart, Handlers
<1>2. \A u \in Tasks : ~Writing(u)' /\ ~WritesQueue(u)' /\ ~WritesAttention(u)'
  BY <1>1 DEF Writing, WritesQueue, WritesAttention
<1>3. /\ met' = (met \/ \E u \in Tasks : Writing(u)) /\ queue' = queue /\ ideal' = ideal
      /\ attention' = attention /\ reported' = reported
  BY DEF Restart, stored
<1>4. ASSUME ~met' PROVE queue' = ideal' /\ attention' = reported'
  <2>1. ~met /\ \A u \in Tasks : ~WritesQueue(u) /\ ~WritesAttention(u)
    BY <1>3, <1>4 DEF Writing, WritesQueue, WritesAttention
  <2>. QED BY <1>3, <2>1 DEF ExactInv, QueueComes, AttentionComes
<1>5. met' \in BOOLEAN
  BY <1>3 DEF ExactInv
<1>. QED BY <1>1, <1>2, <1>4, <1>5 DEF ExactInv, OneWriter, QueueComes, AttentionComes

-----------------------------------------------------------------------------

LEMMA ExactNext == ExactInv /\ [BufferNext]_bufferVars => ExactInv'
<1>. SUFFICES ASSUME ExactInv, [BufferNext]_bufferVars PROVE ExactInv'
  OBVIOUS
<1>1. ASSUME NEW t \in Tasks, Run(t) PROVE ExactInv'
  BY <1>1, QueueGetExact, QueueSetExact, AttentionGetExact, AttentionSetExact, BadgeExact,
     StorageFailsExact DEF Run
<1>2. ASSUME NEW t \in Tasks, Start(t) PROVE ExactInv'
  BY <1>2, ClassificationReadyExact, ResolveReviewExact, NeedsAttentionExact, BadgeExact,
     StatusChangeExact DEF Start
<1>3. CASE ReviewProposal \/ UNCHANGED bufferVars
  BY <1>3, StillExact
<1>4. CASE Restart
  BY <1>4, RestartExact
<1>. QED BY <1>1, <1>2, <1>3, <1>4 DEF BufferNext

\* The two buffers of background.js lose nothing and bring nothing back for as
\* long as no two handlers that write them overlap, none is cut off and no
\* storage call of theirs fails, over any notifications, resolutions, status
\* changes and suspensions, any number of handlers in flight and any cap:
\* bufferReview, resolveReview and bumpFollowupAttention are right apart from
\* their races.
THEOREM BuffersLoseNothing == BufferSpec => []BuffersAreExact
<1>1. ExactInv => BuffersAreExact
  <2>. SUFFICES ASSUME ExactInv, ~met, \A t \in Tasks : ~Writing(t)
                PROVE  queue = ideal /\ attention = reported
    BY DEF BuffersAreExact
  <2>1. \A t \in Tasks : ~WritesQueue(t) /\ ~WritesAttention(t)
    BY DEF Writing, WritesQueue, WritesAttention
  <2>. QED BY <2>1 DEF ExactInv, QueueComes, AttentionComes
<1>. QED BY <1>1, ExactInit, ExactNext, PTL DEF BufferSpec
=============================================================================

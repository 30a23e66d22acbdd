----------------------------- MODULE MCChannel -----------------------------
(***************************************************************************)
(* The two halves of native messaging on small instances: the page with    *)
(* its ports, requests and hosts, or one host process with its pipes.      *)
(***************************************************************************)
EXTENDS NativeChannel

CONSTANTS MaxFrames, MaxTicks

VARIABLES input, taken, out, lock, broken, main, worker, stop, ticks, side

W == INSTANCE HostWire

wireVars == <<input, taken, out, lock, broken, main, worker, stop, ticks>>
allVars  == <<vars, wireVars, side>>

MCInit ==
  /\ Init /\ W!Init
  /\ \/ side = "page" /\ input = <<>>
     \/ side = "host" /\ speaks[port]

AtPage(A) == side = "page" /\ A /\ UNCHANGED <<wireVars, side>>
AtHost(A) == side = "host" /\ A /\ UNCHANGED <<vars, side>>

MCNext == AtPage(Next) \/ AtHost(W!Next)

\* As in FairSpec and HostWire!Spec.
MCFairness ==
  /\ WF_allVars(AtPage(HandleAnswer)) /\ WF_allVars(AtPage(OnDisconnect))
  /\ WF_allVars(AtPage(\E id \in Ids : Timeout(id)))
  /\ \A p \in Ports : WF_allVars(AtPage(HostStep(p)))
  /\ WF_allVars(AtHost(W!Main)) /\ WF_allVars(AtHost(W!Worker))

MCSpec == MCInit /\ [][MCNext]_allVars /\ MCFairness

-----------------------------------------------------------------------------
\* Every call of the page is settled (CallsSettle of NativeChannel).
EveryCallSettles ==
  \A id \in 1 .. MaxRequests : (side = "page" /\ id \in pending) ~> (id \notin pending)

\* Bodies follow their own lengths (HostWire).
FramesAreWhole == side = "host" => W!FramesAreWhole

\* A host whose input ended comes to its end (HostWire).
HostEnds == side = "host" /\ (\E n \in DOMAIN input : input[n] \in W!Endings) ~> main.at = "down"
=============================================================================

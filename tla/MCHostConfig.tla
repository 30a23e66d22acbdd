---------------------------- MODULE MCHostConfig ----------------------------
(***************************************************************************)
(* Small instances of HostConfig: two providers, one known and one unknown *)
(* kind, a cadence with and one without the worker.                        *)
(***************************************************************************)
EXTENDS HostConfig

CONSTANTS p1, p2

TwoProviders == {p1, p2}
SomeKinds    == {"mock", "ollamma"}
SomeLevels   == {"bodies", "everything"}
TwoCadences  == {[catchUp |-> TRUE, tick |-> 0], [catchUp |-> FALSE, tick |-> 60]}
=============================================================================

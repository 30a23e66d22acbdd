----------------------------- MODULE MCFollowUp -----------------------------
(***************************************************************************)
(* Small instances of FollowUp.  Two versions of the definition: the first *)
(* has three steps with a gap in their numbers, all of which may be due at *)
(* once and folded; the second does not coalesce and dates its later step  *)
(* before the earlier one.  Two ticks make a day in the runs.              *)
(***************************************************************************)
EXTENDS FollowUp, TLC

CONSTANTS acme, globex, v1, v2

OneItem  == {acme}
TwoItems == {acme, globex}

OneThread == [i \in TwoItems |-> "thread"]

BothVersions == {v1, v2}

TwoCadences ==
  (v1 :> [offset |-> (0 :> 0 @@ 1 :> 1 @@ 3 :> 2), horizon |-> 0, coalesce |-> TRUE]) @@
  (v2 :> [offset |-> (0 :> 1 @@ 2 :> 0), horizon |-> 0, coalesce |-> FALSE])

OneVersion == {v1}

ShortCadence ==
  v1 :> [offset |-> (0 :> 0 @@ 1 :> 1), horizon |-> 0, coalesce |-> TRUE]
=============================================================================

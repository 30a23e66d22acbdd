-------------------------- MODULE MCSessionBuffer --------------------------
(***************************************************************************)
(* Small instances of SessionBuffer: the queue can overflow its cap, and   *)
(* two handlers can meet.                                                  *)
(***************************************************************************)
EXTENDS SessionBuffer

CONSTANTS d1, d2, d3, i1, i2, t1, t2

ThreeDecisions == {d1, d2, d3}
TwoInstances == {i1, i2}
TwoTasks     == {t1, t2}
=============================================================================

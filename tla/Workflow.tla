------------------------------ MODULE Workflow ------------------------------
(***************************************************************************)
(* The vocabulary of mailmate-common/src/workflow.rs and pipeline.rs: the  *)
(* statuses of a follow-up sequence, the stages of a deal and what an exit *)
(* event makes of both.                                                    *)
(***************************************************************************)
EXTENDS Cadence

\* is_selectable and is_terminal.
Selectable == {"active", "snoozed"}
Terminal   == {"completed", "cancelled"}

Statuses == Selectable \cup Terminal \cup
            {"awaiting_review", "engaged", "needs_attention"}

\* The host never sets the stage "abandoned".
Stages == {"open", "engaged", "won", "lost"}

Events == {"reply_received", "won", "lost", "cancel"}

ResultingStatus(event) ==
  CASE event = "reply_received"  -> "engaged"
    [] event \in {"won", "lost"} -> "completed"
    [] event = "cancel"          -> "cancelled"

\* A cancelled sequence leaves the deal where it is.
ResultingStage(event, old) ==
  CASE event = "reply_received"  -> "engaged"
    [] event \in {"won", "lost"} -> event
    [] event = "cancel"          -> old
=============================================================================

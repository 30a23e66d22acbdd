------------------------------ MODULE Curation ------------------------------
(***************************************************************************)
(* The host's two users of a model.  A pass of the AI curator (curate in   *)
(* mailmate-learning/src/curator.rs) asks the provider for changes to the  *)
(* rules and stores each change it may keep as a proposal for review, one  *)
(* storage call after the other; a draft_reply request asks for a text and *)
(* answers it to the extension.  The provider may answer anything its      *)
(* server does not keep it from.                                           *)
(*                                                                         *)
(* The evidence, the open conflicts and the rules that go into the prompt  *)
(* are read and not changed, and a report that only observes (threshold    *)
(* suggestions, a summary) is returned and not stored: neither has a       *)
(* state here.  The scan for conflicts after the proposals is in Learning. *)
(***************************************************************************)
EXTENDS Provider, FiniteSets

CONSTANTS
  Wired,      \* the providers that may be configured
  Offers,     \* the proposals a provider may put in an answer
  Requests,   \* the requests: sets of operations, or {} for all of them
  Clashing,   \* the drafts that contradict a rule of the launch-time snapshot
  MaxPasses   \* bound: passes

VARIABLES
  pass,     \* the pass under way: where it is, what it asked for, whether the
            \* answer is valid as a whole, and what is left of it
  stored,   \* the proposals, with the request and the verdict on their answer
  traced,   \* those of them with a rule_proposed entry in the audit log
  refused,  \* answers that were refused
  noted,    \* provider_response_rejected entries in the audit log
  passes,   \* passes begun
  cuts,     \* passes cut short by a failed call or a crash
  provider, \* the provider the host was started with
  answered  \* the draft the last request was answered with

vars == <<pass, stored, traced, refused, noted, passes, cuts, provider, answered>>

Proposing == {"propose", "refine", "merge", "split", "detect_stale"}
AiOps == Proposing \cup {"suggest_thresholds", "summarize_feedback"}

Wants(request, op) == request = {} \/ op \in request

OperationFor(change) ==
  CASE change = "new_rule" -> "propose"
    [] change = "refine_rule" -> "refine"
    [] change = "merge_rules" -> "merge"
    [] change = "split_rule" -> "split"
    [] change = "retire_rule" -> "detect_stale"
    [] OTHER -> "none"    \* the workflow kinds

Idle == [at |-> "idle", request |-> {}, valid |-> FALSE, left |-> <<>>]

Init ==
  /\ pass = Idle /\ stored = {} /\ traced = {}
  /\ refused = 0 /\ noted = 0 /\ passes = 0 /\ cuts = 0
  /\ provider \in Wired /\ answered = NoDraft

-----------------------------------------------------------------------------
\* A request that asks for nothing of the model makes no call to it.
Ask(request) ==
  /\ pass = Idle /\ passes < MaxPasses
  /\ \E op \in AiOps : Wants(request, op)
  /\ pass' = [Idle EXCEPT !.at = "asking", !.request = request]
  /\ passes' = passes + 1 /\ answered' = NoDraft
  /\ UNCHANGED <<stored, traced, refused, noted, cuts, provider>>

AllValid(answer) == \A n \in DOMAIN answer : ProposalIsValid(answer[n])

\* The whole answer is checked before anything of it is kept.
Accepts(reply, answer) == Parsed(provider, "curate_rules", reply) /\ AllValid(answer)

Wanted(request, p) == OperationFor(p.change) # "none" /\ Wants(request, OperationFor(p.change))

Hear(reply, answer) ==
  /\ pass.at = "asking"
  /\ reply \in Replies(provider, "curate_rules")
  /\ "proposals" \in reply.shape.fields \/ answer = <<>>
  /\ IF Accepts(reply, answer)
     THEN /\ pass' = [pass EXCEPT !.at = "keeping", !.valid = AllValid(answer),
                                  !.left = answer]
          /\ UNCHANGED refused
     ELSE pass' = [pass EXCEPT !.at = "refusing"] /\ refused' = refused + 1
  /\ UNCHANGED <<stored, traced, noted, passes, cuts, provider, answered>>

\* The entry, and then the error goes to the caller.
NoteRefusal ==
  /\ pass.at = "refusing"
  /\ noted' = noted + 1 /\ pass' = Idle
  /\ UNCHANGED <<stored, traced, refused, passes, cuts, provider, answered>>

\* Mutant: the candidate is not compared with the rules there are.
ClampedByRisk(p) ==
  IF p.risk \in {"high", "critical"} THEN "pending_human_review"
  ELSE IF p.status = "active" THEN "shadow_mode" ELSE p.status

\* clamp_status, and a candidate that contradicts a rule goes to a human.
Clamped(p) ==
  IF p.risk \in {"high", "critical"} \/ p.draft \in Clashing THEN "pending_human_review"
  ELSE IF p.status = "active" THEN "shadow_mode" ELSE p.status

\* A change of a kind nobody asked for is dropped.
PassOver ==
  /\ pass.at = "keeping" /\ pass.left # <<>> /\ ~Wanted(pass.request, Head(pass.left))
  /\ pass' = [pass EXCEPT !.left = Tail(@)]
  /\ UNCHANGED <<stored, traced, refused, noted, passes, cuts, provider, answered>>

Save ==
  /\ pass.at = "keeping" /\ pass.left # <<>> /\ Wanted(pass.request, Head(pass.left))
  /\ stored' = stored \cup
       {[change |-> Head(pass.left), status |-> Clamped(Head(pass.left)),
         pass |-> passes, n |-> Len(pass.left), request |-> pass.request,
         valid |-> pass.valid]}
  /\ pass' = [pass EXCEPT !.at = "emitting"]
  /\ UNCHANGED <<traced, refused, noted, passes, cuts, provider, answered>>

\* Mutant: the audit log hears of the proposals when all of them are stored.
EmitLast ==
  /\ pass.at = "emitting"
  /\ traced' = IF Len(pass.left) = 1 THEN traced \cup {p \in stored : p.pass = passes} ELSE traced
  /\ pass' = [pass EXCEPT !.at = "keeping", !.left = Tail(@)]
  /\ UNCHANGED <<stored, refused, noted, passes, cuts, provider, answered>>

Emit ==
  /\ pass.at = "emitting"
  /\ traced' = traced \cup {p \in stored : p.pass = passes /\ p.n = Len(pass.left)}
  /\ pass' = [pass EXCEPT !.at = "keeping", !.left = Tail(@)]
  /\ UNCHANGED <<stored, refused, noted, passes, cuts, provider, answered>>

Finish ==
  /\ pass.at = "keeping" /\ pass.left = <<>>
  /\ pass' = Idle
  /\ UNCHANGED <<stored, traced, refused, noted, passes, cuts, provider, answered>>

\* A read, a save or an append fails, or the host dies.
CutShort ==
  /\ pass # Idle
  /\ pass' = Idle /\ cuts' = cuts + 1
  /\ UNCHANGED <<stored, traced, refused, noted, passes, provider, answered>>

\* handle_draft: one call of the model, and its draft or an error.  The host
\* serves one request at a time.
DraftReply(instruction, forbidden, reply) ==
  /\ pass = Idle
  /\ reply \in Replies(provider, "draft_reply")
  /\ answered' = IF Parsed(provider, "draft_reply", reply)
                 THEN DraftOf(reply, forbidden, Guidance(instruction, forbidden))
                 ELSE NoDraft
  /\ UNCHANGED <<pass, stored, traced, refused, noted, passes, cuts, provider>>

Instructions == {{}, {"blank"}, {"be brief"}}
Commitments  == {{}, {"prices"}}

Answers == {<<>>} \cup {<<p>> : p \in Offers} \cup {<<p, q>> : p, q \in Offers}

Next ==
  \/ \E request \in Requests : Ask(request)
  \/ \E reply \in Replies(provider, "curate_rules"), answer \in Answers : Hear(reply, answer)
  \/ \E instruction \in Instructions, forbidden \in Commitments,
        reply \in Replies(provider, "draft_reply") : DraftReply(instruction, forbidden, reply)
  \/ NoteRefusal \/ PassOver \/ Save \/ Emit \/ Finish \/ CutShort

Spec == Init /\ [][Next]_vars

-----------------------------------------------------------------------------
(* Properties.                                                             *)

\* The curator proposes and never activates (curator.rs:5-9), whatever the
\* provider answers: what is stored was asked for, is complete, came in an
\* answer that was valid as a whole, and is for a human to review when it is
\* risky or contradicts a rule.  A draft has a text and waits for a human, and
\* the model was told what it must not commit to (drafter.rs:31-33).
AdviceIsHarmless ==
  /\ answered.drafted => /\ answered.review /\ answered.body # ""
                         /\ answered.asked \subseteq answered.told
  /\ \A p \in stored :
       /\ p.status # "active"
       /\ p.change.risk \in {"high", "critical"} \/ p.change.draft \in Clashing
            => p.status = "pending_human_review"
       /\ OperationFor(p.change.change) \in Proposing
       /\ Wants(p.request, OperationFor(p.change.change))
       /\ p.valid

\* Every proposal and every refused answer leaves its entry in the audit log,
\* except for at most one per pass that was cut short.
CurationIsTraced ==
  LET pending == IF pass.at \in {"emitting", "refusing"} THEN 1 ELSE 0
  IN Cardinality(stored \ traced) + (refused - noted) <= cuts + pending

\* common/curator.rs:5-9: "every proposal it emits ... recommends shadow_mode
\* (or, for risky rules, pending_human_review)".
RecommendsShadowOrReview ==
  \A p \in stored : p.status \in {"shadow_mode", "pending_human_review"}
=============================================================================

--------------------------- MODULE ProposalReview ---------------------------
(***************************************************************************)
(* How a candidate rule becomes a rule: the curator and the learning       *)
(* engine emit proposals, a person decides each one, and review.rs carries *)
(* the decision out.  Carrying it out takes up to five storage calls, each *)
(* its own transaction, and any of them may fail or be the last one the    *)
(* host makes: one action is one such call.                                *)
(*                                                                         *)
(* A rule is named by its stable name, which is unique: the one a new_rule *)
(* proposal creates is called after the proposal, the others come from an  *)
(* import.  Conditions and effects are data; a version is known by whoever *)
(* wrote its content, and a version appended twice is not told from one.   *)
(***************************************************************************)
EXTENDS Naturals, Sequences

CONSTANTS
  Proposals,    \* proposal ids
  Imports,      \* stable names an import uses
  Recommended,  \* the rule statuses a model may recommend: the response
                \* validator refuses active
  Nowhere       \* the target of a proposal that names no rule, or not its table,
                \* or brings no rule_draft to refine it with

Rules == Proposals \cup Imports

RuleStatus == {"draft", "pending_human_review", "shadow_mode", "active", "disabled",
               "retired", "rejected"}

\* merge_rules and split_rule are treated alike by everything here.
Kinds == {"new_rule", "refine_rule", "retire_rule", "merge_rules"}

ASSUME ConstantsAssumption ==
  /\ Proposals \cap Imports = {}
  /\ Nowhere \notin Rules
  /\ Recommended \subseteq RuleStatus \ {"active"}
  /\ "pending_human_review" \in Recommended

VARIABLES
  proposal,    \* agent_proposals: what each asks for, and its status column
  rule,        \* the rule tables: status, whose content is current, who wrote any
  feedback,    \* rule_proposal_feedback: the outcomes recorded of a proposal
  audit,       \* the kinds of audit entry that a review of a proposal has written
  review,      \* the review in flight
  engine,      \* the rules this host evaluates, and their content
  \* History: proposals with a review cut short; rules promoted by hand;
  \* proposals a person has accepted, whatever became of the review.
  cut, promoted, approved

stored == <<proposal, rule, feedback, audit>>
vars   == <<stored, review, engine, cut, promoted, approved>>

Absent == [status |-> "absent", current |-> Nowhere, authors |-> {}]
Unseen == [status |-> "none", kind |-> "merge_rules", target |-> Nowhere,
           risky |-> FALSE, to |-> "pending_human_review"]
Idle   == [pc |-> "idle", p |-> Nowhere, verdict |-> "rejected"]

Exists(r)   == r \in Rules /\ rule[r].status # "absent"
Terminal(p) == proposal[p].status \in {"accepted", "rejected"}

\* active and shadow_mode rules, with their current version.
Snapshot ==
  {[name |-> r, by |-> rule[r].current] :
     r \in {q \in Rules : rule[q].status \in {"active", "shadow_mode"}}}

Init ==
  /\ proposal = [p \in Proposals |-> Unseen]
  /\ rule = [r \in Rules |-> Absent]
  /\ feedback = [p \in Proposals |-> <<>>]
  /\ audit = [p \in Proposals |-> {}]
  /\ review = Idle
  /\ engine = {}
  /\ cut = {}
  /\ promoted = {}
  /\ approved = {}

-----------------------------------------------------------------------------
(* Where rules and proposals come from.                                    *)

\* Mutant: the model's word is taken for it.
ClampConflictOnly(risky, contradicts, recommended) ==
  IF contradicts THEN "pending_human_review" ELSE recommended

\* A candidate that is risky, or that contradicts a rule, goes to a person.
\* clamp_status also degrades active, which the validator has refused before.
Clamp(risky, contradicts, recommended) ==
  IF risky \/ contradicts THEN "pending_human_review" ELSE recommended

\* One proposal of a curator response, or of a learning pass.  Only a rule
\* of the launch-time snapshot can be found in conflict.  The audit entry
\* after the save is read by nobody here, nor is the target of a merge, nor
\* the status recommended for anything but a new rule (materialize()).
Emit(p, kind, target, risky, contradicts, recommended) ==
  /\ proposal[p].status = "none"
  /\ kind \in {"new_rule", "merge_rules"} => target = Nowhere
  /\ kind # "new_rule" => recommended = "pending_human_review"
  /\ contradicts => engine # {}
  /\ proposal' = [proposal EXCEPT ![p] =
       [status |-> "pending_review", kind |-> kind, target |-> target, risky |-> risky,
        to |-> Clamp(risky, contradicts, recommended)]]
  /\ UNCHANGED <<rule, feedback, audit, review, engine, cut, promoted, approved>>

\* An imported rule is a draft; a name that exists is skipped.
Import(r) ==
  /\ ~Exists(r)
  /\ rule' = [rule EXCEPT ![r] = [status |-> "draft", current |-> r, authors |-> {r}]]
  /\ UNCHANGED <<proposal, feedback, audit, review, engine, cut, promoted, approved>>

\* A person activates a rule, by a tool that is not in this repository.
Promote(r) ==
  /\ Exists(r)
  /\ rule' = [rule EXCEPT ![r].status = "active"]
  /\ promoted' = promoted \cup {r}
  /\ UNCHANGED <<proposal, feedback, audit, review, engine, cut, approved>>

-----------------------------------------------------------------------------
(* review(): one decision carried out.                                     *)

Reviewing(pc) == review.pc = pc
Goto(pc)      == review' = [review EXCEPT !.pc = pc]
Asked         == proposal[review.p]

Opens(p, verdict) ==
  /\ ~Terminal(p)
  /\ review' = [pc |-> IF verdict = "accepted" THEN "materialize" ELSE "decide",
                p |-> p, verdict |-> verdict]

\* The proposal is read and found undecided.  The host serves one request at
\* a time.  Accepted with edits is accepted, disabled later is rejected.
BeginReview(p, verdict) ==
  /\ Reviewing("idle")
  /\ proposal[p].status # "none"
  /\ Opens(p, verdict)
  /\ approved' = IF verdict = "accepted" THEN approved \cup {p} ELSE approved
  /\ UNCHANGED <<stored, engine, cut, promoted>>

\* Mutant: the new rule is left a draft.
SaveRuleDraftOnly ==
  /\ Reviewing("materialize")
  /\ Asked.kind = "new_rule"
  /\ ~Exists(review.p)
  /\ rule' = [rule EXCEPT ![review.p] =
       [status |-> "draft", current |-> review.p, authors |-> {review.p}]]
  /\ Goto("note")
  /\ UNCHANGED <<proposal, feedback, audit, engine, cut, promoted, approved>>

\* new_rule: the rule and its first version, as a draft, in one transaction.
SaveRuleDraft ==
  /\ Reviewing("materialize")
  /\ Asked.kind = "new_rule"
  /\ ~Exists(review.p)
  /\ rule' = [rule EXCEPT ![review.p] =
       [status |-> "draft", current |-> review.p, authors |-> {review.p}]]
  /\ Goto("status")
  /\ UNCHANGED <<proposal, feedback, audit, engine, cut, promoted, approved>>

UpdateRuleStatus ==
  /\ Reviewing("status")
  /\ rule' = [rule EXCEPT ![review.p].status = Asked.to]
  /\ Goto("note")
  /\ UNCHANGED <<proposal, feedback, audit, engine, cut, promoted, approved>>

\* refine_rule with a target and a draft: a version is appended and made the
\* current one, whatever status the rule is in.
CreateRuleVersion ==
  /\ Reviewing("materialize")
  /\ Asked.kind = "refine_rule"
  /\ Exists(Asked.target)
  /\ rule' = [rule EXCEPT ![Asked.target] =
       [status |-> @.status, current |-> review.p, authors |-> @.authors \cup {review.p}]]
  /\ Goto("note")
  /\ UNCHANGED <<proposal, feedback, audit, engine, cut, promoted, approved>>

\* retire_rule with a target; one that does not exist is no error.
RetireRule ==
  /\ Reviewing("materialize")
  /\ Asked.kind = "retire_rule"
  /\ Asked.target # Nowhere
  /\ rule' = IF Exists(Asked.target)
             THEN [rule EXCEPT ![Asked.target].status = "retired"] ELSE rule
  /\ Goto("note")
  /\ UNCHANGED <<proposal, feedback, audit, engine, cut, promoted, approved>>

\* A name that is taken, a version of no rule: the constraint fails, and
\* with it the review.
Refused ==
  /\ Reviewing("materialize")
  /\ \/ Asked.kind = "new_rule" /\ Exists(review.p)
     \/ Asked.kind = "refine_rule" /\ Asked.target # Nowhere /\ ~Exists(Asked.target)
  /\ review' = Idle
  /\ UNCHANGED <<stored, engine, cut, promoted, approved>>

\* Nothing to edit: the decision alone is recorded.
NothingToMaterialize ==
  /\ Reviewing("materialize")
  /\ \/ Asked.kind = "merge_rules"
     \/ Asked.kind \in {"refine_rule", "retire_rule"} /\ Asked.target = Nowhere
  /\ Goto("decide")
  /\ UNCHANGED <<stored, engine, cut, promoted, approved>>

AppendStatusAudit ==
  /\ Reviewing("note")
  /\ audit' = [audit EXCEPT ![review.p] = @ \cup {"rule_status_changed"}]
  /\ Goto("decide")
  /\ UNCHANGED <<proposal, rule, feedback, engine, cut, promoted, approved>>

\* Mutant: the decision is not recorded as feedback.
SetStatusOnly ==
  /\ Reviewing("decide")
  /\ proposal' = [proposal EXCEPT ![review.p].status = review.verdict]
  /\ Goto("audit")
  /\ UNCHANGED <<rule, feedback, audit, engine, cut, promoted, approved>>

SetStatus ==
  /\ Reviewing("decide")
  /\ proposal' = [proposal EXCEPT ![review.p].status = review.verdict]
  /\ Goto("feedback")
  /\ UNCHANGED <<rule, feedback, audit, engine, cut, promoted, approved>>

AppendFeedback ==
  /\ Reviewing("feedback")
  /\ feedback' = [feedback EXCEPT ![review.p] = Append(@, review.verdict)]
  /\ Goto("audit")
  /\ UNCHANGED <<proposal, rule, audit, engine, cut, promoted, approved>>

AppendReviewAudit ==
  /\ Reviewing("audit")
  /\ audit' = [audit EXCEPT ![review.p] = @ \cup {"proposal_reviewed"}]
  /\ review' = Idle
  /\ UNCHANGED <<proposal, rule, feedback, engine, cut, promoted, approved>>

\* A storage call fails; what was stored before it stays.
StorageFails ==
  /\ ~Reviewing("idle")
  /\ review' = Idle
  /\ cut' = cut \cup {review.p}
  /\ UNCHANGED <<stored, engine, promoted, approved>>

\* The host stops, between two requests or within one, and is launched again:
\* only now the rules it evaluates are read.
Relaunch ==
  /\ review' = Idle
  /\ cut' = IF Reviewing("idle") THEN cut ELSE cut \cup {review.p}
  /\ engine' = Snapshot
  /\ UNCHANGED <<stored, promoted, approved>>

-----------------------------------------------------------------------------
Materialize ==
  \/ SaveRuleDraft \/ UpdateRuleStatus \/ CreateRuleVersion \/ RetireRule
  \/ Refused \/ NothingToMaterialize \/ AppendStatusAudit

Review ==
  \/ \E p \in Proposals, verdict \in {"accepted", "rejected"} : BeginReview(p, verdict)
  \/ Materialize
  \/ SetStatus \/ AppendFeedback \/ AppendReviewAudit \/ StorageFails

Next ==
  \/ \E p \in Proposals, kind \in Kinds, target \in Rules \cup {Nowhere},
        risky, contradicts \in BOOLEAN, recommended \in Recommended :
       Emit(p, kind, target, risky, contradicts, recommended)
  \/ \E r \in Imports : Import(r)
  \/ \E r \in Rules : Promote(r)
  \/ Review
  \/ Relaunch

Spec == Init /\ [][Next]_vars

-----------------------------------------------------------------------------
ProposalRow ==
  [status : {"none", "pending_review", "accepted", "rejected"}, kind : Kinds,
   target : Rules \cup {Nowhere}, risky : BOOLEAN, to : Recommended]

RuleRow ==
  [status : RuleStatus \cup {"absent"}, current : Rules \cup {Nowhere},
   authors : SUBSET Rules]

Verdict == {"accepted", "rejected"}

\* Every variable has its type; feedback rows are verdicts, and what the
\* engine evaluates are rules with the content of a rule row.
TypeOK ==
  /\ proposal \in [Proposals -> ProposalRow]
  /\ rule \in [Rules -> RuleRow]
  /\ feedback \in [Proposals -> Seq(Verdict)]
  /\ audit \in [Proposals -> SUBSET {"rule_status_changed", "proposal_reviewed"}]
  /\ review \in [pc : {"idle", "materialize", "status", "note", "decide", "feedback", "audit"},
                 p : Proposals \cup {Nowhere}, verdict : Verdict]
  /\ Reviewing("idle") \/ review.p \in Proposals
  /\ engine \subseteq [name : Rules, by : Rules]
  /\ cut \subseteq Proposals
  /\ promoted \subseteq Rules
  /\ approved \subseteq Proposals

InFlight(p) == ~Reviewing("idle") /\ review.p = p

\* A proposal is decided once: the learnable record holds at most one outcome,
\* and it is the one in the status column, whatever failed and was tried
\* again (the is_terminal check of review()).
OneOutcome ==
  \A p \in Proposals :
    /\ Len(feedback[p]) <= 1
    /\ feedback[p] # <<>> => feedback[p][1] = proposal[p].status

\* A proposal that reads accepted has had its effect: the rule it asked for
\* exists and has left draft, the version it asked for was written.  A
\* failure in materialize() must not leave an accepted proposal behind.
AcceptedTookEffect ==
  \A p \in Proposals : proposal[p].status = "accepted" =>
    /\ proposal[p].kind = "new_rule" =>
         Exists(p) /\ (rule[p].status = "draft" => proposal[p].to = "draft")
    /\ proposal[p].kind = "refine_rule" /\ proposal[p].target # Nowhere =>
         p \in rule[proposal[p].target].authors

\* "Either way the decision is recorded" (curation.rs:81-82): a decided proposal
\* has its feedback row and its audit entry, unless the review that decided
\* it, which no second one can repair, was cut short.
DecisionsRecorded ==
  \A p \in Proposals : Terminal(p) /\ ~InFlight(p) /\ p \notin cut =>
    feedback[p] = <<proposal[p].status>> /\ "proposal_reviewed" \in audit[p]

\* p has written to a rule.
Traces(p) == \E r \in Rules : p \in rule[r].authors

\* A proposal nobody has accepted has written nothing to the rule tables: not
\* while it waits and not once it is rejected, unless a review of it was cut
\* short.
UndecidedLeavesNothing ==
  \A p \in Proposals :
    proposal[p].status # "accepted" /\ ~InFlight(p) /\ p \notin cut => ~Traces(p)

\* curation.rs:80-81 says without reserve "on rejection nothing is created".
RejectedLeavesNothing ==
  \A p \in Proposals : proposal[p].status = "rejected" => ~Traces(p)

\* p asks for a content of rule r.
AsksFor(p, r) ==
  \/ proposal[p].kind = "new_rule" /\ r = p
  \/ proposal[p].kind = "refine_rule" /\ proposal[p].target = r

\* Whatever a host evaluates, in shadow or not, a person let through, over
\* every failure, retry and relaunch.  The content is an import's, or a person
\* accepted a proposal that asked for it, of this very rule; and unless a
\* person promoted the rule, it is the new rule of a proposal that was neither
\* risky nor in conflict (clamp_status, and the draft that every rule starts
\* as).
OnlyApprovedIsEvaluated ==
  \A e \in engine :
    /\ e.by \in Proposals => e.by \in approved /\ AsksFor(e.by, e.name)
    /\ e.name \notin promoted =>
         /\ e.name \in Proposals /\ ~proposal[e.name].risky
         /\ proposal[e.name].to # "pending_human_review"

\* What the code does not keep, see README: a risky refinement of a rule that
\* runs in shadow is evaluated at the next launch, on the acceptance alone.
\* review.rs:7-8 says a risky rule needs "a further, separate human action".
RiskyContentWaits ==
  \A e \in engine : e.by \in Proposals /\ proposal[e.by].risky => e.name \in promoted
=============================================================================

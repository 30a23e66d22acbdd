------------------------------ MODULE Decision ------------------------------
(***************************************************************************)
(* How the host decides what to do with a message: the rule engine, the    *)
(* classification cascade, the planner and the policy guard.  All of it is *)
(* a function of the message and of the rules the host was launched with.  *)
(*                                                                         *)
(* The host has no AI provider attached to the cascade, so what the local  *)
(* model cannot clear needs review.  A condition is a set of literals, all *)
(* of which must hold.  Identifiers, texts and the numbers of the model    *)
(* are reduced to what the decision looks at.                              *)
(***************************************************************************)
EXTENDS Integers, SequencesExt

CONSTANTS
  Unset      \* an absent optional field

-----------------------------------------------------------------------------
(* Rules.  A rule is
     [id, kind : {"classification", "action"}, status, band : 0..5,
      condition, effect]
   and an effect [set_labels, priority, tag, move, mark_junk, review_for]. *)

\* The elements of s that are in T, in their order.
Kept(s, T) ==
  LET kept[n \in 0 .. Len(s)] ==
        IF n = 0 THEN <<>>
        ELSE IF s[n] \in T THEN Append(kept[n - 1], s[n]) ELSE kept[n - 1]
  IN  kept[Len(s)]

\* An absent field satisfies no predicate, and so every negated one.
Holds(condition, fields) ==
  \A lit \in condition : (<<lit.field, lit.value>> \in fields) # lit.negated

IsEvaluated(rule) == rule.status \in {"active", "shadow_mode"}
Applies(rule)     == rule.status = "active"

\* rule_snapshot: what a launch takes from the store, for one of the engines.
Snapshot(rules, kind) ==
  Kept(rules, {r \in Range(rules) : r.kind = kind /\ IsEvaluated(r)})

Matched(rules, fields) ==
  Kept(rules, {r \in Range(rules) : IsEvaluated(r) /\ Holds(r.condition, fields)})

\* A stable sort by the ordinal of the band: the highest authority leads.
Ranked(rules) ==
  LET Band(b) == Kept(rules, {r \in Range(rules) : r.band = b})
  IN  Band(0) \o Band(1) \o Band(2) \o Band(3) \o Band(4) \o Band(5)

AppliedRules(rules, fields) ==
  Kept(Ranked(Matched(rules, fields)), {r \in Range(rules) : Applies(r)})

-----------------------------------------------------------------------------
(* The cascade *)

SensitiveLabels ==
  {"financial", "invoice", "payment", "receipt", "banking", "security",
   "phishing", "account_alert", "password_reset", "two_factor", "legal",
   "contract", "notice"}

\* policy_categories, as far as has_sensitive_category looks at them.
Sensitive(classification) == classification.labels \cap SensitiveLabels # {}

ClassificationFields(message) == message.fields

\* Tier 1: the labels of every rule that applies, and the priority of the last.
Tier1(rules, message) ==
  LET applied == AppliedRules(rules, ClassificationFields(message))
      ranked  == SelectSeq(applied, LAMBDA r : r.effect.priority # Unset)
  IN  [labels       |-> UNION {applied[i].effect.set_labels : i \in DOMAIN applied},
       priority     |-> IF ranked = <<>> THEN "normal"
                        ELSE ranked[Len(ranked)].effect.priority,
       needs_review |-> FALSE,
       tier         |-> "tier1_rules"]

Tier1Decides(rules, message) ==
  LET applied == AppliedRules(rules, ClassificationFields(message))
  IN  \E i \in DOMAIN applied :
        applied[i].effect.set_labels # {} \/ applied[i].effect.priority # Unset

\* Tier 2: message.model is the top label of the local model, whether its
\* confidence clears the band, and whether the phishing score is low enough.
Tier2Accepts(message) == message.model.confident /\ message.model.phishing_clear

Tier2(message) ==
  [labels       |-> {IF Tier2Accepts(message) THEN message.model.top ELSE "needs_review"},
   priority     |-> "normal",
   needs_review |-> ~Tier2Accepts(message),
   tier         |-> "tier2_model"]

Classify(rules, message) ==
  IF Tier1Decides(rules, message) THEN Tier1(rules, message) ELSE Tier2(message)

-----------------------------------------------------------------------------
(* The plan *)

ActionFields(message, classification) ==
  message.fields
    \cup {<<"classification.labels", l>> : l \in classification.labels}
    \cup {<<"classification.priority", classification.priority>>}
    \cup {<<"classification.needs_review", classification.needs_review>>}

RequireReview(what) == [kind |-> "require_review", to |-> what]

\* translate_effect
Translate(effect) ==
  [i \in DOMAIN effect.tag |-> [kind |-> "tag", to |-> effect.tag[i]]]
    \o (IF effect.move = Unset THEN <<>> ELSE <<[kind |-> "move", to |-> effect.move]>>)
    \o (IF effect.mark_junk = Unset THEN <<>>
        ELSE <<[kind |-> "mark_junk", to |-> effect.mark_junk]>>)
    \o [i \in DOMAIN effect.review_for |-> RequireReview(effect.review_for[i])]

\* The effects of all the rules that apply, in rank order.
TranslateAll(rules) == FlattenSeq([i \in DOMAIN rules |-> Translate(rules[i].effect)])

Plan(rules, message, classification) ==
  LET actions == TranslateAll(AppliedRules(rules, ActionFields(message, classification)))
      asks    == \E i \in DOMAIN actions : actions[i].kind = "require_review"
  IN  IF classification.needs_review /\ ~asks
      THEN Append(actions, RequireReview("classification"))
      ELSE actions

-----------------------------------------------------------------------------
(* The guard *)

Prohibited ==
  {"delete", "send_draft", "open_link", "download_remote_content",
   "trust_payment_detail_change"}

\* Mutant: a move is as safe as a tag.
VerdictMovesFreely(action, sensitive) ==
  CASE action.kind \in Prohibited -> "blocked"
    [] action.kind = "require_review" -> "requires_review"
    [] OTHER -> "allowed"

\* evaluate_one; the context of a plan never carries an override or allowance.
Verdict(action, sensitive) ==
  CASE action.kind \in Prohibited -> "blocked"
    [] action.kind = "require_review" -> "requires_review"
    [] action.kind = "move" /\ sensitive -> "requires_review"
    [] OTHER -> "allowed"

\* evaluate_action_plan, which keeps the actions of each verdict apart.
Guard(actions, classification, verdict) ==
  Kept(actions, {a \in Range(actions) : Verdict(a, Sensitive(classification)) = verdict})

\* handle_message.  The two engines hold the snapshots of their own kind.
Decide(rules, message) ==
  LET classification == Classify(Snapshot(rules, "classification"), message)
      actions        == Plan(Snapshot(rules, "action"), message, classification)
  IN  [classification |-> classification,
       allowed |-> Guard(actions, classification, "allowed"),
       review  |-> Guard(actions, classification, "requires_review")]
=============================================================================

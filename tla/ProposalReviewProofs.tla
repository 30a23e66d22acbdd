------------------------ MODULE ProposalReviewProofs ------------------------
(***************************************************************************)
(* Theorems about ProposalReview, for any sets of proposals and imported   *)
(* names.  Every invariant a run checks follows from ReviewInv, which adds *)
(* what a review in flight has done so far.                                *)
(***************************************************************************)
EXTENDS ProposalReview, TLAPS

\* What an accepted proposal asks of the rule tables.
Effect(p) ==
  /\ proposal[p].kind = "new_rule" =>
       Exists(p) /\ (rule[p].status = "draft" => proposal[p].to = "draft")
  /\ proposal[p].kind = "refine_rule" /\ proposal[p].target # Nowhere =>
       p \in rule[proposal[p].target].authors

\* What each program counter says about the proposal under review.
Stage ==
  LET p == review.p IN
  /\ ~Reviewing("idle") => proposal[p].status # "none"
  /\ review.pc \in {"materialize", "status", "note", "decide"} =>
       proposal[p].status = "pending_review" /\ feedback[p] = <<>>
  /\ review.pc \in {"materialize", "status", "note"} => review.verdict = "accepted"
  /\ Reviewing("status") => proposal[p].kind = "new_rule" /\ Exists(p)
  /\ review.pc \in {"note", "decide"} /\ review.verdict = "accepted" => Effect(p)
  /\ review.pc \in {"feedback", "audit"} => proposal[p].status = review.verdict
  /\ Reviewing("feedback") => feedback[p] = <<>>
  /\ Reviewing("audit") => feedback[p] = <<review.verdict>>

\* Feedback exists for decided proposals only, once.
Recorded ==
  \A p \in Proposals :
    feedback[p] = <<>> \/ (Terminal(p) /\ feedback[p] = <<proposal[p].status>>)

\* Nothing is known of a proposal that was not emitted yet; only a review of
\* p makes the rule p.
Fresh ==
  \A p \in Proposals :
    /\ proposal[p].status = "none" => p \notin cut /\ ~Traces(p)
    /\ Exists(p) => proposal[p].status # "none" /\ Traces(p)

\* Who may have written to a rule without having been accepted.
Traced ==
  \A p \in Proposals : Traces(p) =>
    \/ proposal[p].status = "accepted" \/ p \in cut
    \/ InFlight(p) /\ review.verdict = "accepted" /\ ~Reviewing("materialize")

\* What a risky proposal may ask for.
Clamped ==
  \A p \in Proposals : proposal[p].risky => proposal[p].to = "pending_human_review"

\* A rule is in an evaluated status by a promotion, or as the new rule of a
\* proposal that was neither risky nor in conflict.
Held ==
  \A r \in Rules :
    rule[r].status \in {"active", "shadow_mode"} /\ r \notin promoted =>
      /\ r \in Proposals /\ ~proposal[r].risky
      /\ proposal[r].to # "pending_human_review"

\* An accepted proposal has had its effect.
Accepted == \A p \in Proposals : proposal[p].status = "accepted" => Effect(p)

\* A rule that exists has a version, one that does not has none.
Versioned ==
  \A r \in Rules :
    /\ rule[r].status # "absent" => rule[r].current \in Rules
    /\ rule[r].status = "absent" => rule[r].authors = {}

\* A host evaluates rules that exist.
Loaded == \A e \in engine : Exists(e.name)

\* The inductive invariant.
ReviewInv ==
  /\ TypeOK /\ Stage /\ Recorded /\ Fresh /\ Traced /\ Clamped /\ Held /\ Accepted
  /\ Versioned /\ Loaded /\ DecisionsRecorded

-----------------------------------------------------------------------------
\* A rule's status is overwritten.
LEMMA RuleStatusWrite ==
  ASSUME rule \in [Rules -> RuleRow], NEW r \in Rules,
         NEW s \in RuleStatus, rule' = [rule EXCEPT ![r].status = s]
  PROVE  /\ rule' \in [Rules -> RuleRow]
         /\ \A q \in Rules :
              rule'[q].authors = rule[q].authors /\ rule'[q].current = rule[q].current
         /\ \A q \in Rules : rule'[q].status = IF q = r THEN s ELSE rule[q].status
  BY DEF RuleRow

\* A rule gets a new current version.
LEMMA RuleVersionWrite ==
  ASSUME rule \in [Rules -> RuleRow], NEW r \in Rules, NEW a \in Rules,
         rule' = [rule EXCEPT ![r] =
                    [status |-> @.status, current |-> a, authors |-> @.authors \cup {a}]]
  PROVE  /\ rule' \in [Rules -> RuleRow]
         /\ \A q \in Rules : rule'[q].status = rule[q].status
         /\ \A q \in Rules : rule'[q].current = IF q = r THEN a ELSE rule[q].current
         /\ \A q \in Rules : rule'[q].authors = IF q = r THEN rule[q].authors \cup {a}
                                                ELSE rule[q].authors
  BY DEF RuleRow

\* A rule is inserted with its first version.
LEMMA RuleMade ==
  ASSUME rule \in [Rules -> RuleRow], NEW r \in Rules,
         rule' = [rule EXCEPT ![r] = [status |-> "draft", current |-> r, authors |-> {r}]]
  PROVE  /\ rule' \in [Rules -> RuleRow]
         /\ rule'[r] = [status |-> "draft", current |-> r, authors |-> {r}]
         /\ \A q \in Rules \ {r} : rule'[q] = rule[q]
  BY DEF RuleRow, RuleStatus

\* A proposal's status column is overwritten.
LEMMA ProposalStatusWrite ==
  ASSUME proposal \in [Proposals -> ProposalRow], NEW p \in Proposals, NEW s \in Verdict,
         proposal' = [proposal EXCEPT ![p].status = s]
  PROVE  /\ proposal' \in [Proposals -> ProposalRow]
         /\ \A q \in Proposals :
              /\ proposal'[q].status = IF q = p THEN s ELSE proposal[q].status
              /\ proposal'[q].kind = proposal[q].kind
              /\ proposal'[q].target = proposal[q].target
              /\ proposal'[q].risky = proposal[q].risky
              /\ proposal'[q].to = proposal[q].to
  BY DEF ProposalRow, Verdict

\* An empty store satisfies the inductive invariant.
THEOREM InitInv == Init => ReviewInv
  <1> SUFFICES ASSUME Init PROVE ReviewInv
    OBVIOUS
  <1> USE ConstantsAssumption DEF Init
  <1>1. TypeOK
    BY DEF TypeOK, ProposalRow, RuleRow, Unseen, Absent, Idle, Verdict, Kinds, Reviewing, Rules
  <1>2. Stage
    BY DEF Stage, Reviewing, Idle
  <1>3. Recorded /\ Traced /\ Clamped /\ Held /\ Accepted /\ Versioned /\ Loaded
    BY DEF Recorded, Traced, Clamped, Held, Accepted, Versioned, Loaded, Traces, Unseen, Absent,
           Rules
  <1>4. Fresh
    BY DEF Fresh, Traces, Exists, Unseen, Absent, Rules
  <1>5. DecisionsRecorded
    BY DEF DecisionsRecorded, Terminal, Unseen
  <1> QED
    BY <1>1, <1>2, <1>3, <1>4, <1>5 DEF ReviewInv

\* A review is opened.
LEMMA BeginReviewInv ==
  ASSUME ReviewInv, NEW x \in Proposals, NEW v \in Verdict, BeginReview(x, v)
  PROVE  ReviewInv'
  <1> USE DEF ReviewInv
  <1>1. /\ Reviewing("idle") /\ proposal[x].status # "none" /\ ~Terminal(x)
        /\ review' = [pc |-> IF v = "accepted" THEN "materialize" ELSE "decide",
                      p |-> x, verdict |-> v]
        /\ approved' = IF v = "accepted" THEN approved \cup {x} ELSE approved
        /\ UNCHANGED <<stored, engine, cut, promoted>>
    BY DEF BeginReview, TypeOK, Reviewing, Goto, Asked, stored, Opens
  <1>2. UNCHANGED <<proposal, rule, feedback, audit>>
    BY <1>1 DEF stored
  <1>3. TypeOK'
    BY <1>1, <1>2 DEF TypeOK, Verdict, Reviewing
  <1>4. Stage'
    BY <1>1, <1>2 DEF Stage, Recorded, Terminal, Effect, Exists, Reviewing,
       Verdict, TypeOK, ProposalRow
  <1>5. Traced'
    BY <1>1, <1>2 DEF Traced, Traces, InFlight, Reviewing, TypeOK
  <1>6. DecisionsRecorded'
    BY <1>1, <1>2 DEF DecisionsRecorded, Terminal, InFlight, Reviewing, TypeOK
  <1>7. Recorded' /\ Fresh' /\ Clamped' /\ Held' /\ Accepted' /\ Versioned' /\ Loaded'
    BY <1>1, <1>2 DEF Recorded, Terminal, Fresh, Traces, Exists, Clamped,
       Held, Accepted, Effect, Versioned, Loaded, TypeOK
  <1> QED
    BY <1>3, <1>4, <1>5, <1>6, <1>7

\* The rule is created, as a draft.
LEMMA SaveRuleDraftInv ==
  ASSUME ReviewInv, SaveRuleDraft
  PROVE  ReviewInv'
  <1> USE DEF ReviewInv
  <1>1. /\ review.p \in Proposals /\ Reviewing("materialize")
        /\ proposal[review.p].kind = "new_rule" /\ ~Exists(review.p)
        /\ review' = [review EXCEPT !.pc = "status"]
        /\ UNCHANGED <<proposal, feedback, audit, engine, cut, promoted, approved>>
    BY DEF SaveRuleDraft, TypeOK, Reviewing, Goto, Asked, stored
  <1>2. /\ rule' \in [Rules -> RuleRow]
        /\ rule'[review.p] = [status |-> "draft", current |-> review.p, authors |-> {review.p}]
        /\ \A q \in Rules \ {review.p} : rule'[q] = rule[q]
    BY <1>1, RuleMade DEF SaveRuleDraft, TypeOK, Rules
  <1>3. \A q \in Proposals : Traces(q)' <=> Traces(q) \/ q = review.p
    BY <1>1, <1>2 DEF Traces, Versioned, Exists, Rules, Stage, Reviewing
  <1>4. \A q \in Rules : Exists(q)' <=> Exists(q) \/ q = review.p
    BY <1>1, <1>2 DEF Exists, Rules, RuleStatus, Stage, Reviewing
  <1>5. \A q \in Proposals : Effect(q) => Effect(q)'
    BY <1>1, <1>2 DEF Effect, Exists, Versioned, TypeOK, ProposalRow, Rules, Stage, Reviewing
  <1>6. TypeOK'
    BY <1>1, <1>2, <1>3, <1>4, <1>5 DEF TypeOK, Verdict, Reviewing, Rules
  <1>7. Stage'
    BY <1>1, <1>2, <1>3, <1>4, <1>5 DEF Stage, Recorded, Terminal, Reviewing,
       Verdict, TypeOK, Rules
  <1>8. Fresh'
    BY <1>1, <1>2, <1>3, <1>4, <1>5 DEF Fresh, TypeOK, Stage, Reviewing, Rules
  <1>9. Traced'
    BY <1>1, <1>2, <1>3, <1>4, <1>5 DEF Traced, InFlight, Reviewing, TypeOK,
       Stage, Rules
  <1>10. Held'
    BY <1>1, <1>2, <1>3, <1>4, <1>5 DEF Held, TypeOK, Rules
  <1>11. Accepted'
    BY <1>1, <1>2, <1>3, <1>4, <1>5 DEF Accepted, TypeOK, Stage, Reviewing,
       Effect
  <1>12. Versioned'
    BY <1>1, <1>2 DEF Versioned, TypeOK, Rules
  <1>13. Loaded'
    BY <1>1, <1>2, <1>3, <1>4, <1>5 DEF Loaded, TypeOK, Rules
  <1>14. Recorded' /\ Clamped' /\ DecisionsRecorded'
    BY <1>1, <1>2, <1>3, <1>4, <1>5 DEF Recorded, Terminal, Clamped,
       DecisionsRecorded, InFlight, Reviewing, TypeOK
  <1> QED
    BY <1>6, <1>7, <1>8, <1>9, <1>10, <1>11, <1>12, <1>13, <1>14

\* The rule gets the status that was recommended.
LEMMA UpdateRuleStatusInv ==
  ASSUME ReviewInv, UpdateRuleStatus
  PROVE  ReviewInv'
  <1> USE DEF ReviewInv
  <1>1. /\ review.p \in Proposals /\ Reviewing("status")
        /\ review' = [review EXCEPT !.pc = "note"]
        /\ UNCHANGED <<proposal, feedback, audit, engine, cut, promoted, approved>>
    BY DEF UpdateRuleStatus, TypeOK, Reviewing, Goto, Asked, stored
  <1>2. /\ proposal[review.p].to \in RuleStatus /\ review.p \in Rules
        /\ rule' = [rule EXCEPT ![review.p].status = proposal[review.p].to]
        /\ rule \in [Rules -> RuleRow]
    BY <1>1, ConstantsAssumption DEF UpdateRuleStatus, Asked, TypeOK, ProposalRow, Rules
  <1>3. /\ rule' \in [Rules -> RuleRow]
        /\ \A q \in Rules : rule'[q].authors = rule[q].authors /\ rule'[q].current = rule[q].current
        /\ \A q \in Rules :
             rule'[q].status = IF q = review.p THEN proposal[review.p].to ELSE rule[q].status
    BY <1>2, RuleStatusWrite
  <1>4. \A q \in Proposals : Traces(q)' <=> Traces(q)
    BY <1>1, <1>2, <1>3 DEF Traces, Versioned, Exists, Rules, Stage, Reviewing, RuleStatus
  <1>5. \A q \in Rules : Exists(q)' <=> Exists(q)
    BY <1>1, <1>2, <1>3 DEF Exists, Rules, RuleStatus, Stage, Reviewing, RuleStatus
  <1>6. \A q \in Proposals : Effect(q) => Effect(q)'
    BY <1>1, <1>2, <1>3 DEF Effect, Exists, Versioned, TypeOK, ProposalRow, Rules,
       Stage, Reviewing, RuleStatus
  <1>7. TypeOK'
    BY <1>1, <1>2, <1>3, <1>4, <1>5, <1>6 DEF TypeOK, Verdict, Reviewing,
       Rules, Stage, Exists, Clamped, RuleStatus
  <1>8. Stage'
    BY <1>1, <1>2, <1>3, <1>4, <1>5, <1>6 DEF Stage, Recorded, Terminal,
       Reviewing, Verdict, TypeOK, Rules, Exists, Clamped, RuleStatus, Effect
  <1>9. Fresh'
    BY <1>1, <1>2, <1>3, <1>4, <1>5, <1>6 DEF Fresh, TypeOK, Rules, Stage,
       Exists, Clamped, Reviewing, RuleStatus
  <1>10. Traced'
    BY <1>1, <1>2, <1>3, <1>4, <1>5, <1>6 DEF Traced, InFlight, Reviewing,
       TypeOK, Rules, Stage, Exists, Clamped, RuleStatus
  <1>11. Held'
    BY <1>1, <1>2, <1>3, <1>4, <1>5, <1>6 DEF Held, TypeOK, Rules, Stage,
       Exists, Clamped, Reviewing, RuleStatus
  <1>12. Accepted'
    BY <1>1, <1>2, <1>3, <1>4, <1>5, <1>6 DEF Accepted, TypeOK, Rules, Stage,
       Exists, Clamped, Reviewing, RuleStatus
  <1>13. Versioned'
    BY <1>1, <1>2, <1>3 DEF Versioned, TypeOK, Rules, Stage, Exists, Clamped,
       Reviewing, RuleStatus
  <1>14. Loaded'
    BY <1>1, <1>2, <1>3, <1>4, <1>5, <1>6 DEF Loaded, TypeOK, Rules, Stage,
       Exists, Clamped, Reviewing, RuleStatus
  <1>15. Recorded' /\ Clamped' /\ DecisionsRecorded'
    BY <1>1, <1>2, <1>3, <1>4, <1>5, <1>6 DEF Recorded, Terminal, Clamped,
       DecisionsRecorded, InFlight, Reviewing, TypeOK
  <1> QED
    BY <1>7, <1>8, <1>9, <1>10, <1>11, <1>12, <1>13, <1>14, <1>15

\* A version is appended to a rule that exists.
LEMMA CreateRuleVersionInv ==
  ASSUME ReviewInv, CreateRuleVersion
  PROVE  ReviewInv'
  <1> USE DEF ReviewInv
  <1>1. /\ review.p \in Proposals /\ Reviewing("materialize")
        /\ proposal[review.p].kind = "refine_rule" /\ Exists(proposal[review.p].target)
        /\ review' = [review EXCEPT !.pc = "note"]
        /\ UNCHANGED <<proposal, feedback, audit, engine, cut, promoted, approved>>
    BY DEF CreateRuleVersion, TypeOK, Reviewing, Goto, Asked, stored
  <1>2. PICK t \in Rules :
          /\ t = proposal[review.p].target /\ review.p \in Rules
          /\ rule' = [rule EXCEPT ![t] =
                       [status |-> @.status, current |-> review.p,
                        authors |-> @.authors \cup {review.p}]]
          /\ rule \in [Rules -> RuleRow]
    BY <1>1 DEF CreateRuleVersion, Asked, TypeOK, Exists, Rules
  <1>3. /\ rule' \in [Rules -> RuleRow]
        /\ \A q \in Rules : rule'[q].status = rule[q].status
        /\ \A q \in Rules : rule'[q].current = IF q = t THEN review.p ELSE rule[q].current
        /\ \A q \in Rules : rule'[q].authors = IF q = t THEN rule[q].authors \cup {review.p}
                                               ELSE rule[q].authors
    BY <1>2, RuleVersionWrite
  <1>4. \A q \in Proposals : Traces(q)' <=> Traces(q) \/ q = review.p
    BY <1>1, <1>2, <1>3 DEF Traces, Versioned, Exists, Rules
  <1>5. \A q \in Rules : Exists(q)' <=> Exists(q)
    BY <1>1, <1>2, <1>3 DEF Exists, Rules, RuleStatus
  <1>6. \A q \in Proposals : Effect(q) => Effect(q)'
    BY <1>1, <1>2, <1>3 DEF Effect, Exists, Versioned, TypeOK, ProposalRow, Rules
  <1>7. TypeOK'
    BY <1>1, <1>2, <1>3, <1>4, <1>5, <1>6 DEF TypeOK, Verdict, Reviewing,
       Rules, Stage, Exists
  <1>8. Stage'
    BY <1>1, <1>2, <1>3, <1>4, <1>5, <1>6 DEF Stage, Recorded, Terminal,
       Reviewing, Verdict, TypeOK, Rules, Exists, Effect
  <1>9. Fresh'
    BY <1>1, <1>2, <1>3, <1>4, <1>5, <1>6 DEF Fresh, TypeOK, Rules, Stage,
       Exists, Reviewing
  <1>10. Traced'
    BY <1>1, <1>2, <1>3, <1>4, <1>5, <1>6 DEF Traced, InFlight, Reviewing,
       TypeOK, Rules, Stage, Exists
  <1>11. Held'
    BY <1>1, <1>2, <1>3, <1>4, <1>5, <1>6 DEF Held, TypeOK, Rules, Stage,
       Exists, Reviewing
  <1>12. Accepted'
    BY <1>1, <1>2, <1>3, <1>4, <1>5, <1>6 DEF Accepted, TypeOK, Rules, Stage,
       Exists, Reviewing
  <1>13. Versioned'
    BY <1>1, <1>2, <1>3 DEF Versioned, TypeOK, Rules, Stage, Exists, Reviewing
  <1>14. Loaded'
    BY <1>1, <1>2, <1>3, <1>4, <1>5, <1>6 DEF Loaded, TypeOK, Rules, Stage,
       Exists, Reviewing
  <1>15. Recorded' /\ Clamped' /\ DecisionsRecorded'
    BY <1>1, <1>2, <1>3, <1>4, <1>5, <1>6 DEF Recorded, Terminal, Clamped,
       DecisionsRecorded, InFlight, Reviewing, TypeOK
  <1> QED
    BY <1>7, <1>8, <1>9, <1>10, <1>11, <1>12, <1>13, <1>14, <1>15

\* A rule that exists is retired.
LEMMA RetireRuleInv ==
  ASSUME ReviewInv, RetireRule
  PROVE  ReviewInv'
  <1> USE DEF ReviewInv
  <1>1. /\ review.p \in Proposals /\ Reviewing("materialize")
        /\ proposal[review.p].kind = "retire_rule"
        /\ review' = [review EXCEPT !.pc = "note"]
        /\ UNCHANGED <<proposal, feedback, audit, engine, cut, promoted, approved>>
    BY DEF RetireRule, TypeOK, Reviewing, Goto, Asked, stored
  <1>2. rule' = IF Exists(proposal[review.p].target)
               THEN [rule EXCEPT ![proposal[review.p].target].status = "retired"] ELSE rule
    BY DEF RetireRule, Asked
  <1>3. /\ rule' \in [Rules -> RuleRow]
        /\ \A q \in Rules :
             /\ rule'[q].authors = rule[q].authors /\ rule'[q].current = rule[q].current
             /\ rule'[q].status = rule[q].status
                  \/ (rule[q].status # "absent" /\ rule'[q].status = "retired")
    <2>1. "retired" \in RuleStatus
      BY DEF RuleStatus
    <2>2. CASE ~Exists(proposal[review.p].target)
      BY <1>2, <2>2 DEF TypeOK
    <2>3. CASE Exists(proposal[review.p].target)
      <3>1. PICK t \in Rules : t = proposal[review.p].target
        BY <2>3 DEF Exists
      <3>2. rule[t].status # "absent" /\ rule' = [rule EXCEPT ![t].status = "retired"]
        BY <1>2, <2>3, <3>1 DEF Exists
      <3>3. rule \in [Rules -> RuleRow]
        BY DEF TypeOK
      <3>4. /\ rule' \in [Rules -> RuleRow]
            /\ \A q \in Rules :
                 rule'[q].authors = rule[q].authors /\ rule'[q].current = rule[q].current
            /\ \A q \in Rules :
                 rule'[q].status = IF q = t THEN "retired" ELSE rule[q].status
        BY ONLY <2>1, <3>1, <3>2, <3>3 DEF RuleRow
      <3>5. ASSUME NEW q \in Rules
            PROVE  rule'[q].status = rule[q].status
                     \/ (rule[q].status # "absent" /\ rule'[q].status = "retired")
        BY <3>2, <3>4 DEF RuleRow
      <3> QED
        BY <3>4, <3>5
    <2> QED
      BY <2>2, <2>3
  <1>4. \A q \in Proposals : Traces(q)' <=> Traces(q)
    BY <1>1, <1>2, <1>3 DEF Traces, Versioned, Exists, Rules
  <1>5. \A q \in Rules : Exists(q)' <=> Exists(q)
    BY <1>1, <1>2, <1>3 DEF Exists, Rules, RuleStatus
  <1>6. \A q \in Proposals : Effect(q) => Effect(q)'
    BY <1>1, <1>2, <1>3 DEF Effect, Exists, Versioned, TypeOK, ProposalRow, Rules
  <1>7. TypeOK'
    BY <1>1, <1>2, <1>3, <1>4, <1>5, <1>6 DEF TypeOK, Verdict, Reviewing,
       Rules, Stage, Exists
  <1>8. Stage'
    BY <1>1, <1>2, <1>3, <1>4, <1>5, <1>6 DEF Stage, Recorded, Terminal,
       Reviewing, Verdict, TypeOK, Rules, Exists, Effect
  <1>9. Fresh'
    BY <1>1, <1>2, <1>3, <1>4, <1>5, <1>6 DEF Fresh, TypeOK, Rules, Stage,
       Exists, Reviewing
  <1>10. Traced'
    BY <1>1, <1>2, <1>3, <1>4, <1>5, <1>6 DEF Traced, InFlight, Reviewing,
       TypeOK, Rules, Stage, Exists
  <1>11. Held'
    BY <1>1, <1>2, <1>3, <1>4, <1>5, <1>6 DEF Held, TypeOK, Rules, Stage,
       Exists, Reviewing
  <1>12. Accepted'
    BY <1>1, <1>2, <1>3, <1>4, <1>5, <1>6 DEF Accepted, TypeOK, Rules, Stage,
       Exists, Reviewing
  <1>13. Versioned'
    BY <1>1, <1>2, <1>3 DEF Versioned, TypeOK, Rules, Stage, Exists, Reviewing
  <1>14. Loaded'
    BY <1>1, <1>2, <1>3, <1>4, <1>5, <1>6 DEF Loaded, TypeOK, Rules, Stage,
       Exists, Reviewing
  <1>15. Recorded' /\ Clamped' /\ DecisionsRecorded'
    BY <1>1, <1>2, <1>3, <1>4, <1>5, <1>6 DEF Recorded, Terminal, Clamped,
       DecisionsRecorded, InFlight, Reviewing, TypeOK
  <1> QED
    BY <1>7, <1>8, <1>9, <1>10, <1>11, <1>12, <1>13, <1>14, <1>15

\* A rule is imported.
LEMMA ImportInv ==
  ASSUME ReviewInv, NEW r \in Imports, Import(r)
  PROVE  ReviewInv'
  <1> USE DEF ReviewInv
  <1>1. /\ r \in Rules \ Proposals /\ ~Exists(r)
        /\ UNCHANGED <<proposal, feedback, audit, review, engine, cut, promoted, approved>>
    BY ConstantsAssumption DEF Import, Rules
  <1>2. /\ rule' \in [Rules -> RuleRow]
        /\ rule'[r] = [status |-> "draft", current |-> r, authors |-> {r}]
        /\ \A q \in Rules \ {r} : rule'[q] = rule[q]
    BY <1>1, RuleMade DEF Import, TypeOK
  <1>2a. \A q \in Rules :
           /\ rule'[q].status = IF q = r THEN "draft" ELSE rule[q].status
           /\ rule'[q].current = IF q = r THEN r ELSE rule[q].current
           /\ rule'[q].authors = IF q = r THEN {r} ELSE rule[q].authors
    BY <1>2
  <1>3. \A q \in Proposals : Traces(q)' <=> Traces(q)
    BY <1>1, <1>2 DEF Traces, Versioned, Exists, Rules
  <1>4. \A q \in Rules : Exists(q)' <=> Exists(q) \/ q = r
    BY <1>1, <1>2 DEF Exists, Rules, RuleStatus
  <1>5. \A q \in Proposals : Effect(q) => Effect(q)'
    BY <1>1, <1>2 DEF Effect, Exists, Versioned, TypeOK, ProposalRow, Rules
  <1>6. TypeOK'
    BY <1>1, <1>2, <1>3, <1>4, <1>5 DEF TypeOK, Verdict, Reviewing, Rules,
       Exists
  <1>7. Stage'
    BY <1>1, <1>2, <1>3, <1>4, <1>5 DEF Stage, Recorded, Terminal, Reviewing,
       Verdict, TypeOK, Rules, Exists
  <1>8. Fresh'
    BY <1>1, <1>2, <1>3, <1>4, <1>5 DEF Fresh, TypeOK, Rules, Exists,
       Reviewing
  <1>9. Traced'
    BY <1>1, <1>2, <1>3, <1>4, <1>5 DEF Traced, InFlight, Reviewing, TypeOK,
       Rules, Exists
  <1>10. Held'
    BY <1>1, <1>2a DEF Held
  <1>11. Accepted'
    BY <1>1, <1>2, <1>3, <1>4, <1>5 DEF Accepted, TypeOK, Rules, Exists,
       Reviewing
  <1>12. Versioned'
    BY <1>2a DEF Versioned
  <1>13. Loaded'
    BY <1>1, <1>2, <1>3, <1>4, <1>5 DEF Loaded, TypeOK, Rules, Exists,
       Reviewing
  <1>14. Recorded' /\ Clamped' /\ DecisionsRecorded'
    BY <1>1, <1>2, <1>3, <1>4, <1>5 DEF Recorded, Terminal, Clamped,
       DecisionsRecorded, InFlight, Reviewing, TypeOK
  <1> QED
    BY <1>6, <1>7, <1>8, <1>9, <1>10, <1>11, <1>12, <1>13, <1>14

\* A person activates a rule.
LEMMA PromoteInv ==
  ASSUME ReviewInv, NEW r \in Rules, Promote(r)
  PROVE  ReviewInv'
  <1> USE DEF ReviewInv
  <1>1. /\ Exists(r) /\ promoted' = promoted \cup {r}
        /\ UNCHANGED <<proposal, feedback, audit, review, engine, cut, approved>>
    BY DEF Promote
  <1>2. /\ rule' \in [Rules -> RuleRow]
        /\ \A q \in Rules : rule'[q].authors = rule[q].authors /\ rule'[q].current = rule[q].current
        /\ \A q \in Rules : rule'[q].status = IF q = r THEN "active" ELSE rule[q].status
    BY RuleStatusWrite DEF Promote, TypeOK, RuleStatus
  <1>3. \A q \in Proposals : Traces(q)' <=> Traces(q)
    BY <1>1, <1>2 DEF Traces, Versioned, Exists, Rules
  <1>4. \A q \in Rules : Exists(q)' <=> Exists(q)
    BY <1>1, <1>2 DEF Exists, Rules, RuleStatus
  <1>5. \A q \in Proposals : Effect(q) => Effect(q)'
    BY <1>1, <1>2 DEF Effect, Exists, Versioned, TypeOK, ProposalRow, Rules
  <1>6. TypeOK'
    BY <1>1, <1>2, <1>3, <1>4, <1>5 DEF TypeOK, Verdict, Reviewing, Rules,
       Exists
  <1>7. Stage'
    BY <1>1, <1>2, <1>3, <1>4, <1>5 DEF Stage, Recorded, Terminal, Reviewing,
       Verdict, TypeOK, Rules, Exists
  <1>8. Fresh'
    BY <1>1, <1>2, <1>3, <1>4, <1>5 DEF Fresh, TypeOK, Rules, Exists,
       Reviewing
  <1>9. Traced'
    BY <1>1, <1>2, <1>3, <1>4, <1>5 DEF Traced, InFlight, Reviewing, TypeOK,
       Rules, Exists
  <1>10. Held'
    BY <1>1, <1>2, <1>3, <1>4, <1>5 DEF Held, TypeOK, Rules, Exists, Reviewing
  <1>11. Accepted'
    BY <1>1, <1>2, <1>3, <1>4, <1>5 DEF Accepted, TypeOK, Rules, Exists,
       Reviewing
  <1>12. Versioned'
    BY <1>1, <1>2 DEF Versioned, TypeOK, Rules, Exists, Reviewing
  <1>13. Loaded'
    BY <1>1, <1>2, <1>3, <1>4, <1>5 DEF Loaded, TypeOK, Rules, Exists,
       Reviewing
  <1>15. Recorded' /\ Clamped' /\ DecisionsRecorded'
    BY <1>1, <1>2, <1>3, <1>4, <1>5 DEF Recorded, Terminal, Clamped,
       DecisionsRecorded, InFlight, Reviewing, TypeOK
  <1> QED
    BY <1>6, <1>7, <1>8, <1>9, <1>10, <1>11, <1>12, <1>13, <1>15

\* A constraint refuses the change, and with it the review.
LEMMA RefusedInv ==
  ASSUME ReviewInv, Refused
  PROVE  ReviewInv'
  <1> USE DEF ReviewInv
  <1>1. /\ review.p \in Proposals /\ Reviewing("materialize") /\ review' = Idle
        /\ UNCHANGED <<proposal, rule, feedback, audit, engine, cut, promoted, approved>>
    BY DEF Refused, TypeOK, Reviewing, Goto, Asked, stored
  <1>2. TypeOK'
    BY <1>1 DEF TypeOK, Verdict, Reviewing, Idle
  <1>3. Stage'
    BY <1>1 DEF Stage, Recorded, Terminal, Effect, Exists, Reviewing, Verdict,
       TypeOK, Idle
  <1>4. Traced'
    BY <1>1 DEF Traced, Traces, InFlight, Reviewing, TypeOK, Idle
  <1>5. DecisionsRecorded'
    BY <1>1 DEF DecisionsRecorded, Terminal, InFlight, Reviewing, TypeOK,
       Idle, Stage
  <1>6. Recorded' /\ Fresh' /\ Clamped' /\ Held' /\ Accepted' /\ Versioned' /\ Loaded'
    BY <1>1 DEF Recorded, Terminal, Fresh, Traces, Exists, Clamped, Held,
       Accepted, Effect, Versioned, Loaded, TypeOK
  <1> QED
    BY <1>2, <1>3, <1>4, <1>5, <1>6

\* There is no rule to edit.
LEMMA NothingToMaterializeInv ==
  ASSUME ReviewInv, NothingToMaterialize
  PROVE  ReviewInv'
  <1> USE DEF ReviewInv
  <1>1. /\ review.p \in Proposals /\ Reviewing("materialize")
        /\ proposal[review.p].kind # "new_rule"
        /\ proposal[review.p].kind = "refine_rule" => proposal[review.p].target = Nowhere
        /\ review' = [review EXCEPT !.pc = "decide"]
        /\ UNCHANGED <<proposal, rule, feedback, audit, engine, cut, promoted, approved>>
    BY DEF NothingToMaterialize, TypeOK, Reviewing, Goto, Asked, stored
  <1>2. TypeOK'
    BY <1>1 DEF TypeOK, Verdict, Reviewing
  <1>3. Stage'
    BY <1>1 DEF Stage, Recorded, Terminal, Effect, Exists, Reviewing, Verdict,
       TypeOK
  <1>4. Traced'
    BY <1>1 DEF Traced, Traces, InFlight, Reviewing, TypeOK
  <1>5. DecisionsRecorded'
    BY <1>1 DEF DecisionsRecorded, Terminal, InFlight, Reviewing, TypeOK
  <1>6. Recorded' /\ Fresh' /\ Clamped' /\ Held' /\ Accepted' /\ Versioned' /\ Loaded'
    BY <1>1 DEF Recorded, Terminal, Fresh, Traces, Exists, Clamped, Held,
       Accepted, Effect, Versioned, Loaded, TypeOK
  <1> QED
    BY <1>2, <1>3, <1>4, <1>5, <1>6

\* The change is put in the audit log.
LEMMA AppendStatusAuditInv ==
  ASSUME ReviewInv, AppendStatusAudit
  PROVE  ReviewInv'
  <1> USE DEF ReviewInv
  <1>1. /\ review.p \in Proposals /\ Reviewing("note")
        /\ audit' = [audit EXCEPT ![review.p] = @ \cup {"rule_status_changed"}]
        /\ review' = [review EXCEPT !.pc = "decide"]
        /\ UNCHANGED <<proposal, rule, feedback, engine, cut, promoted, approved>>
    BY DEF AppendStatusAudit, TypeOK, Reviewing, Goto, Asked, stored
  <1>2. TypeOK'
    BY <1>1 DEF TypeOK, Verdict, Reviewing
  <1>3. Stage'
    BY <1>1 DEF Stage, Recorded, Terminal, Effect, Exists, Reviewing, Verdict,
       TypeOK
  <1>4. Traced'
    BY <1>1 DEF Traced, Traces, InFlight, Reviewing, TypeOK
  <1>5. DecisionsRecorded'
    BY <1>1 DEF DecisionsRecorded, Terminal, InFlight, Reviewing, TypeOK
  <1>6. Recorded' /\ Fresh' /\ Clamped' /\ Held' /\ Accepted' /\ Versioned' /\ Loaded'
    BY <1>1 DEF Recorded, Terminal, Fresh, Traces, Exists, Clamped, Held,
       Accepted, Effect, Versioned, Loaded, TypeOK
  <1> QED
    BY <1>2, <1>3, <1>4, <1>5, <1>6

\* The decision is stored.
LEMMA SetStatusInv ==
  ASSUME ReviewInv, SetStatus
  PROVE  ReviewInv'
  <1> USE DEF ReviewInv
  <1>1. /\ review.p \in Proposals /\ Reviewing("decide")
        /\ review' = [review EXCEPT !.pc = "feedback"]
        /\ UNCHANGED <<rule, feedback, audit, engine, cut, promoted, approved>>
    BY DEF SetStatus, TypeOK, Reviewing, Goto, Asked, stored
  <1>2. /\ proposal \in [Proposals -> ProposalRow] /\ review.verdict \in Verdict
        /\ proposal' = [proposal EXCEPT ![review.p].status = review.verdict]
    BY DEF SetStatus, TypeOK
  <1>3. /\ proposal' \in [Proposals -> ProposalRow]
        /\ \A q \in Proposals :
             /\ proposal'[q].status = IF q = review.p THEN review.verdict ELSE proposal[q].status
             /\ proposal'[q].kind = proposal[q].kind
             /\ proposal'[q].target = proposal[q].target
             /\ proposal'[q].risky = proposal[q].risky
             /\ proposal'[q].to = proposal[q].to
    BY <1>1, <1>2, ProposalStatusWrite
  <1>4. \A q \in Proposals : Effect(q)' <=> Effect(q)
    BY <1>1, <1>3 DEF Effect, Exists
  <1>5. TypeOK'
    BY <1>1, <1>2, <1>3, <1>4 DEF TypeOK, Verdict, Reviewing
  <1>6. Stage'
    BY <1>1, <1>2, <1>3, <1>4 DEF Stage, Recorded, Terminal, Exists,
       Reviewing, Verdict, TypeOK
  <1>7. Recorded'
    BY <1>1, <1>2, <1>3, <1>4 DEF Recorded, Terminal, TypeOK, Stage,
       Reviewing, Verdict
  <1>8. Fresh'
    BY <1>1, <1>2, <1>3, <1>4 DEF Fresh, Traces, Exists, TypeOK, Stage,
       Reviewing, Verdict
  <1>9. Traced'
    BY <1>1, <1>2, <1>3, <1>4 DEF Traced, Traces, InFlight, Reviewing, TypeOK,
       Stage, Verdict
  <1>10. Accepted'
    BY <1>1, <1>2, <1>3, <1>4 DEF Accepted, Exists, TypeOK, Stage, Reviewing
  <1>11. Loaded'
    BY <1>1, <1>2, <1>3, <1>4 DEF Loaded, Exists, TypeOK
  <1>12. DecisionsRecorded'
    BY <1>1, <1>2, <1>3, <1>4 DEF DecisionsRecorded, Terminal, InFlight,
       Reviewing, TypeOK, Stage
  <1>14. Clamped' /\ Held' /\ Versioned'
    BY <1>1, <1>2, <1>3, <1>4 DEF Clamped, Held, Versioned, TypeOK
  <1> QED
    BY <1>5, <1>6, <1>7, <1>8, <1>9, <1>10, <1>11, <1>12, <1>14

\* The outcome is recorded.
LEMMA AppendFeedbackInv ==
  ASSUME ReviewInv, AppendFeedback
  PROVE  ReviewInv'
  <1> USE DEF ReviewInv
  <1>1. /\ review.p \in Proposals /\ Reviewing("feedback")
        /\ feedback' = [feedback EXCEPT ![review.p] = Append(@, review.verdict)]
        /\ review' = [review EXCEPT !.pc = "audit"]
        /\ UNCHANGED <<proposal, rule, audit, engine, cut, promoted, approved>>
    BY DEF AppendFeedback, TypeOK, Reviewing, Goto, Asked, stored
  <1>2. /\ review.verdict \in Verdict /\ feedback[review.p] = <<>>
        /\ Append(<<>>, review.verdict) = <<review.verdict>>
    BY <1>1 DEF Stage, TypeOK, Reviewing
  <1>3. /\ feedback' = [feedback EXCEPT ![review.p] = <<review.verdict>>]
        /\ <<review.verdict>> \in Seq(Verdict)
    BY <1>1, <1>2
  <1>4. TypeOK'
    BY <1>1, <1>2, <1>3 DEF TypeOK, Reviewing
  <1>5. Stage'
    BY <1>1, <1>2, <1>3 DEF Stage, Recorded, Terminal, Effect, Exists,
       Reviewing, Verdict, TypeOK
  <1>6. Recorded'
    BY <1>1, <1>2, <1>3 DEF Recorded, Terminal, TypeOK, Stage, Reviewing,
       Verdict
  <1>7. Traced'
    BY <1>1, <1>2, <1>3 DEF Traced, Traces, InFlight, Reviewing, TypeOK
  <1>8. DecisionsRecorded'
    BY <1>1, <1>2, <1>3 DEF DecisionsRecorded, Terminal, InFlight, Reviewing,
       TypeOK
  <1>9. Fresh' /\ Clamped' /\ Held' /\ Accepted' /\ Versioned' /\ Loaded'
    BY <1>1, <1>2, <1>3 DEF Fresh, Traces, Exists, Clamped, Held, Accepted,
       Effect, Versioned, Loaded, TypeOK
  <1> QED
    BY <1>4, <1>5, <1>6, <1>7, <1>8, <1>9

\* The decision is in the audit log, and answered.
LEMMA AppendReviewAuditInv ==
  ASSUME ReviewInv, AppendReviewAudit
  PROVE  ReviewInv'
  <1> USE DEF ReviewInv
  <1>1. /\ review.p \in Proposals /\ Reviewing("audit") /\ review' = Idle
        /\ audit' = [audit EXCEPT ![review.p] = @ \cup {"proposal_reviewed"}]
        /\ UNCHANGED <<proposal, rule, feedback, engine, cut, promoted, approved>>
    BY DEF AppendReviewAudit, TypeOK, Reviewing, Goto, Asked, stored
  <1>2. TypeOK'
    BY <1>1 DEF TypeOK, Verdict, Reviewing, Idle
  <1>3. Stage'
    BY <1>1 DEF Stage, Recorded, Terminal, Effect, Exists, Reviewing, Verdict,
       TypeOK, Idle
  <1>4. Traced'
    BY <1>1 DEF Traced, Traces, InFlight, Reviewing, TypeOK, Idle, Stage
  <1>5. DecisionsRecorded'
    BY <1>1 DEF DecisionsRecorded, Terminal, InFlight, Reviewing, TypeOK,
       Idle, Stage
  <1>6. Recorded' /\ Fresh' /\ Clamped' /\ Held' /\ Accepted' /\ Versioned' /\ Loaded'
    BY <1>1 DEF Recorded, Terminal, Fresh, Traces, Exists, Clamped, Held,
       Accepted, Effect, Versioned, Loaded, TypeOK
  <1> QED
    BY <1>2, <1>3, <1>4, <1>5, <1>6

\* A storage call fails.
LEMMA StorageFailsInv ==
  ASSUME ReviewInv, StorageFails
  PROVE  ReviewInv'
  <1> USE DEF ReviewInv
  <1>1. /\ review.p \in Proposals /\ ~Reviewing("idle") /\ review' = Idle
        /\ cut' = cut \cup {review.p}
        /\ UNCHANGED <<proposal, rule, feedback, audit, engine, promoted, approved>>
    BY DEF StorageFails, TypeOK, Reviewing, Goto, Asked, stored
  <1>2. TypeOK'
    BY <1>1 DEF TypeOK, Verdict, Reviewing, Idle
  <1>3. Stage'
    BY <1>1 DEF Stage, Recorded, Terminal, Effect, Exists, Reviewing, Verdict,
       TypeOK, Idle
  <1>4. Fresh'
    BY <1>1 DEF Fresh, Traces, Exists, TypeOK, Stage, Reviewing
  <1>5. Traced'
    BY <1>1 DEF Traced, Traces, InFlight, Reviewing, TypeOK, Idle
  <1>6. DecisionsRecorded'
    BY <1>1 DEF DecisionsRecorded, Terminal, InFlight, Reviewing, TypeOK, Idle
  <1>7. Recorded' /\ Clamped' /\ Held' /\ Accepted' /\ Versioned' /\ Loaded'
    BY <1>1 DEF Recorded, Terminal, Clamped, Held, Accepted, Effect, Exists,
       Versioned, Loaded, TypeOK
  <1> QED
    BY <1>2, <1>3, <1>4, <1>5, <1>6, <1>7

\* The host is launched again.
LEMMA RelaunchInv ==
  ASSUME ReviewInv, Relaunch
  PROVE  ReviewInv'
  <1> USE DEF ReviewInv
  <1>1. /\ cut' = IF Reviewing("idle") THEN cut ELSE cut \cup {review.p}
        /\ ~Reviewing("idle") => review.p \in Proposals
        /\ review' = Idle /\ engine' = Snapshot
        /\ UNCHANGED <<proposal, rule, feedback, audit, promoted, approved>>
    BY DEF Relaunch, TypeOK, Reviewing, Goto, Asked, stored
  <1>2. TypeOK'
    BY <1>1 DEF TypeOK, Verdict, Reviewing, Idle, Snapshot, Versioned, Rules
  <1>3. Stage'
    BY <1>1 DEF Stage, Recorded, Terminal, Effect, Exists, Reviewing, Verdict,
       TypeOK, Idle
  <1>4. Fresh'
    BY <1>1 DEF Fresh, Traces, Exists, TypeOK, Stage, Reviewing
  <1>5. Traced'
    BY <1>1 DEF Traced, Traces, InFlight, Reviewing, TypeOK, Idle
  <1>6. Loaded'
    BY <1>1 DEF Loaded, Exists, TypeOK, Snapshot
  <1>7. DecisionsRecorded'
    BY <1>1 DEF DecisionsRecorded, Terminal, InFlight, Reviewing, TypeOK, Idle
  <1>9. Recorded' /\ Clamped' /\ Held' /\ Accepted' /\ Versioned'
    BY <1>1 DEF Recorded, Terminal, Clamped, Held, Accepted, Effect, Exists,
       Versioned, TypeOK
  <1> QED
    BY <1>2, <1>3, <1>4, <1>5, <1>6, <1>7, <1>9

\* A proposal is emitted.
LEMMA EmitInv ==
  ASSUME ReviewInv, NEW x \in Proposals, NEW kind \in Kinds, NEW target \in Rules \cup {Nowhere},
         NEW risky \in BOOLEAN, NEW contradicts \in BOOLEAN, NEW recommended \in Recommended,
         Emit(x, kind, target, risky, contradicts, recommended)
  PROVE  ReviewInv'
  <1> USE DEF ReviewInv
  <1>1. PICK row \in ProposalRow :
            /\ proposal' = [proposal EXCEPT ![x] = row]
            /\ row.status = "pending_review"
            /\ row.risky => row.to = "pending_human_review"
    <2> DEFINE new == [status |-> "pending_review", kind |-> kind, target |-> target,
                      risky |-> risky, to |-> Clamp(risky, contradicts, recommended)]
    <2>1. new \in ProposalRow /\ new.status = "pending_review"
      BY ConstantsAssumption DEF ProposalRow, Clamp
    <2>2. new.risky => new.to = "pending_human_review"
      BY DEF Clamp
    <2> QED
      BY <2>1, <2>2 DEF Emit
  <1>2. /\ proposal[x].status = "none" /\ ~Exists(x) /\ x \notin cut /\ ~Traces(x)
        /\ x # review.p \/ Reviewing("idle")
        /\ UNCHANGED <<rule, feedback, audit, review, engine, cut, promoted, approved>>
    BY DEF Emit, Fresh, Stage
  <1>3. /\ proposal' \in [Proposals -> ProposalRow]
        /\ proposal'[x] = row
        /\ \A q \in Proposals \ {x} : proposal'[q] = proposal[q]
    BY <1>1 DEF TypeOK
  <1>4. \A q \in Proposals : Traces(q)' <=> Traces(q)
    BY <1>2 DEF Traces
  <1>5. \A q \in Proposals \ {x} : Effect(q)' <=> Effect(q)
    BY <1>2, <1>3 DEF Effect, Exists
  <1>6. TypeOK'
    BY <1>1, <1>2, <1>3, <1>4, <1>5 DEF TypeOK, Verdict, Reviewing
  <1>7. Stage'
    BY <1>1, <1>2, <1>3, <1>4, <1>5 DEF Stage, Recorded, Terminal, Reviewing,
       Verdict, TypeOK, Rules, Exists
  <1>8. Recorded'
    BY <1>1, <1>2, <1>3, <1>4, <1>5 DEF Recorded, Terminal, TypeOK
  <1>9. Fresh'
    BY <1>1, <1>2, <1>3, <1>4, <1>5 DEF Fresh, TypeOK, Exists
  <1>10. Traced'
    BY <1>1, <1>2, <1>3, <1>4, <1>5 DEF Traced, InFlight, Reviewing, TypeOK
  <1>11. Clamped'
    BY <1>1, <1>2, <1>3, <1>4, <1>5 DEF Clamped, TypeOK, ProposalRow
  <1>12. Held'
    BY <1>1, <1>2, <1>3, <1>4, <1>5 DEF Held, TypeOK, Exists, Rules
  <1>13. Accepted'
    BY <1>1, <1>2, <1>3, <1>4, <1>5 DEF Accepted, TypeOK, Rules
  <1>14. Loaded'
    BY <1>1, <1>2, <1>3, <1>4, <1>5 DEF Loaded, TypeOK, Exists
  <1>15. DecisionsRecorded'
    BY <1>1, <1>2, <1>3, <1>4, <1>5 DEF DecisionsRecorded, Terminal, InFlight,
       Reviewing, TypeOK
  <1>17. Versioned'
    BY <1>1, <1>2, <1>3, <1>4, <1>5 DEF Versioned, TypeOK
  <1> QED
    BY <1>6, <1>7, <1>8, <1>9, <1>10, <1>11, <1>12, <1>13, <1>14, <1>15, <1>17

-----------------------------------------------------------------------------
\* No step of the system breaks the inductive invariant.
THEOREM NextInv == ReviewInv /\ [Next]_vars => ReviewInv'
  <1> SUFFICES ASSUME ReviewInv, [Next]_vars
               PROVE  ReviewInv'
    OBVIOUS
  <1>1. CASE \E p \in Proposals, kind \in Kinds, target \in Rules \cup {Nowhere},
                risky, contradicts \in BOOLEAN, recommended \in Recommended :
               Emit(p, kind, target, risky, contradicts, recommended)
    BY <1>1, EmitInv
  <1>2. CASE \E r \in Imports : Import(r)
    BY <1>2, ImportInv
  <1>3. CASE \E r \in Rules : Promote(r)
    BY <1>3, PromoteInv
  <1>4. CASE Materialize
    BY <1>4, SaveRuleDraftInv, UpdateRuleStatusInv, CreateRuleVersionInv, RetireRuleInv,
       RefusedInv, NothingToMaterializeInv, AppendStatusAuditInv DEF Materialize
  <1>5. CASE Review /\ ~Materialize
    BY <1>5, BeginReviewInv, SetStatusInv, AppendFeedbackInv, AppendReviewAuditInv,
       StorageFailsInv DEF Review, Verdict
  <1>6. CASE Relaunch
    BY <1>6, RelaunchInv
  <1>7. CASE UNCHANGED vars
    BY <1>7 DEF vars, stored, ReviewInv, TypeOK, Stage, Recorded, Fresh, Traced, Clamped,
       Held, Accepted, Versioned, Loaded, DecisionsRecorded, Reviewing,
       InFlight, Traces, Exists, Effect, Terminal
  <1> QED
    BY <1>1, <1>2, <1>3, <1>4, <1>5, <1>6, <1>7 DEF Next

\* The inductive invariant holds throughout.
THEOREM Invariant == Spec => []ReviewInv
  BY InitInv, NextInv, PTL DEF Spec

\* Type correctness of the review and of what it stores.
THEOREM TypeCorrect == Spec => []TypeOK
  <1>1. ReviewInv => TypeOK
    BY DEF ReviewInv
  <1> QED
    BY <1>1, Invariant, PTL

\* However often a review is cut short and tried again, a proposal has one
\* recorded outcome, the one in its status column.
THEOREM DecidedOnce == Spec => []OneOutcome
  <1>1. ASSUME ReviewInv, NEW p \in Proposals
        PROVE  /\ Len(feedback[p]) <= 1
               /\ feedback[p] # <<>> => feedback[p][1] = proposal[p].status
    <2>1. CASE feedback[p] = <<>>
      BY <2>1
    <2>2. CASE feedback[p] = <<proposal[p].status>>
      BY <2>2
    <2> QED
      BY <1>1, <2>1, <2>2 DEF ReviewInv, Recorded
  <1>2. ReviewInv => OneOutcome
    BY <1>1 DEF OneOutcome
  <1> QED
    BY <1>2, Invariant, PTL

\* An accepted proposal has had its effect on the rule tables.
THEOREM AcceptanceIsDone == Spec => []AcceptedTookEffect
  <1>1. ReviewInv => AcceptedTookEffect
    BY DEF ReviewInv, Accepted, Effect, AcceptedTookEffect
  <1> QED
    BY <1>1, Invariant, PTL

\* A decision that was not cut short is recorded in feedback and audit.
THEOREM DecisionIsRecorded == Spec => []DecisionsRecorded
  <1>1. ReviewInv => DecisionsRecorded
    BY DEF ReviewInv
  <1> QED
    BY <1>1, Invariant, PTL

\* A proposal that was not accepted, and no review of which was cut short,
\* has left no trace in the rule tables.
THEOREM NoTraceUndecided == Spec => []UndecidedLeavesNothing
  <1>1. ReviewInv => UndecidedLeavesNothing
    BY DEF ReviewInv, Traced, UndecidedLeavesNothing
  <1> QED
    BY <1>1, Invariant, PTL

-----------------------------------------------------------------------------
\* Who stands behind each content, in the rule tables and in the engine.
Consented ==
  /\ \A p \in approved : proposal[p].status # "none"
  /\ ~Reviewing("idle") /\ review.verdict = "accepted" => review.p \in approved
  /\ \A r \in Rules : rule[r].current \in Proposals =>
       rule[r].current \in approved /\ AsksFor(rule[r].current, r)
  /\ OnlyApprovedIsEvaluated

\* What a proposal asks for is fixed when it is emitted.
LEMMA RequestIsFixed ==
  ASSUME ReviewInv, [Next]_vars, NEW p \in Proposals, proposal[p].status # "none"
  PROVE  /\ proposal'[p].kind = proposal[p].kind /\ proposal'[p].target = proposal[p].target
         /\ proposal'[p].risky = proposal[p].risky /\ proposal'[p].to = proposal[p].to
         /\ proposal'[p].status # "none"
  <1>1. CASE SetStatus
    <2>1. /\ proposal \in [Proposals -> ProposalRow]
          /\ review.p \in Proposals /\ review.verdict \in Verdict
          /\ proposal' = [proposal EXCEPT ![review.p].status = review.verdict]
      BY <1>1 DEF SetStatus, ReviewInv, TypeOK, Reviewing
    <2> QED
      BY <2>1, ProposalStatusWrite DEF Verdict
  <1>2. ASSUME NEW x \in Proposals, NEW kind \in Kinds, NEW target \in Rules \cup {Nowhere},
               NEW risky \in BOOLEAN, NEW contradicts \in BOOLEAN,
               NEW recommended \in Recommended,
               Emit(x, kind, target, risky, contradicts, recommended)
        PROVE  proposal'[p] = proposal[p]
    BY <1>2 DEF Emit, ReviewInv, TypeOK
  <1>3. CASE proposal' = proposal
    BY <1>3
  <1>4. CASE Review /\ ~SetStatus
    BY <1>3, <1>4 DEF Review, BeginReview, Materialize, SaveRuleDraft, UpdateRuleStatus,
       CreateRuleVersion, RetireRule, Refused, NothingToMaterialize, AppendStatusAudit,
       AppendFeedback, AppendReviewAudit, StorageFails, stored
  <1>5. CASE UNCHANGED vars \/ Relaunch \/ (\E r \in Imports : Import(r))
               \/ (\E r \in Rules : Promote(r))
    BY <1>3, <1>5 DEF vars, stored, Relaunch, Import, Promote
  <1> QED
    BY <1>1, <1>2, <1>4, <1>5 DEF Next

\* A rule gets its content from an import or from the accepted proposal that
\* asks for it.
LEMMA ContentHasAnAuthor ==
  ASSUME ReviewInv, Consented, [Next]_vars, NEW r \in Rules
  PROVE  \/ rule'[r].current = rule[r].current
         \/ rule'[r].current \notin Proposals
         \/ /\ rule'[r].current = review.p /\ review.p \in approved /\ review.p \in Proposals
            /\ AsksFor(review.p, r)
  <1>0. rule \in [Rules -> RuleRow] /\ Proposals \subseteq Rules
    BY DEF ReviewInv, TypeOK, Rules
  <1>1. ~Reviewing("idle") => review.p \in Proposals
    BY DEF ReviewInv, TypeOK
  <1>2. Reviewing("materialize") => ~Reviewing("idle") /\ review.verdict = "accepted"
    BY DEF ReviewInv, Stage, Reviewing
  <1>3. CASE SaveRuleDraft
    <2>1. /\ review.p \in Proposals /\ review.p \in approved
          /\ proposal[review.p].kind = "new_rule"
      BY <1>1, <1>2, <1>3 DEF SaveRuleDraft, Consented, Asked
    <2>2. /\ rule'[review.p].current = review.p
          /\ \A q \in Rules \ {review.p} : rule'[q] = rule[q]
      BY <1>0, <1>3, <2>1, RuleMade DEF SaveRuleDraft
    <2> QED
      BY <2>1, <2>2 DEF AsksFor
  <1>4. CASE CreateRuleVersion
    <2>1. /\ review.p \in Proposals /\ review.p \in approved
          /\ proposal[review.p].kind = "refine_rule"
      BY <1>1, <1>2, <1>4 DEF CreateRuleVersion, Consented, Asked
    <2>2. PICK t \in Rules :
            /\ t = proposal[review.p].target
            /\ rule' = [rule EXCEPT ![t] =
                         [status |-> @.status, current |-> review.p,
                          authors |-> @.authors \cup {review.p}]]
      BY <1>4 DEF CreateRuleVersion, Asked, Exists
    <2>3. \A q \in Rules : rule'[q].current = IF q = t THEN review.p ELSE rule[q].current
      BY <1>0, <2>1, <2>2, RuleVersionWrite
    <2> QED
      BY <2>1, <2>2, <2>3 DEF AsksFor
  <1>5. ASSUME NEW i \in Imports, Import(i)
        PROVE  rule'[r].current = rule[r].current \/ rule'[r].current \notin Proposals
    <2>1. i \in Rules /\ i \notin Proposals
      BY ConstantsAssumption DEF Rules
    <2>2. rule'[i].current = i /\ \A q \in Rules \ {i} : rule'[q] = rule[q]
      BY <1>0, <1>5, <2>1, RuleMade DEF Import
    <2> QED
      BY <2>1, <2>2
  <1>6. ASSUME NEW q \in Rules, NEW s \in RuleStatus, rule' = [rule EXCEPT ![q].status = s]
        PROVE  rule'[r].current = rule[r].current
    BY <1>0, <1>6, RuleStatusWrite
  <1>7. CASE RetireRule
    BY <1>6, <1>7 DEF RetireRule, Exists, RuleStatus
  <1>8. CASE UpdateRuleStatus
    <2>1. proposal[review.p].to \in RuleStatus /\ review.p \in Rules
      BY <1>0, <1>1, <1>8, ConstantsAssumption
         DEF UpdateRuleStatus, ReviewInv, TypeOK, ProposalRow, Reviewing
    <2> QED
      BY <1>6, <1>8, <2>1 DEF UpdateRuleStatus, Asked
  <1>9. CASE \E q \in Rules : Promote(q)
    BY <1>6, <1>9 DEF Promote, RuleStatus
  <1>10. CASE rule' = rule
    BY <1>10
  <1>11. CASE Review /\ ~SaveRuleDraft /\ ~CreateRuleVersion /\ ~RetireRule /\ ~UpdateRuleStatus
    BY <1>10, <1>11 DEF Review, BeginReview, Materialize, Refused, NothingToMaterialize,
       AppendStatusAudit, SetStatus, AppendFeedback, AppendReviewAudit, StorageFails, stored
  <1>12. CASE UNCHANGED vars \/ Relaunch
    BY <1>10, <1>12 DEF vars, stored, Relaunch
  <1>13. ASSUME NEW x \in Proposals, NEW kind \in Kinds, NEW target \in Rules \cup {Nowhere},
                NEW risky \in BOOLEAN, NEW contradicts \in BOOLEAN,
                NEW recommended \in Recommended,
                Emit(x, kind, target, risky, contradicts, recommended)
         PROVE  rule' = rule
    BY <1>13 DEF Emit
  <1> QED
    BY <1>3, <1>4, <1>5, <1>7, <1>8, <1>9, <1>10, <1>11, <1>12, <1>13 DEF Next

\* The verdict is remembered when the review begins, and never forgotten.
LEMMA ApprovalIsKept ==
  ASSUME ReviewInv, Consented, [Next]_vars
  PROVE  /\ approved \subseteq approved' /\ promoted \subseteq promoted'
         /\ \A p \in approved' : proposal'[p].status # "none"
         /\ (~Reviewing("idle"))' /\ review'.verdict = "accepted" => review'.p \in approved'
  <1>0. /\ approved \subseteq Proposals
        /\ \A p \in Proposals : proposal[p].status # "none" => proposal'[p].status # "none"
    BY RequestIsFixed DEF ReviewInv, TypeOK
  <1>1. ASSUME NEW p \in Proposals, NEW v \in Verdict, BeginReview(p, v)
        PROVE  /\ approved' = IF v = "accepted" THEN approved \cup {p} ELSE approved
               /\ promoted' = promoted /\ proposal' = proposal
               /\ proposal[p].status # "none" /\ review'.p = p /\ review'.verdict = v
    BY <1>1 DEF BeginReview, Opens, stored
  <1>2. CASE \E p \in Proposals, v \in Verdict : BeginReview(p, v)
    BY <1>0, <1>1, <1>2 DEF Consented
  <1>3. CASE /\ approved' = approved /\ promoted \subseteq promoted'
             /\ \/ review' = review \/ review' = Idle
                \/ /\ ~Reviewing("idle")
                   /\ review'.p = review.p /\ review'.verdict = review.verdict
    BY <1>0, <1>3 DEF Consented, Reviewing, Idle
  <1>4. review \in [pc : {"idle", "materialize", "status", "note", "decide", "feedback", "audit"},
                    p : Proposals \cup {Nowhere}, verdict : Verdict]
    BY DEF ReviewInv, TypeOK
  <1>5. CASE Materialize
    BY <1>3, <1>4, <1>5 DEF Materialize, SaveRuleDraft, UpdateRuleStatus, CreateRuleVersion,
       RetireRule, Refused, NothingToMaterialize, AppendStatusAudit, Reviewing, Goto
  <1>6. CASE SetStatus \/ AppendFeedback \/ AppendReviewAudit \/ StorageFails
    BY <1>3, <1>4, <1>6 DEF SetStatus, AppendFeedback, AppendReviewAudit, StorageFails,
       Reviewing, Goto
  <1>7. CASE UNCHANGED vars \/ Relaunch \/ (\E r \in Imports : Import(r))
               \/ (\E r \in Rules : Promote(r))
    BY <1>3, <1>7 DEF vars, Relaunch, Import, Promote
  <1>8. ASSUME NEW x \in Proposals, NEW kind \in Kinds, NEW target \in Rules \cup {Nowhere},
               NEW risky \in BOOLEAN, NEW contradicts \in BOOLEAN,
               NEW recommended \in Recommended,
               Emit(x, kind, target, risky, contradicts, recommended)
        PROVE  approved' = approved /\ promoted' = promoted /\ review' = review
    BY <1>8 DEF Emit
  <1>9. CASE approved' = approved /\ promoted' = promoted /\ review' = review
    BY <1>3, <1>9
  <1> QED
    BY <1>2, <1>5, <1>6, <1>7, <1>8, <1>9 DEF Next, Review, Verdict

\* An evaluated rule is as the tables had it when the host was launched.
LEMMA ConsentedStep == ReviewInv /\ Consented /\ [Next]_vars => Consented'
  <1> SUFFICES ASSUME ReviewInv, Consented, [Next]_vars PROVE Consented'
    OBVIOUS
  <1>1. approved \subseteq Proposals /\ approved \subseteq approved' /\ promoted \subseteq promoted'
    BY ApprovalIsKept DEF ReviewInv, TypeOK
  <1>2. \A p \in approved, r \in Rules : AsksFor(p, r) => AsksFor(p, r)'
    BY <1>1, RequestIsFixed DEF AsksFor, Consented
  <1>3. ASSUME NEW r \in Rules, NEW a \in Proposals, rule'[r].current = a
        PROVE  a \in approved' /\ AsksFor(a, r)'
    <2>1. CASE rule'[r].current = rule[r].current
      BY <1>1, <1>2, <1>3, <2>1 DEF Consented
    <2>2. CASE rule'[r].current = review.p /\ review.p \in approved /\ AsksFor(review.p, r)
      BY <1>1, <1>2, <1>3, <2>2
    <2> QED
      BY <1>3, <2>1, <2>2, ContentHasAnAuthor
  <1>4. OnlyApprovedIsEvaluated'
    <2>1. CASE Relaunch
      <3>1. engine' = Snapshot /\ UNCHANGED <<proposal, rule, promoted, approved>>
        BY <2>1 DEF Relaunch, stored
      <3>2. ASSUME NEW e \in engine'
            PROVE  /\ e.by \in Proposals => e.by \in approved /\ AsksFor(e.by, e.name)
                   /\ e.name \notin promoted =>
                        /\ e.name \in Proposals /\ ~proposal[e.name].risky
                        /\ proposal[e.name].to # "pending_human_review"
        <4>1. PICK r \in Rules : /\ rule[r].status \in {"active", "shadow_mode"}
                                 /\ e = [name |-> r, by |-> rule[r].current]
          BY <3>1, <3>2 DEF Snapshot
        <4>2. e.name = r /\ e.by = rule[r].current
          BY <4>1
        <4> QED
          BY <4>1, <4>2 DEF Consented, ReviewInv, Held
      <3> QED
        BY <3>1, <3>2 DEF OnlyApprovedIsEvaluated, AsksFor
    <2>2. CASE engine' = engine
      <3>1. \A e \in engine : e.name \in Rules /\ (e.name \in Proposals =>
                                                     proposal[e.name].status # "none")
        BY DEF ReviewInv, TypeOK, Loaded, Fresh
      <3> QED
        BY <1>1, <1>2, <2>2, <3>1, RequestIsFixed DEF OnlyApprovedIsEvaluated, Consented
    <2>3. engine' = engine \/ Relaunch
      <3>1. CASE Review
        BY <3>1 DEF Review, BeginReview, Materialize, SaveRuleDraft, UpdateRuleStatus,
           CreateRuleVersion, RetireRule, Refused, NothingToMaterialize, AppendStatusAudit,
           SetStatus, AppendFeedback, AppendReviewAudit, StorageFails
      <3>2. CASE ~Review
        BY <3>2 DEF Next, Emit, Import, Promote, vars
      <3> QED
        BY <3>1, <3>2
    <2> QED
      BY <2>1, <2>2, <2>3
  <1>5. \A r \in Rules : rule'[r].current \in Proposals =>
          rule'[r].current \in approved' /\ AsksFor(rule[r].current, r)'
    BY <1>3 DEF AsksFor
  <1> QED
    BY <1>4, <1>5, ApprovalIsKept DEF Consented

\* Whatever a host evaluates, a person let through: the content was accepted
\* for this very rule, and the rule promoted unless its proposal was neither
\* risky nor in conflict.
THEOREM EvaluatedIsApproved == Spec => []OnlyApprovedIsEvaluated
  <1>1. Init => Consented
    <2>1. ASSUME Init PROVE Consented
      BY <2>1, ConstantsAssumption DEF Init, Consented, OnlyApprovedIsEvaluated, Reviewing, Idle,
         Absent, Rules
    <2> QED BY <2>1
  <1>2. Consented => OnlyApprovedIsEvaluated
    BY DEF Consented
  <1> QED
    BY <1>1, <1>2, ConsentedStep, Invariant, PTL DEF Spec
=============================================================================

------------------------------ MODULE RuleEngine ------------------------------
(***************************************************************************)
(* Two rules of one kind and scope, and what is known of a message: does   *)
(* the deterministic engine (mailmate-rules) let a rule fire for want of a *)
(* field, and are the conflicts it reports to the curator real?  Decision  *)
(* has the rest of the engine, with conditions reduced to literals.        *)
(***************************************************************************)
EXTENDS Conditions

CONSTANTS
  Candidates,  \* the rules that may be proposed: [condition, effect]
  Readings     \* field -> the values a message may have there

\* A condition comes out of a parser: a finite tree.
ASSUME EngineAssumption == \A r \in Candidates : IsCondition(r.condition)

VARIABLES
  candidate, existing,
  env          \* the fields bound so far

engineVars == <<candidate, existing, env>>

-----------------------------------------------------------------------------
\* Two folders to move to, or two junk states.
Contradicts(e, f) ==
  \/ e.move # "" /\ f.move # "" /\ e.move # f.move
  \/ e.mark_junk # "" /\ f.mark_junk # "" /\ e.mark_junk # f.mark_junk

\* Mutant: rules about the same fields are taken for the same rule.
FieldsOf(c) == {c[n].is.field : n \in DOMAIN c} \ {""}
DetectConflictsByField(proposed, rule) ==
  /\ FieldsOf(proposed.condition) = FieldsOf(rule.condition)
  /\ Contradicts(proposed.effect, rule.effect)

DetectConflicts(proposed, rule) ==
  /\ ConditionsEquivalent(proposed.condition, rule.condition)
  /\ Contradicts(proposed.effect, rule.effect)

-----------------------------------------------------------------------------
EngineInit ==
  /\ candidate \in Candidates /\ existing \in Candidates
  /\ env = <<>>

\* A context is built field by field, for the action rules on from what the
\* classification rules were given.  (A header takes the place of a feature of
\* its name before either is evaluated.)
With(field, value) ==
  /\ field \notin DOMAIN env
  /\ env' = [f \in DOMAIN env \cup {field} |-> IF f = field THEN value ELSE env[f]]
  /\ UNCHANGED <<candidate, existing>>

EngineNext == \E field \in DOMAIN Readings : \E value \in Readings[field] : With(field, value)

EngineSpec == EngineInit /\ [][EngineNext]_engineVars

-----------------------------------------------------------------------------
(* Properties.                                                             *)

Positive(c) == \A n \in DOMAIN c : c[n].node # "not"

\* A rule without negation that fires on what is known of a message fires on
\* whatever more is known of it: it never fired for want of a field ("a
\* missing field or a type mismatch yields false (fail-closed)", evaluator.rs).
MatchSurvivesMoreFields ==
  [][Positive(candidate.condition) /\ EvaluateCondition(candidate.condition, env)
       => EvaluateCondition(candidate.condition, env')]_engineVars

\* A conflict that is reported to the curator is one: on every message both
\* rules fire or neither does, and they want different things of it.
ConflictIsReal ==
  DetectConflicts(candidate, existing) =>
    /\ EvaluateCondition(candidate.condition, env) <=> EvaluateCondition(existing.condition, env)
    /\ Contradicts(existing.effect, candidate.effect)

\* What the code does not keep, see README: with a negation a missing field
\* does make a rule fire.
MissingFieldNeverFires ==
  [][EvaluateCondition(candidate.condition, env)
       => EvaluateCondition(candidate.condition, env')]_engineVars
===============================================================================

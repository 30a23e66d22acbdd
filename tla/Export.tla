-------------------------------- MODULE Export --------------------------------
(***************************************************************************)
(* What a training dataset lets out (mailmate-training): examples derived  *)
(* from feedback rows, or carrying bodies as the kinds to come will, are   *)
(* reduced to the ceiling of the request, selected into one of four views, *)
(* counted, and rendered line by line for a file or a trainer.             *)
(*                                                                         *)
(* A text is a sequence of kinds of characters: a letter "a", a digit "9", *)
(* "@", "." and " ", any other ":", and the two placeholders.  An optional *)
(* text is a sequence of at most one text.                                 *)
(***************************************************************************)
EXTENDS Integers, Sequences, FiniteSetsExt, SequencesExt

CONSTANTS
  Labels,       \* texts that name a label or a folder
  Bodies,       \* texts of mails, as their authors wrote them
  MaxExamples

VARIABLES examples   \* what the source has collected: [split, example]

exportVars == <<examples>>

-----------------------------------------------------------------------------
(* Redaction.                                                              *)

EmailChars  == {"a", "9", "@", "."}
NumberChars == {"9", " ", "."}

\* The first "@" of a run has something on both sides.
IsAddress(run) ==
  \E at \in DOMAIN run : run[at] = "@" /\ 1 < at /\ at < Len(run) /\ \A i \in 1 .. at - 1 : run[i] # "@"

IsLongNumber(run) == Cardinality({i \in DOMAIN run : run[i] = "9"}) >= 7

Replaced(run, chars) ==
  CASE chars = EmailChars /\ IsAddress(run) -> <<"[email]">>
    [] chars = NumberChars /\ IsLongNumber(run) ->
         LET said == {i \in DOMAIN run : run[i] # " "}
         IN  SubSeq(run, 1, Min(said) - 1) \o <<"[number]">> \o SubSeq(run, Max(said) + 1, Len(run))
    [] OTHER -> run

\* Every maximal run of these characters is looked at as a whole.
Scrubbed(text, chars) ==
  LET from[i \in 1 .. Len(text) + 1] ==
        IF i > Len(text) THEN <<>>
        ELSE IF text[i] \notin chars THEN <<text[i]>> \o from[i + 1]
        ELSE LET end == Max({k \in i .. Len(text) : \A j \in i .. k : text[j] \in chars})
             IN  Replaced(SubSeq(text, i, end), chars) \o from[end + 1]
  IN  from[1]

RedactText(text) == Scrubbed(Scrubbed(text, EmailChars), NumberChars)

-----------------------------------------------------------------------------
(* Examples.                                                               *)

Levels == <<"metadata", "redacted", "full">>
Rank(level) == CHOOSE n \in DOMAIN Levels : Levels[n] = level

Positive == {"accepted", "accepted_with_minor_edits", "corrected"}
SafetyNegative == {"blocked_by_policy", "unsafe", "counterexample"}

Example(level, summary, candidate, corrected, label, flags) ==
  [level |-> level, summary |-> summary, candidate |-> candidate, corrected |-> corrected,
   label |-> label, flags |-> flags]

\* A label or a folder: what the AI proposed, if it did, and what the user chose.
DeriveChoice(ai, human) ==
  Example("metadata", <<>>, ai, <<human>>, IF ai = <<human>> THEN "accepted" ELSE "corrected", {})

DeriveRuleProposal(outcome) ==
  Example("metadata", <<>>, <<>>, <<>>,
          CASE outcome = "accepted"            -> "accepted"
            [] outcome = "accepted_with_edits" -> "accepted_with_minor_edits"
            [] outcome = "rejected"            -> "rejected"
            [] outcome = "disabled_later"      -> "undone",
          {})

\* The kinds to come carry what was drafted and what the user made of it.
Drafted(body, corrected, summary, label, flags) ==
  Example("full", summary, body, corrected, label, flags)

Redacted(option) == [i \in DOMAIN option |-> RedactText(option[i])]

\* Mutant: the summary of the thread is taken for metadata.
EnforceOutputs(e, ceiling) ==
  IF Rank(e.level) <= Rank(ceiling) THEN e
  ELSE IF ceiling = "redacted"
    THEN [e EXCEPT !.candidate = Redacted(@), !.corrected = Redacted(@), !.level = "redacted"]
    ELSE [e EXCEPT !.candidate = <<>>, !.corrected = <<>>, !.level = "metadata"]

EnforcePrivacy(e, ceiling) ==
  IF Rank(e.level) <= Rank(ceiling) THEN e
  ELSE IF ceiling = "redacted"
    THEN [e EXCEPT !.candidate = Redacted(@), !.corrected = Redacted(@), !.summary = Redacted(@),
                   !.level = "redacted"]
    ELSE [e EXCEPT !.candidate = <<>>, !.corrected = <<>>, !.summary = <<>>, !.level = "metadata"]

\* A request is refused that asks for bodies the user lets nobody keep.
CeilingAllowed(ceiling, retainsBody) == ceiling = "full" => retainsBody

-----------------------------------------------------------------------------
(* Datasets.                                                               *)

Views == {"sft", "preference", "evaluation", "safety_counterexample"}

TargetOutput(e) == IF e.corrected # <<>> THEN e.corrected ELSE e.candidate

IsSftEligible(e) == e.label \in Positive /\ TargetOutput(e) # <<>> /\ e.flags = {}

IsPreferenceEligible(e) == e.candidate # <<>> /\ e.corrected # <<>> /\ e.candidate # e.corrected

SelectFor(view, e, split) ==
  CASE view = "sft"        -> split \in {"train", "validation"} /\ IsSftEligible(e)
    [] view = "preference" -> split \in {"train", "validation"} /\ IsPreferenceEligible(e)
    [] view = "evaluation" -> split \in {"test", "holdout"}
    [] view = "safety_counterexample" -> e.label \in SafetyNegative \/ e.flags # {}

\* Each example is reduced before it is selected, and selected as it will be
\* rendered.  What is selected keeps its place among what was collected.
Selected(view, ceiling, collected) ==
  LET enforced == [i \in DOMAIN collected |->
                     [collected[i] EXCEPT !.example = EnforcePrivacy(@, ceiling)]]
  IN  Restrict(enforced, {i \in DOMAIN enforced :
                            SelectFor(view, enforced[i].example, enforced[i].split)})

BuildDataset(view, ceiling, collected) ==
  LET selected  == Selected(view, ceiling, collected)
      positives == {i \in DOMAIN selected : selected[i].example.label \in Positive}
      levels    == {Rank(selected[i].example.level) : i \in DOMAIN selected}
  IN  [view       |-> view,
       examples   |-> [i \in DOMAIN selected |-> selected[i].example],
       positive   |-> Cardinality(positives),
       negative   |-> Cardinality(DOMAIN selected \ positives),
       validation |-> Cardinality({i \in DOMAIN selected : selected[i].split = "validation"}),
       test       |-> Cardinality({i \in DOMAIN selected : selected[i].split = "test"}),
       level      |-> Levels[Max(levels \cup {1})]]

-----------------------------------------------------------------------------
(* Lines.  The texts that a line quotes, and what it says of them; a line  *)
(* that lacks a text it needs is left out.                                 *)

Line(e, outputs) ==
  [level |-> e.level, label |-> e.label,
   context |-> ToSet(e.summary), outputs |-> UNION {ToSet(o) : o \in outputs}]

SftLine(e) == IF TargetOutput(e) = <<>> THEN <<>> ELSE <<Line(e, {TargetOutput(e)})>>

\* chosen is what the human preferred, rejected what the human changed.
PreferenceLine(e) ==
  IF e.corrected = <<>> \/ e.candidate = <<>> THEN <<>> ELSE <<Line(e, {e.corrected, e.candidate})>>

EvaluationLine(e) == <<Line(e, {TargetOutput(e)})>>
SafetyLine(e)     == <<Line(e, {e.candidate})>>

LineOf(view, e) ==
  CASE view = "sft"                   -> SftLine(e)
    [] view = "preference"            -> PreferenceLine(e)
    [] view = "evaluation"            -> EvaluationLine(e)
    [] view = "safety_counterexample" -> SafetyLine(e)

LinesFor(plan) ==
  LET lines == [i \in DOMAIN plan.examples |-> LineOf(plan.view, plan.examples[i])]
  IN  [i \in {j \in DOMAIN lines : lines[j] # <<>>} |-> Head(lines[i])]

\* A trainer that is another program is given the examples whole.
ExternalSpec(plan) ==
  [i \in DOMAIN plan.examples |->
     Line(plan.examples[i], {plan.examples[i].candidate, plan.examples[i].corrected})]

-----------------------------------------------------------------------------
Optional(texts) == {<<>>} \cup {<<t>> : t \in texts}

Collect(e, split) ==
  /\ Len(examples) < MaxExamples
  /\ examples' = Append(examples, [split |-> split, example |-> e])

ExportInit == examples = <<>>

ExportNext ==
  \E split \in {"train", "validation", "test", "holdout"} :
    \/ \E ai \in Optional(Labels), human \in Labels : Collect(DeriveChoice(ai, human), split)
    \/ \E outcome \in {"accepted", "rejected"} : Collect(DeriveRuleProposal(outcome), split)
    \/ \E body, corrected, summary \in Optional(Bodies),
          outcome \in {<<"corrected", {}>>, <<"corrected", {"price_commitment"}>>, <<"unsafe", {}>>} :
         Collect(Drafted(body, corrected, summary, outcome[1], outcome[2]), split)

ExportSpec == ExportInit /\ [][ExportNext]_exportVars

-----------------------------------------------------------------------------
(* Properties.                                                             *)

\* What redaction leaves of the bodies.
Redactions == {RedactText(body) : body \in Bodies}

\* Metadata quotes labels only, and what is redacted besides them nothing but
\* redactions.
WithinLevel(text, level) ==
  CASE level = "metadata" -> text \in Labels
    [] level = "redacted" -> text \in Labels \cup Redactions
    [] level = "full"     -> TRUE

LineIsHonest(line) == \A text \in line.context \cup line.outputs : WithinLevel(text, line.level)

\* For every view and every ceiling that is let through: a line, or what a
\* trainer outside is given, is no more sensitive than it says, that is within
\* the ceiling, within what the dataset declares, and full only if the user
\* keeps bodies; and the dataset counts exactly the lines that are rendered.
ExportIsAsDeclared ==
  \A view \in Views, ceiling \in ToSet(Levels) :
    LET plan  == BuildDataset(view, ceiling, examples)
        lines == LinesFor(plan)
        given == ExternalSpec(plan)
    IN  /\ Cardinality(DOMAIN lines) = plan.positive + plan.negative
        /\ Rank(plan.level) <= Rank(ceiling)
        /\ \A line \in Range(lines) \cup Range(given) :
             /\ LineIsHonest(line)
             /\ Rank(line.level) <= Rank(plan.level)
             /\ CeilingAllowed(ceiling, FALSE) => line.level # "full"

\* What the code does not keep, see README: an address is scrubbed wherever a
\* run of its characters has an "@" with something on both sides (privacy.rs).
AddressesAreScrubbed ==
  \A text \in Bodies : LET after == RedactText(text) IN
    \A i, j \in DOMAIN after :
      /\ i + 1 < j /\ \A k \in i .. j : after[k] \in EmailChars
      => \A k \in i + 1 .. j - 1 : after[k] # "@"

\* Neither does it keep that redaction is idempotent (privacy.rs).
RedactionIsIdempotent == \A text \in Bodies : RedactText(RedactText(text)) = RedactText(text)
===============================================================================

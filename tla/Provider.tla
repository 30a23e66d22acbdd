------------------------------ MODULE Provider ------------------------------
(***************************************************************************)
(* The boundary to a model that answers with text (mailmate-ai), for the   *)
(* two tasks the host uses: where a provider's reply carries the text, and *)
(* what the text must be before a task may use it.                         *)
(*                                                                         *)
(* A prompt is modelled by what a task must tell the model, a reply by the *)
(* place of its text and by what the checks look at: the fields of the     *)
(* object, whether each value is of its type, which strings are empty.     *)
(***************************************************************************)
EXTENDS Naturals, Sequences

\* The place of the text in the dialect a provider speaks.
ContentAt(provider) ==
  CASE provider = "ollama" -> "message"
    [] provider \in {"lm_studio", "openai_compatible"} -> "choices"
    [] provider = "llama_cpp" -> "content"
    [] OTHER -> "nowhere"

\* What a provider makes of the schema: it is sent as it is, as a grammar of
\* JSON objects without the schema's fields, as a mode, or not at all.
Enforcement(provider) ==
  CASE provider = "openai_compatible" -> "json_schema"
    [] provider \in {"lm_studio", "llama_cpp"} -> "gbnf_grammar"
    [] provider = "ollama" -> "format_json"
    [] OTHER -> "none"

Tasks == {"draft_reply", "curate_rules"}

\* The fields a task's answer must have, and those it may have.
Required == [task \in Tasks |->
  CASE task = "draft_reply" -> {"subject", "body"} [] OTHER -> {"rationale"}]
Optional == [task \in Tasks |->
  CASE task = "draft_reply" -> {"safety_notes"}
    [] OTHER -> {"proposals", "threshold_suggestions", "feedback_summary"}]

\* The schema that is sent asks for more than the check does.
SchemaRequired == [task \in Tasks |->
  Required[task] \cup (IF task = "curate_rules" THEN {"proposals"} ELSE {})]

\* The shapes of an answer: as the schema has it, with every field, without
\* one, with one of its own, with a value of another type, with empty strings,
\* no JSON at all, JSON that is no object of the task.
Shape(json, fields, typed, empty) ==
  [json |-> json, fields |-> fields, typed |-> typed, empty |-> empty]
Shapes(task) ==
  LET all == Required[task] \cup Optional[task]
  IN {Shape(TRUE, SchemaRequired[task], TRUE, {}), Shape(TRUE, all, TRUE, {}),
      Shape(TRUE, Optional[task], TRUE, {}), Shape(TRUE, all \cup {"invented"}, TRUE, {}),
      Shape(TRUE, all, FALSE, {}), Shape(TRUE, all, TRUE, Required[task]),
      Shape(TRUE, Required[task], TRUE, {}), Shape(FALSE, {}, TRUE, {}),
      Shape(TRUE, {}, TRUE, {})}

\* What a server may send back: a text where its dialect has it, or something
\* else.  One that enforces the schema it was sent answers in a shape that
\* satisfies it, or fails.  The stand-in never answers.
ConformsTo(task, shape) ==
  shape.json /\ shape.typed /\ SchemaRequired[task] \subseteq shape.fields
             /\ shape.fields \subseteq Required[task] \cup Optional[task]
Replies(provider, task) ==
  {[at |-> place, shape |-> shape] :
     place \in {ContentAt(provider), "error"} \ {"nowhere"}, shape \in
     {s \in Shapes(task) : CASE Enforcement(provider) = "json_schema" -> ConformsTo(task, s)
                             [] Enforcement(provider) = "gbnf_grammar" -> s.json
                             [] OTHER -> TRUE}}

\* complete_structured: the text is found and parses as JSON.
Completed(provider, reply) == reply.at = ContentAt(provider) /\ reply.shape.json

\* validate_and_parse: the object has the fields of the task and no other, of
\* their types; the body of a draft is not empty.
Parsed(provider, task, reply) ==
  /\ Completed(provider, reply)
  /\ reply.shape.typed
  /\ Required[task] \subseteq reply.shape.fields
  /\ reply.shape.fields \subseteq Required[task] \cup Optional[task]
  /\ task = "draft_reply" => "body" \notin reply.shape.empty

\* The semantic check of curate_rules: a proposal may recommend any status but
\* active, a new rule is drafted and any other change names a rule.
ProposalIsValid(p) ==
  /\ p.status # "active"
  /\ IF p.change = "new_rule" THEN p.draft # "none" ELSE p.target # "none"

-----------------------------------------------------------------------------
(* Drafting a reply.                                                       *)

\* What the drafter tells the model, on top of the message itself.
Guidance(instruction, forbidden) == (instruction \ {"blank"}) \cup forbidden

\* What the extension gets: a draft that waits for a human, or an error.
NoDraft == [drafted |-> FALSE, review |-> FALSE, body |-> "", asked |-> {}, told |-> {}]
DraftOf(reply, asked, told) ==
  [drafted |-> TRUE, review |-> TRUE, asked |-> asked, told |-> told,
   body |-> IF "body" \in reply.shape.empty THEN "" ELSE "text"]
=============================================================================

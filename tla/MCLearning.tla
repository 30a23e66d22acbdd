------------------------------ MODULE MCLearning ------------------------------
(* Small instances of Learning and Curation: the deterministic engine with   *)
(* one sender domain, two folders and two imported rules that contradict     *)
(* each other, or the AI curator with a provider that may answer anything.   *)
EXTENDS Learning, TLC

CONSTANTS d, f, g, Wired, Offers, Requests, Clashing, MaxPasses

VARIABLES pass, stored, traced, refused, noted, passes, cuts, provider, answered, who

MCImported ==
  [turn : {[kind |-> "action", scope |-> "global"]}, domain : {d}, effect : {f, g}]

Proposed(change, risk, status, draft, target) ==
  [change |-> change, risk |-> risk, status |-> status, draft |-> draft, target |-> target]

\* A harmless candidate, one that clashes, a risky one, a change that names
\* no rule and asks to be live, one that names its rule, and one of a kind that
\* is not the curator's.
MCOffers ==
  {Proposed("new_rule", "low", "shadow_mode", "fresh", "none"),
   Proposed("new_rule", "low", "draft", "clash", "none"),
   Proposed("new_rule", "high", "shadow_mode", "fresh", "none"),
   Proposed("merge_rules", "low", "active", "none", "none"),
   Proposed("refine_rule", "medium", "draft", "fresh", "rule"),
   Proposed("new_workflow", "low", "shadow_mode", "none", "rule")}

MCClashing == {"clash"}

MCWired == {"ollama", "openai_compatible", "unavailable"}

MCRequests == {{}, {"propose"}, {"refine", "summarize_feedback"}, {"detect_conflicts"}}

C == INSTANCE Curation

curationVars == <<pass, stored, traced, refused, noted, passes, cuts, provider, answered>>
allVars == <<vars, curationVars, who>>

MCInit == Init /\ C!Init /\ who \in {"engine", "curator"}

MCNext ==
  /\ \/ who = "engine" /\ Next /\ UNCHANGED curationVars
     \/ who = "curator" /\ C!Next /\ UNCHANGED vars
  /\ UNCHANGED who

MCSpec == MCInit /\ [][MCNext]_allVars

\* Nothing tells the folders apart.
Symmetry == Permutations(Folders)

-------------------------------------------------------------------------------
\* What the curator stores cannot do harm (Curation).
AdviceIsHarmless == C!AdviceIsHarmless

\* What the curator did can be read in the audit log (Curation).
CurationIsTraced == C!CurationIsTraced

\* What the curator recommends (Curation).
RecommendsShadowOrReview == C!RecommendsShadowOrReview
===============================================================================

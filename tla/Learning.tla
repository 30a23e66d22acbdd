------------------------------- MODULE Learning -------------------------------
(***************************************************************************)
(* The learning loop: a correction becomes a feedback row and, on the spam *)
(* axis, a lesson for the Tier-2 model; a pass over the rows proposes the  *)
(* rules they justify; a candidate is back-tested against history; a scan  *)
(* records the active rules that contradict each other.  A storage call    *)
(* may fail and the host may stop between any two.                         *)
(*                                                                         *)
(* A row is known by what is clustered on and by its number among the rows *)
(* like it, a proposal by its pattern and the number of rows it cites.     *)
(* What becomes of a proposal is ProposalReview's matter: here a rule the  *)
(* user wants simply becomes active.                                       *)
(***************************************************************************)
EXTENDS Integers, FiniteSets, Sequences

CONSTANTS
  Domains, NoDomain,    \* a row carries the sender's domain, if the wire did
  Folders,
  OtherLabels,          \* labels off the spam axis
  Imported,             \* rules that do not come from a proposal
  MinMoves, MinCorrections,      \* ProposalThresholds
  Bar, MinSupport,      \* the promotion bar, in percent, and its support
  MaxRows               \* bound: feedback rows

Labels == {"spam", "ham"} \cup OtherLabels

\* agrees: the AI had predicted what the human chose.  Only clustering by
\* label reads it, so a filing row does not carry it.
FilingRows == [task : {"filing"}, domain : Domains \cup {NoDomain}, choice : Folders,
               agrees : {FALSE}]
LabelRows  == [task : {"classification"}, domain : Domains \cup {NoDomain},
               choice : Labels, agrees : BOOLEAN]
Feedback   == FilingRows \cup LabelRows

Patterns == [task : {"filing"}, domain : Domains, choice : Folders] \cup
            [task : {"classification"}, domain : Domains, choice : Labels]

RuleKinds == {"classification", "action"}

\* ALL_SCOPES, in its order.
AllScopes == <<"global", "account", "folder", "sender", "domain">>

Turns == [kind : RuleKinds, scope : {AllScopes[n] : n \in DOMAIN AllScopes}]

\* A rule for the mail of a domain.  Its effect is a move to a folder, which
\* another rule can contradict (a junk state would be the same), or a label,
\* which none can.
Rules == [turn : Turns, domain : Domains, effect : Folders \cup Labels]

ASSUME LearningAssumption ==
  /\ NoDomain \notin Domains
  /\ Labels \cap Folders = {}
  /\ Imported \subseteq Rules
  /\ MinMoves \in Nat \ {0} /\ MinCorrections \in Nat \ {0} /\ MaxRows \in Nat
  /\ MinSupport \in Nat /\ Bar \in 51 .. 100

VARIABLES
  rows,       \* classification_feedback and filing_feedback
  taught,     \* the examples the model in memory has learned from, by label
  lesson,     \* the example a recorded correction is about to teach
  proposals,  \* agent_proposals of the learning engine, with their evidence
  rules,      \* the active rules
  conflicts,  \* rule_conflicts: pairs of rules, all still open
  job,        \* the learning pass or the conflict scan under way
  steady      \* history: the rules active since the scan under way began

vars == <<rows, taught, lesson, proposals, rules, conflicts, job, steady>>

None == "none"

\* What is left to propose or to record, and the kinds and scopes left to scan.
Job(at, left) == [at |-> at, left |-> left, todo |-> <<>>, only |-> None]

Idle == Job("idle", {})

Init ==
  /\ rows = {}
  /\ taught = [l \in {"spam", "ham"} |-> 0]
  /\ lesson = None
  /\ proposals = {}
  /\ rules = {}
  /\ conflicts = {}
  /\ job = Idle
  /\ steady = {}

Count(set) == Cardinality({r \in rows : r.is \in set})

-----------------------------------------------------------------------------
(* Corrections.                                                            *)

\* The row first; the lesson is the step after it.  An append that fails ends
\* the request with record_failed and nothing changed.
Capture(f, teaches) ==
  /\ lesson = None /\ Count(Feedback) < MaxRows
  /\ rows' = rows \cup {[is |-> f, nth |-> Count({f}) + 1]}
  /\ lesson' = IF teaches THEN f.choice ELSE None
  /\ UNCHANGED <<taught, proposals, rules, conflicts, job, steady>>

\* mark_spam and mark_not_spam: the router passes on no prediction.
MarkSpamAxis(d, l) ==
  Capture([task |-> "classification", domain |-> d, choice |-> l, agrees |-> FALSE], TRUE)

\* A wrong category teaches the table and not the model.
CorrectLabel(d, l, agrees) ==
  Capture([task |-> "classification", domain |-> d, choice |-> l, agrees |-> agrees], FALSE)

LearnFiling(d, folder) ==
  Capture([task |-> "filing", domain |-> d, choice |-> folder, agrees |-> FALSE], FALSE)

\* One online step.  The features the router passes are empty: it moves the bias.
Teach ==
  /\ lesson # None
  /\ taught' = [taught EXCEPT ![lesson] = @ + 1]
  /\ lesson' = None
  /\ UNCHANGED <<rows, proposals, rules, conflicts, job, steady>>

\* The model lives in memory alone, and so does whatever was under way.
Relaunch ==
  /\ taught' = [l \in {"spam", "ham"} |-> 0]
  /\ lesson' = None
  /\ job' = Idle
  /\ steady' = {}
  /\ UNCHANGED <<rows, proposals, rules, conflicts>>

-----------------------------------------------------------------------------
(* The learning pass.                                                      *)

Supports(f, p) ==
  /\ f.task = p.task /\ f.domain = p.domain /\ f.choice = p.choice

\* Rows without a domain support nothing; of the labels, only corrections do.
Cluster(p) == {f \in Feedback : Supports(f, p) /\ (p.task = "classification" => ~f.agrees)}

Threshold(p) == IF p.task = "filing" THEN MinMoves ELSE MinCorrections

Earned(task) == {p \in Patterns : p.task = task /\ Count(Cluster(p)) >= Threshold(p)}

Cited(task) == {[pattern |-> p, support |-> Count(Cluster(p))] : p \in Earned(task)}

\* A pass covers one source or both, each read when its turn comes.
StartPass(first) ==
  /\ job = Idle
  /\ job' = Job(first, Cited(first))
  /\ UNCHANGED <<rows, taught, lesson, proposals, rules, conflicts, steady>>

\* The order of the clusters is that of a map; any order will do.  What was
\* proposed before is proposed again, whatever became of it.
Propose ==
  /\ job.at \in {"filing", "classification"}
  /\ \E p \in job.left :
       /\ proposals' = proposals \cup {p}
       /\ job' = [job EXCEPT !.left = @ \ {p}]
  /\ UNCHANGED <<rows, taught, lesson, rules, conflicts, steady>>

NextSource(both) ==
  /\ job.at \in {"filing", "classification"} /\ job.left = {}
  /\ job' = IF both /\ job.at = "filing"
              THEN Job("classification", Cited("classification"))
              ELSE Idle
  /\ UNCHANGED <<rows, taught, lesson, proposals, rules, conflicts, steady>>

\* The save or the audit entry after it fails: the rest is not proposed.
JobFails ==
  /\ job # Idle
  /\ job' = Idle
  /\ steady' = {}
  /\ UNCHANGED <<rows, taught, lesson, proposals, rules, conflicts>>

-----------------------------------------------------------------------------
(* Back-testing a move.                                                    *)

\* The candidate runs as a shadow rule over the moves of its domain; the
\* move agrees where the user moved to the same folder.
Fires(p)   == Count({f \in FilingRows : f.domain = p.domain})

\* Mutant: a candidate is right wherever it fires.
CorrectWhenFired(p) == Fires(p)

Correct(p) == Count({f \in FilingRows : f.domain = p.domain /\ f.choice = p.choice})

\* No firing, no precision.
Eligible(p) ==
  /\ Fires(p) >= MinSupport
  /\ Fires(p) > 0
  /\ 100 * Correct(p) >= Bar * Fires(p)

-----------------------------------------------------------------------------
(* Rules and the scan for contradictions.                                  *)

Drafted(p) ==
  [turn |-> [kind |-> IF p.task = "filing" THEN "action" ELSE "classification",
             scope |-> "domain"],
   domain |-> p.domain, effect |-> p.choice]

\* Rules the user may have: proposed ones that were accepted, and imported ones.
Known == Imported \cup {Drafted(p.pattern) : p \in proposals}

Activate(r) ==
  /\ r \notin rules
  /\ rules' = rules \cup {r}
  /\ UNCHANGED <<rows, taught, lesson, proposals, conflicts, job, steady>>

Retire(r) ==
  /\ r \in rules
  /\ rules' = rules \ {r}
  /\ steady' = steady \ {r}
  /\ UNCHANGED <<rows, taught, lesson, proposals, conflicts, job>>

\* The same condition and different folders.
Contradict(a, b) == a.domain = b.domain /\ {a.effect, b.effect} \subseteq Folders
                    /\ a.effect # b.effect

Pairs(own) == {pair \in {{a, b} : a, b \in own} : \E a, b \in pair : Contradict(a, b)}

\* Mutant: every turn of the loop reads the rules of the same scope.
ContradictionsOfDomain(turn) ==
  Pairs({r \in rules : r.turn = [turn EXCEPT !.scope = "domain"]})

\* get_active_rules of a kind and a scope, two by two.
Contradictions(turn) == Pairs({r \in rules : r.turn = turn})

Sweep(kind) == [n \in DOMAIN AllScopes |-> [kind |-> kind, scope |-> AllScopes[n]]]

\* The request names a kind, or both are scanned.
StartScan(only) ==
  /\ job = Idle
  /\ job' = [at |-> "scan", left |-> {}, only |-> only,
             todo |-> IF only = None THEN Sweep("classification") \o Sweep("action")
                      ELSE Sweep(only)]
  /\ steady' = rules
  /\ UNCHANGED <<rows, taught, lesson, proposals, rules, conflicts>>

\* The rules of a kind and a scope are read when their turn comes, and once.
NextScope ==
  /\ job.at = "scan" /\ job.left = {} /\ job.todo # <<>>
  /\ job' = [job EXCEPT !.left = Contradictions(Head(job.todo)), !.todo = Tail(@)]
  /\ UNCHANGED <<rows, taught, lesson, proposals, rules, conflicts, steady>>

RecordConflict ==
  /\ job.at = "scan"
  /\ \E pair \in job.left :
       /\ conflicts' = conflicts \cup {pair}
       /\ job' = [job EXCEPT !.left = @ \ {pair}]
  /\ UNCHANGED <<rows, taught, lesson, proposals, rules, steady>>

EndScan ==
  /\ job.at = "scan" /\ job.left = {} /\ job.todo = <<>>
  /\ job' = Idle
  /\ steady' = {}
  /\ UNCHANGED <<rows, taught, lesson, proposals, rules, conflicts>>

Correction ==
  \E d \in Domains \cup {NoDomain} :
    \/ \E l \in {"spam", "ham"} : MarkSpamAxis(d, l)
    \/ \E l \in OtherLabels, agrees \in BOOLEAN : CorrectLabel(d, l, agrees)
    \/ \E folder \in Folders : LearnFiling(d, folder)

Next ==
  \/ Correction \/ Teach \/ Relaunch
  \/ \E task \in {"filing", "classification"} : StartPass(task)
  \/ Propose \/ (\E both \in BOOLEAN : NextSource(both)) \/ JobFails
  \/ (\E r \in Known : Activate(r)) \/ (\E r \in rules : Retire(r))
  \/ (\E only \in RuleKinds \cup {None} : StartScan(only))
  \/ NextScope \/ RecordConflict \/ EndScan

Spec == Init /\ [][Next]_vars

-----------------------------------------------------------------------------
(* Properties.                                                             *)

\* Of two proposed moves that contradict each other, at most one clears the
\* promotion bar: the user's history cannot vouch for both (back_test,
\* effect_agrees, ShadowReport::is_eligible).
ContradictingCandidatesCannotBothClear ==
  \A p, q \in {x.pattern : x \in proposals} :
    (/\ p.task = "filing" /\ q.task = "filing"
     /\ p.domain = q.domain /\ p.choice # q.choice) => ~(Eligible(p) /\ Eligible(q))

\* A scan that gets to its end has recorded every contradiction between rules
\* of a kind and a scope it was asked for that were active all through it,
\* whatever was activated or retired meanwhile (AiRuleCurator::scan_conflicts).
ScanMissesNothing ==
  [][ job.at = "scan" /\ job.left = {} /\ job.todo = <<>> /\ job' = Idle =>
      \A a, b \in {r \in steady : job.only \in {None, r.turn.kind}} :
        a.turn = b.turn /\ Contradict(a, b) => {a, b} \in conflicts ]_vars
===============================================================================

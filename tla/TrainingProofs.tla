---------------------------- MODULE TrainingProofs -----------------------------
(***************************************************************************)
(* What the training pipeline keeps for any requests, any rows and any     *)
(* number of overlapping runs, wherever each of them is cut short.  The    *)
(* inductive invariant ties an approval to the point a run has reached:    *)
(* after it nothing the verdict rests on can change any more.  And what a  *)
(* dataset of any examples lets out.                                       *)
(***************************************************************************)
EXTENDS MCTraining, FiniteSetTheorems, TLAPS

Points == {"start", "collect", "datasets", "evalset", "train", "register", "evaluate",
           "record", "status", "done"}

Types ==
  /\ pc \in [Runs -> Points]
  /\ training \in [Runs -> SUBSET Rows] /\ evaluation \in [Runs -> SUBSET Rows]
  /\ examples \in [Runs -> SUBSET Rows] /\ rows \subseteq Rows
  /\ DOMAIN metrics = Runs /\ metrics = [r \in Runs |-> metrics[r]]
  /\ evalRun \in [Runs -> {"none", "approved", "refused"}]
  /\ adapter \in [Runs -> {"none", "candidate", "active", "failed_eval"}]

\* Each row is on one side of the split, in whichever run.
SplitInv ==
  \A r \in Runs : /\ \A row \in training[r] : InTraining(row)
                  /\ \A row \in evaluation[r] : ~InTraining(row)

\* A verdict was given of what is still stored.
VerdictInv(r) ==
  /\ evalRun[r] # "none" => pc[r] \in {"status", "done"}
  /\ evalRun[r] = "approved" => Promote(r)
  /\ adapter[r] = "active" => evalRun[r] = "approved"

IInv == Types /\ SplitInv /\ \A r \in Runs : VerdictInv(r)

LEMMA InitInv == Init => IInv
<1>. SUFFICES ASSUME Init PROVE IInv
  OBVIOUS
<1>1. Types
  BY DEF Init, Types, Points
<1>2. SplitInv
  BY DEF Init, SplitInv
<1>3. \A r \in Runs : VerdictInv(r)
  BY DEF Init, VerdictInv
<1>. QED BY <1>1, <1>2, <1>3 DEF IInv

\* What moving on changes of the program counters.
LEMMA GotoFacts ==
  ASSUME Types, NEW r \in Runs, NEW from, NEW to \in Points, Goto(r, from, to)
  PROVE  /\ pc[r] = from /\ pc' \in [Runs -> Points] /\ pc'[r] = to
         /\ \A q \in Runs \ {r} : pc'[q] = pc[q]
BY DEF Goto, Types

\* A run nothing happens to keeps its verdict.
LEMMA VerdictStays ==
  ASSUME NEW r \in Runs, VerdictInv(r), evaluation'[r] = evaluation[r],
         metrics'[r] = metrics[r], evalRun'[r] = evalRun[r], adapter'[r] = adapter[r],
         pc'[r] = pc[r] \/ pc'[r] = "done"
  PROVE  VerdictInv(r)'
<1>1. Promote(r)' = Promote(r)
  BY DEF Promote, QualityReached, Scored
<1>. QED BY <1>1 DEF VerdictInv

\* Before the verdict there is none that could be wrong.
LEMMA NoVerdictYet ==
  ASSUME Types, NEW r \in Runs, VerdictInv(r), pc[r] \notin {"status", "done"},
         evalRun'[r] = evalRun[r],
         adapter'[r] = adapter[r] \/ adapter'[r] = "candidate"
  PROVE  VerdictInv(r)'
BY DEF VerdictInv, Types

LEMMA CapturedInv ==
  ASSUME IInv, NEW row \in Rows, Captured(row)
  PROVE  IInv'
<1>1. /\ rows' = rows \cup {row}
      /\ UNCHANGED <<pc, tables, examples, training, evaluation, metrics, evalRun, adapter>>
  BY DEF Captured
<1>2. Types'
  BY <1>1 DEF IInv, Types
<1>3. SplitInv'
  BY <1>1 DEF IInv, SplitInv, InTraining
<1>4. ASSUME NEW r \in Runs PROVE VerdictInv(r)'
  BY <1>1, VerdictStays DEF IInv
<1>. QED BY <1>2, <1>3, <1>4 DEF IInv

\* Reading the tables.
LEMMA ReadingInv ==
  ASSUME IInv, NEW r \in Runs, Start(r) \/ Collect(r)
  PROVE  IInv'
<1>1. /\ UNCHANGED <<rows, training, evaluation, metrics, evalRun, adapter>>
      /\ pc[r] \in {"start", "collect"}
  BY DEF Start, Collect, Goto
<1>2. pc' \in [Runs -> Points] /\ \A q \in Runs \ {r} : pc'[q] = pc[q]
  <2>1. CASE Start(r)
    BY <2>1, GotoFacts DEF Start, IInv, Points
  <2>2. CASE Collect(r)
    <3>1. PICK to \in {"datasets", "collect"} : Goto(r, "collect", to)
      BY <2>2 DEF Collect
    <3>. QED BY <3>1, GotoFacts DEF IInv, Points
  <2>. QED BY <2>1, <2>2
<1>3. examples' \in [Runs -> SUBSET Rows]
  <2>1. CASE Start(r)
    BY <2>1 DEF Start, IInv, Types
  <2>2. CASE Collect(r)
    <3>1. examples' = [examples EXCEPT ![r] = @ \cup {row \in rows : TaskOf[row] = Head(tables[r])}]
      BY <2>2 DEF Collect
    <3>. QED BY <3>1 DEF IInv, Types
  <2>. QED BY <2>1, <2>2
<1>4. Types'
  BY <1>1, <1>2, <1>3 DEF IInv, Types
<1>5. SplitInv'
  BY <1>1 DEF IInv, SplitInv, InTraining
<1>6. VerdictInv(r)'
  BY <1>1, NoVerdictYet DEF IInv
<1>7. ASSUME NEW q \in Runs \ {r} PROVE VerdictInv(q)'
  BY <1>1, <1>2, VerdictStays DEF IInv
<1>. QED BY <1>4, <1>5, <1>6, <1>7 DEF IInv

LEMMA SaveTrainingInv ==
  ASSUME IInv, NEW r \in Runs, SaveTraining(r)
  PROVE  IInv'
<1>. DEFINE view == TrainingView(Request[r].objective, examples[r])
<1>1. /\ Goto(r, "datasets", "evalset") /\ training' = [training EXCEPT ![r] = view]
      /\ UNCHANGED <<rows, tables, examples, evaluation, metrics, evalRun, adapter>>
  BY DEF SaveTraining
<1>2. view \subseteq Rows /\ \A row \in view : InTraining(row)
  BY DEF TrainingView, IInv, Types
<1>. HIDE DEF view
<1>3. /\ pc[r] = "datasets" /\ pc' \in [Runs -> Points]
      /\ \A q \in Runs \ {r} : pc'[q] = pc[q]
  BY <1>1, GotoFacts DEF IInv, Points
<1>4. Types'
  BY <1>1, <1>2, <1>3 DEF IInv, Types
<1>5. SplitInv'
  BY <1>1, <1>2 DEF IInv, Types, SplitInv, InTraining
<1>6. VerdictInv(r)'
  BY <1>1, <1>3, NoVerdictYet DEF IInv
<1>7. ASSUME NEW q \in Runs \ {r} PROVE VerdictInv(q)'
  BY <1>1, <1>3, VerdictStays DEF IInv
<1>. QED BY <1>4, <1>5, <1>6, <1>7 DEF IInv

LEMMA SaveEvaluationInv ==
  ASSUME IInv, NEW r \in Runs, SaveEvaluation(r)
  PROVE  IInv'
<1>. DEFINE view == EvaluationView(examples[r])
<1>1. /\ Goto(r, "evalset", "train") /\ evaluation' = [evaluation EXCEPT ![r] = view]
      /\ UNCHANGED <<rows, tables, examples, training, metrics, evalRun, adapter>>
  BY DEF SaveEvaluation
<1>2. view \subseteq Rows /\ \A row \in view : ~InTraining(row)
  BY DEF EvaluationView, IInv, Types
<1>. HIDE DEF view
<1>3. /\ pc[r] = "evalset" /\ pc' \in [Runs -> Points]
      /\ \A q \in Runs \ {r} : pc'[q] = pc[q]
  BY <1>1, GotoFacts DEF IInv, Points
<1>4. Types'
  BY <1>1, <1>2, <1>3 DEF IInv, Types
<1>5. SplitInv'
  BY <1>1, <1>2 DEF IInv, Types, SplitInv, InTraining
<1>6. VerdictInv(r)'
  BY <1>1, <1>3, NoVerdictYet DEF IInv
<1>7. ASSUME NEW q \in Runs \ {r} PROVE VerdictInv(q)'
  BY <1>1, <1>3, VerdictStays DEF IInv, Types
<1>. QED BY <1>4, <1>5, <1>6, <1>7 DEF IInv

\* Training, registering and evaluating come before the verdict.
LEMMA CandidateInv ==
  ASSUME IInv, NEW r \in Runs, Train(r) \/ Register(r) \/ Evaluate(r)
  PROVE  IInv'
<1>1. /\ UNCHANGED <<rows, tables, examples, training, evaluation, evalRun>>
      /\ \/ metrics' = metrics
         \/ \E found : metrics' = [metrics EXCEPT ![r] = found]
      /\ adapter' = adapter \/ adapter' = [adapter EXCEPT ![r] = "candidate"]
  BY DEF Train, Register, Evaluate
<1>2. /\ pc[r] \in {"train", "register", "evaluate"} /\ pc' \in [Runs -> Points]
      /\ \A q \in Runs \ {r} : pc'[q] = pc[q]
  BY GotoFacts DEF Train, Register, Evaluate, IInv, Points
<1>3. /\ DOMAIN metrics' = Runs /\ metrics' = [q \in Runs |-> metrics'[q]]
      /\ \A q \in Runs \ {r} : metrics'[q] = metrics[q]
  BY <1>1 DEF IInv, Types
<1>4. /\ adapter' \in [Runs -> {"none", "candidate", "active", "failed_eval"}]
      /\ \A q \in Runs \ {r} : adapter'[q] = adapter[q]
      /\ adapter'[r] = adapter[r] \/ adapter'[r] = "candidate"
  BY <1>1 DEF IInv, Types
<1>5. Types'
  BY <1>1, <1>2, <1>3, <1>4 DEF IInv, Types
<1>6. SplitInv'
  BY <1>1 DEF IInv, SplitInv, InTraining
<1>7. VerdictInv(r)'
  BY <1>1, <1>2, <1>4, NoVerdictYet DEF IInv
<1>8. ASSUME NEW q \in Runs \ {r} PROVE VerdictInv(q)'
  BY <1>1, <1>2, <1>3, <1>4, VerdictStays DEF IInv
<1>. QED BY <1>5, <1>6, <1>7, <1>8 DEF IInv

LEMMA RecordRunInv ==
  ASSUME IInv, NEW r \in Runs, RecordRun(r)
  PROVE  IInv'
<1>1. /\ Goto(r, "record", "status")
      /\ evalRun' = [evalRun EXCEPT ![r] = IF Promote(r) THEN "approved" ELSE "refused"]
      /\ UNCHANGED <<rows, tables, examples, training, evaluation, metrics, adapter>>
  BY DEF RecordRun
<1>2. /\ pc[r] = "record" /\ pc' \in [Runs -> Points] /\ pc'[r] = "status"
      /\ \A q \in Runs \ {r} : pc'[q] = pc[q]
  BY <1>1, GotoFacts DEF IInv, Points
<1>3. Types'
  BY <1>1, <1>2 DEF IInv, Types
<1>4. SplitInv'
  BY <1>1 DEF IInv, SplitInv, InTraining
<1>5. VerdictInv(r)'
  <2>1. Promote(r)' = Promote(r)
    BY <1>1 DEF Promote, QualityReached, Scored
  <2>2. evalRun'[r] = IF Promote(r) THEN "approved" ELSE "refused"
    BY <1>1 DEF IInv, Types
  <2>3. adapter'[r] # "active"
    BY <1>1, <1>2 DEF IInv, VerdictInv
  <2>. QED BY <1>2, <2>1, <2>2, <2>3 DEF VerdictInv
<1>6. ASSUME NEW q \in Runs \ {r} PROVE VerdictInv(q)'
  BY <1>1, <1>2, VerdictStays DEF IInv, Types
<1>. QED BY <1>3, <1>4, <1>5, <1>6 DEF IInv

LEMMA SetStatusInv ==
  ASSUME IInv, NEW r \in Runs, SetStatus(r)
  PROVE  IInv'
<1>1. /\ Goto(r, "status", "done")
      /\ adapter' = [adapter EXCEPT ![r] = IF evalRun[r] = "approved" THEN "active"
                                           ELSE "failed_eval"]
      /\ UNCHANGED <<rows, tables, examples, training, evaluation, metrics, evalRun>>
  BY DEF SetStatus
<1>2. /\ pc' \in [Runs -> Points] /\ pc'[r] = "done"
      /\ \A q \in Runs \ {r} : pc'[q] = pc[q]
  BY <1>1, GotoFacts DEF IInv, Points
<1>3. Types'
  BY <1>1, <1>2 DEF IInv, Types
<1>4. SplitInv'
  BY <1>1 DEF IInv, SplitInv, InTraining
<1>5. VerdictInv(r)'
  <2>1. Promote(r)' = Promote(r)
    BY <1>1 DEF Promote, QualityReached, Scored
  <2>2. adapter'[r] = IF evalRun[r] = "approved" THEN "active" ELSE "failed_eval"
    BY <1>1 DEF IInv, Types
  <2>. QED BY <1>1, <1>2, <2>1, <2>2 DEF IInv, VerdictInv
<1>6. ASSUME NEW q \in Runs \ {r} PROVE VerdictInv(q)'
  BY <1>1, <1>2, VerdictStays DEF IInv, Types
<1>. QED BY <1>3, <1>4, <1>5, <1>6 DEF IInv

LEMMA FailInv ==
  ASSUME IInv, NEW r \in Runs, Fail(r)
  PROVE  IInv'
<1>1. /\ pc' = [pc EXCEPT ![r] = "done"]
      /\ UNCHANGED <<rows, tables, examples, training, evaluation, metrics, evalRun, adapter>>
  BY DEF Fail
<1>2. Types'
  BY <1>1 DEF IInv, Types, Points
<1>3. SplitInv'
  BY <1>1 DEF IInv, SplitInv, InTraining
<1>4. ASSUME NEW q \in Runs PROVE VerdictInv(q)'
  <2>1. pc'[q] = pc[q] \/ pc'[q] = "done"
    BY <1>1 DEF IInv, Types
  <2>. QED BY <1>1, <2>1, VerdictStays DEF IInv
<1>. QED BY <1>2, <1>3, <1>4 DEF IInv

LEMMA StutterInv ==
  ASSUME IInv, UNCHANGED vars
  PROVE  IInv'
<1>1. Types'
  BY DEF vars, IInv, Types
<1>2. SplitInv'
  BY DEF vars, IInv, SplitInv, InTraining
<1>3. ASSUME NEW r \in Runs PROVE VerdictInv(r)'
  BY VerdictStays DEF vars, IInv
<1>. QED BY <1>1, <1>2, <1>3 DEF IInv

\* The invariant holds however runs overlap and wherever they are cut short.
THEOREM Inductive == Spec => []IInv
<1>1. ASSUME IInv, Next PROVE IInv'
  <2>1. CASE \E row \in Rows : Captured(row)
    BY <1>1, <2>1, CapturedInv
  <2>2. ASSUME NEW r \in Runs,
               \/ Start(r) \/ Collect(r) \/ SaveTraining(r) \/ SaveEvaluation(r) \/ Train(r)
               \/ Register(r) \/ Evaluate(r) \/ RecordRun(r) \/ SetStatus(r) \/ Fail(r)
        PROVE  IInv'
    BY <1>1, <2>2, ReadingInv, SaveTrainingInv, SaveEvaluationInv, CandidateInv,
       RecordRunInv, SetStatusInv, FailInv
  <2>. QED BY <1>1, <2>1, <2>2 DEF Next
<1>2. IInv /\ [Next]_vars => IInv'
  BY <1>1, StutterInv
<1>. QED BY <1>2, InitInv, PTL DEF Spec

\* An adapter that may serve was approved on what is stored with it, whatever
\* failed and wherever the host stopped (DefaultTrainingPipeline::run).
THEOREM ActiveWasAlwaysApproved == Spec => []ActiveWasApproved
<1>1. IInv => ActiveWasApproved
  <2>. SUFFICES ASSUME IInv, NEW r \in Runs, adapter[r] = "active"
                PROVE  /\ evalRun[r] = "approved"
                       /\ metrics[r].failures <= Request[r].maxFailures
                       /\ Request[r].requireCompatible => metrics[r].compatible
                       /\ Request[r].minQuality > 0 => evaluation[r] # {}
    BY DEF ActiveWasApproved
  <2>1. evalRun[r] = "approved" /\ Promote(r)
    BY DEF IInv, VerdictInv
  <2>2. evaluation[r] = {} => Request[r].minQuality = 0
    BY <2>1, FS_EmptySet DEF Promote, QualityReached
  <2>. QED BY <2>1, <2>2 DEF Promote
<1>. QED BY <1>1, Inductive, PTL

\* No run evaluates on an example another trains on (assign_split).
THEOREM HoldoutIsNeverTrainedOn == Spec => []HoldoutIsNeverTrained
<1>1. IInv => HoldoutIsNeverTrained
  BY DEF IInv, SplitInv, HoldoutIsNeverTrained
<1>. QED BY <1>1, Inductive, PTL
-----------------------------------------------------------------------------
(* What a dataset lets out (Export), for any labels, any bodies and any     *)
(* number of examples.                                                      *)

\* What may be collected: choices between labels, and bodies as they were
\* written.
Outcomes == {"accepted", "accepted_with_minor_edits", "corrected", "rejected", "undone", "unsafe"}

Derived  == [level : {"metadata"}, summary : {<<>>}, candidate : E!Optional(Labels),
             corrected : E!Optional(Labels), label : Outcomes, flags : SUBSET {"price_commitment"}]
Authored == [level : {"full"}, summary : E!Optional(Bodies), candidate : E!Optional(Bodies),
             corrected : E!Optional(Bodies), label : Outcomes, flags : SUBSET {"price_commitment"}]

Collected == [split : {"train", "validation", "test", "holdout"}, example : Derived \cup Authored]

ExportInv == exported \in Seq(Collected)

\* A count is the same inside the instance.
LEMMA SameSize == \A S : E!Cardinality(S) = Cardinality(S)
BY DEF E!Cardinality, Cardinality

LEMMA DerivedAreMetadata ==
  /\ \A ai \in E!Optional(Labels), human \in Labels : E!DeriveChoice(ai, human) \in Derived
  /\ \A outcome \in {"accepted", "rejected"} : E!DeriveRuleProposal(outcome) \in Derived
<1>1. ASSUME NEW ai \in E!Optional(Labels), NEW human \in Labels
      PROVE  E!DeriveChoice(ai, human) \in Derived
  <2>1. <<human>> \in E!Optional(Labels)
    BY DEF E!Optional
  <2>2. ASSUME NEW corrected \in E!Optional(Labels), NEW label \in Outcomes
        PROVE  E!Example("metadata", <<>>, ai, corrected, label, {}) \in Derived
    BY DEF E!Example, Derived
  <2>. QED BY <2>1, <2>2 DEF E!DeriveChoice, Outcomes
<1>2. ASSUME NEW outcome \in {"accepted", "rejected"}
      PROVE  E!DeriveRuleProposal(outcome) \in Derived
  <2>1. <<>> \in E!Optional(Labels)
    BY DEF E!Optional
  <2>2. ASSUME NEW label \in Outcomes
        PROVE  E!Example("metadata", <<>>, <<>>, <<>>, label, {}) \in Derived
    BY <2>1 DEF E!Example, Derived
  <2>3. \/ E!DeriveRuleProposal(outcome) = E!Example("metadata", <<>>, <<>>, <<>>, "accepted", {})
        \/ E!DeriveRuleProposal(outcome) = E!Example("metadata", <<>>, <<>>, <<>>, "rejected", {})
    BY <1>2 DEF E!DeriveRuleProposal
  <2>. QED BY <2>2, <2>3 DEF Outcomes
<1>. QED BY <1>1, <1>2

LEMMA CollectedOnly == MCSpec => []ExportInv
<1>1. MCInit => ExportInv
  BY DEF MCInit, E!ExportInit, ExportInv
<1>2. ASSUME NEW e \in Derived \cup Authored, NEW split \in {"train", "validation", "test", "holdout"},
             exported \in Seq(Collected), E!Collect(e, split)
      PROVE  exported' \in Seq(Collected)
  BY <1>2 DEF E!Collect, Collected
<1>3. ASSUME exported \in Seq(Collected), E!ExportNext PROVE exported' \in Seq(Collected)
  <2>1. PICK split \in {"train", "validation", "test", "holdout"} :
          \/ \E ai \in E!Optional(Labels), human \in Labels :
               E!Collect(E!DeriveChoice(ai, human), split)
          \/ \E outcome \in {"accepted", "rejected"} :
               E!Collect(E!DeriveRuleProposal(outcome), split)
          \/ \E body, corrected, summary \in E!Optional(Bodies),
                outcome \in {<<"corrected", {}>>, <<"corrected", {"price_commitment"}>>,
                             <<"unsafe", {}>>} :
               E!Collect(E!Drafted(body, corrected, summary, outcome[1], outcome[2]), split)
    BY <1>3 DEF E!ExportNext
  <2>2. ASSUME NEW body \in E!Optional(Bodies), NEW corrected \in E!Optional(Bodies),
               NEW summary \in E!Optional(Bodies),
               NEW outcome \in {<<"corrected", {}>>, <<"corrected", {"price_commitment"}>>,
                                <<"unsafe", {}>>}
        PROVE  E!Drafted(body, corrected, summary, outcome[1], outcome[2]) \in Authored
    <3>1. outcome[1] \in Outcomes /\ outcome[2] \in SUBSET {"price_commitment"}
      <4>1. CASE outcome = <<"corrected", {}>>
        BY <4>1 DEF Outcomes
      <4>2. CASE outcome = <<"corrected", {"price_commitment"}>>
        BY <4>2 DEF Outcomes
      <4>3. CASE outcome = <<"unsafe", {}>>
        BY <4>3 DEF Outcomes
      <4>. QED BY <2>2, <4>1, <4>2, <4>3
    <3>2. ASSUME NEW label \in Outcomes, NEW flags \in SUBSET {"price_commitment"}
          PROVE  E!Drafted(body, corrected, summary, label, flags) \in Authored
      BY DEF E!Drafted, E!Example, Authored
    <3>. QED BY <3>1, <3>2
  <2>4. \E e \in Derived \cup Authored : E!Collect(e, split)
    <3>1. CASE \E ai \in E!Optional(Labels), human \in Labels :
                 E!Collect(E!DeriveChoice(ai, human), split)
      BY <3>1, DerivedAreMetadata
    <3>2. CASE \E outcome \in {"accepted", "rejected"} :
                 E!Collect(E!DeriveRuleProposal(outcome), split)
      BY <3>2, DerivedAreMetadata
    <3>3. CASE \E body, corrected, summary \in E!Optional(Bodies),
                  outcome \in {<<"corrected", {}>>, <<"corrected", {"price_commitment"}>>,
                               <<"unsafe", {}>>} :
                 E!Collect(E!Drafted(body, corrected, summary, outcome[1], outcome[2]), split)
      BY <2>2, <3>3
    <3>. QED BY <2>1, <3>1, <3>2, <3>3
  <2>. QED BY <1>2, <1>3, <2>4
<1>4. ExportInv /\ [MCNext]_<<vars, side, exported>> => ExportInv'
  BY <1>3 DEF MCNext, ExportInv
<1>. QED BY <1>1, <1>4, PTL DEF MCSpec

-----------------------------------------------------------------------------
\* Metadata is below redacted, which is below full.
LEMMA Ranks ==
  /\ E!Rank("metadata") = 1 /\ E!Rank("redacted") = 2 /\ E!Rank("full") = 3
  /\ \A n \in 1 .. 3 : E!Rank(E!Levels[n]) = n
  /\ E!ToSet(E!Levels) = {"metadata", "redacted", "full"}
<1>1. DOMAIN E!Levels = 1 .. 3 /\ E!Levels[1] = "metadata" /\ E!Levels[2] = "redacted"
        /\ E!Levels[3] = "full"
  BY DEF E!Levels
<1>2. \A n \in 1 .. 3 : \A m \in 1 .. 3 : E!Levels[m] = E!Levels[n] => m = n
  BY <1>1
<1>3. \A n \in 1 .. 3 : E!Rank(E!Levels[n]) = n
  BY <1>1, <1>2 DEF E!Rank
<1>. QED BY <1>1, <1>3 DEF E!ToSet

\* The texts of an example.
TextsOf(e) == E!ToSet(e.summary) \cup E!ToSet(e.candidate) \cup E!ToSet(e.corrected)

\* A text that is redacted is there after it if it was there before.
LEMMA RedactedOption ==
  ASSUME NEW option \in E!Optional(Bodies)
  PROVE  E!ToSet(E!Redacted(option)) \subseteq E!Redactions
<1>1. DOMAIN E!Redacted(option) = DOMAIN option
        /\ \A i \in DOMAIN option : option[i] \in Bodies
                                    /\ E!Redacted(option)[i] = E!RedactText(option[i])
  BY DEF E!Redacted, E!Optional
<1>. QED BY <1>1 DEF E!ToSet, E!Redactions

\* What a level lets a line quote.
LEMMA Quoted ==
  ASSUME NEW text
  PROVE  /\ E!WithinLevel(text, "metadata") <=> text \in Labels
         /\ E!WithinLevel(text, "redacted") <=> text \in Labels \cup E!Redactions
         /\ E!WithinLevel(text, "full")
BY DEF E!WithinLevel

\* What is let through is within the ceiling, and as sensitive as it says.
LEMMA Enforced ==
  ASSUME NEW e \in Derived \cup Authored, NEW ceiling \in {"metadata", "redacted", "full"}
  PROVE  LET f == E!EnforcePrivacy(e, ceiling)
         IN  /\ f.level \in {"metadata", "redacted", "full"}
             /\ E!Rank(f.level) <= E!Rank(ceiling)
             /\ \A text \in TextsOf(f) : E!WithinLevel(text, f.level)
<1>. DEFINE f == E!EnforcePrivacy(e, ceiling)
<1>1. CASE e \in Derived
  <2>1. f = e /\ e.level = "metadata"
    BY <1>1, Ranks DEF E!EnforcePrivacy, Derived
  <2>2. TextsOf(e) \subseteq Labels
    BY <1>1 DEF TextsOf, Derived, E!Optional, E!ToSet
  <2>. QED BY <2>1, <2>2, Ranks, Quoted
<1>2. CASE e \in Authored /\ ceiling = "full"
  <2>1. f = e /\ e.level = "full"
    BY <1>2, Ranks DEF E!EnforcePrivacy, Authored
  <2>. QED BY <1>2, <2>1, Ranks, Quoted
<1>3. CASE e \in Authored /\ ceiling = "redacted"
  <2>1. f = [e EXCEPT !.candidate = E!Redacted(@), !.corrected = E!Redacted(@),
                      !.summary = E!Redacted(@), !.level = "redacted"]
    BY <1>3, Ranks DEF E!EnforcePrivacy, Authored
  <2>2. /\ f.level = "redacted" /\ f.summary = E!Redacted(e.summary)
        /\ f.candidate = E!Redacted(e.candidate) /\ f.corrected = E!Redacted(e.corrected)
    BY <1>3, <2>1 DEF Authored
  <2>3. TextsOf(f) \subseteq E!Redactions
    BY <1>3, <2>2, RedactedOption DEF TextsOf, Authored
  <2>4. \A text \in TextsOf(f) : E!WithinLevel(text, f.level)
    BY <2>2, <2>3, Quoted
  <2>. QED BY <1>3, <2>2, <2>4, Ranks
<1>4. CASE e \in Authored /\ ceiling = "metadata"
  <2>1. f = [e EXCEPT !.candidate = <<>>, !.corrected = <<>>, !.summary = <<>>,
                      !.level = "metadata"]
    BY <1>4, Ranks DEF E!EnforcePrivacy, Authored
  <2>2. f.level = "metadata" /\ f.summary = <<>> /\ f.candidate = <<>> /\ f.corrected = <<>>
    BY <1>4, <2>1 DEF Authored
  <2>3. TextsOf(f) = {}
    BY <2>2 DEF TextsOf, E!ToSet
  <2>. QED BY <1>4, <2>2, <2>3, Ranks
<1>. QED BY <1>1, <1>2, <1>3, <1>4

\* A line quotes texts of its example, and says the example's level.
LEMMA LinesQuote ==
  ASSUME NEW e, NEW view \in E!Views
  PROVE  /\ \A n \in DOMAIN E!LineOf(view, e) :
              /\ E!LineOf(view, e)[n].level = e.level
              /\ E!LineOf(view, e)[n].context \cup E!LineOf(view, e)[n].outputs \subseteq TextsOf(e)
         /\ E!LineOf(view, e) # <<>> => 1 \in DOMAIN E!LineOf(view, e)
                                        /\ Head(E!LineOf(view, e)) = E!LineOf(view, e)[1]
<1>1. ASSUME NEW outputs, UNION {E!ToSet(o) : o \in outputs} \subseteq TextsOf(e)
      PROVE  /\ E!Line(e, outputs).level = e.level
             /\ E!Line(e, outputs).context \cup E!Line(e, outputs).outputs \subseteq TextsOf(e)
  BY <1>1 DEF E!Line, TextsOf
<1>2. E!ToSet(E!TargetOutput(e)) \subseteq TextsOf(e)
  BY DEF E!TargetOutput, TextsOf
<1>3. \E outputs : /\ UNION {E!ToSet(o) : o \in outputs} \subseteq TextsOf(e)
                   /\ E!LineOf(view, e) \in {<<>>, <<E!Line(e, outputs)>>}
  <2>1. CASE view = "sft"
    <3>1. UNION {E!ToSet(o) : o \in {E!TargetOutput(e)}} \subseteq TextsOf(e)
      BY <1>2
    <3>2. E!LineOf(view, e) \in {<<>>, <<E!Line(e, {E!TargetOutput(e)})>>}
      BY <2>1 DEF E!LineOf, E!SftLine
    <3>. QED BY <3>1, <3>2
  <2>2. CASE view = "preference"
    <3>1. UNION {E!ToSet(o) : o \in {e.corrected, e.candidate}} \subseteq TextsOf(e)
      BY DEF TextsOf
    <3>2. E!LineOf(view, e) \in {<<>>, <<E!Line(e, {e.corrected, e.candidate})>>}
      BY <2>2 DEF E!LineOf, E!PreferenceLine
    <3>. QED BY <3>1, <3>2
  <2>3. CASE view = "evaluation"
    <3>1. UNION {E!ToSet(o) : o \in {E!TargetOutput(e)}} \subseteq TextsOf(e)
      BY <1>2
    <3>2. E!LineOf(view, e) \in {<<>>, <<E!Line(e, {E!TargetOutput(e)})>>}
      BY <2>3 DEF E!LineOf, E!EvaluationLine
    <3>. QED BY <3>1, <3>2
  <2>4. CASE view = "safety_counterexample"
    <3>1. UNION {E!ToSet(o) : o \in {e.candidate}} \subseteq TextsOf(e)
      BY DEF TextsOf
    <3>2. E!LineOf(view, e) \in {<<>>, <<E!Line(e, {e.candidate})>>}
      BY <2>4 DEF E!LineOf, E!SafetyLine
    <3>. QED BY <3>1, <3>2
  <2>. QED BY <2>1, <2>2, <2>3, <2>4 DEF E!Views
<1>4. PICK outputs : /\ UNION {E!ToSet(o) : o \in outputs} \subseteq TextsOf(e)
                     /\ E!LineOf(view, e) \in {<<>>, <<E!Line(e, outputs)>>}
  BY <1>3
<1>5. /\ E!Line(e, outputs).level = e.level
      /\ E!Line(e, outputs).context \cup E!Line(e, outputs).outputs \subseteq TextsOf(e)
  BY <1>1, <1>4
<1>. DEFINE line == E!Line(e, outputs)
            lines == E!LineOf(view, e)
<1>6. lines = <<>> \/ lines = <<line>>
  BY <1>4
<1>. HIDE DEF line, lines
<1>7. lines = <<line>> => DOMAIN lines = {1} /\ lines[1] = line /\ Head(lines) = line
  OBVIOUS
<1>8. lines = <<>> => DOMAIN lines = {}
  OBVIOUS
<1>. QED BY <1>5, <1>6, <1>7, <1>8 DEF line, lines

\* What is selected has its line.
LEMMA SelectedHasLine ==
  ASSUME NEW e, NEW view \in E!Views, NEW split, E!SelectFor(view, e, split)
  PROVE  E!LineOf(view, e) # <<>>
<1>1. CASE view = "sft"
  BY <1>1 DEF E!SelectFor, E!IsSftEligible, E!LineOf, E!SftLine
<1>2. CASE view = "preference"
  BY <1>2 DEF E!SelectFor, E!IsPreferenceEligible, E!LineOf, E!PreferenceLine
<1>3. CASE view = "evaluation"
  BY <1>3 DEF E!LineOf, E!EvaluationLine
<1>4. CASE view = "safety_counterexample"
  BY <1>4 DEF E!LineOf, E!SafetyLine
<1>. QED BY <1>1, <1>2, <1>3, <1>4 DEF E!Views

\* The greatest of some ranks.
LEMMA GreatestRank ==
  ASSUME NEW S \in SUBSET (1 .. 3)
  PROVE  /\ E!Max(S \cup {1}) \in S \cup {1}
         /\ \A n \in S : n <= E!Max(S \cup {1})
<1>1. \E x \in S \cup {1} : \A y \in S \cup {1} : x >= y
  <2>1. CASE 3 \in S
    BY <2>1
  <2>2. CASE 3 \notin S /\ 2 \in S
    BY <2>2
  <2>3. CASE 3 \notin S /\ 2 \notin S
    BY <2>3
  <2>. QED BY <2>1, <2>2, <2>3
<1>2. E!Max(S \cup {1}) \in S \cup {1}
        /\ \A y \in S \cup {1} : E!Max(S \cup {1}) >= y
  BY <1>1 DEF E!Max
<1>. QED BY <1>2

\* The dataset: what was collected, each example reduced, at the places that
\* were selected.
LEMMA Built ==
  ASSUME exported \in Seq(Collected), NEW view \in E!Views,
         NEW ceiling \in {"metadata", "redacted", "full"}
  PROVE  LET plan == E!BuildDataset(view, ceiling, exported)
             Reduced(i) == E!EnforcePrivacy(exported[i].example, ceiling)
             places == DOMAIN plan.examples
         IN  /\ plan.view = view
             /\ places \subseteq DOMAIN exported
             /\ \A i \in places : /\ plan.examples[i] = Reduced(i)
                                  /\ E!SelectFor(view, Reduced(i), exported[i].split)
             /\ plan.positive + plan.negative = E!Cardinality(places)
             /\ plan.level \in {"metadata", "redacted", "full"}
             /\ E!Rank(plan.level) <= E!Rank(ceiling)
             /\ \A i \in places : E!Rank(plan.examples[i].level) <= E!Rank(plan.level)
<1>. DEFINE plan == E!BuildDataset(view, ceiling, exported)
            Reduced(i) == E!EnforcePrivacy(exported[i].example, ceiling)
            places == {i \in DOMAIN exported : E!SelectFor(view, Reduced(i), exported[i].split)}
            selected == E!Selected(view, ceiling, exported)
            positives == {i \in DOMAIN selected : selected[i].example.label \in E!Positive}
            ranks == {E!Rank(selected[i].example.level) : i \in DOMAIN selected}
<1>1. /\ DOMAIN exported = 1 .. Len(exported) /\ Len(exported) \in Nat
      /\ \A i \in DOMAIN exported : exported[i] \in Collected
  OBVIOUS
<1>2. \A i \in DOMAIN exported : exported[i].example \in Derived \cup Authored
  BY <1>1 DEF Collected
<1>3. DOMAIN selected = places /\ \A i \in places : selected[i].example = Reduced(i)
  <2>. DEFINE enforced == [i \in DOMAIN exported |->
                             [exported[i] EXCEPT !.example = E!EnforcePrivacy(@, ceiling)]]
  <2>1. \A i \in DOMAIN exported : enforced[i].example = Reduced(i)
                                   /\ enforced[i].split = exported[i].split
    BY <1>1 DEF Collected
  <2>2. selected = [i \in {i \in DOMAIN enforced :
                             E!SelectFor(view, enforced[i].example, enforced[i].split)}
                      |-> enforced[i]]
    BY DEF E!Selected, E!Restrict
  <2>3. DOMAIN enforced = DOMAIN exported
    OBVIOUS
  <2>. HIDE DEF enforced, Reduced
  <2>. QED BY <2>1, <2>2, <2>3
<1>4. /\ plan.view = view
      /\ plan.examples = [i \in DOMAIN selected |-> selected[i].example]
      /\ plan.positive = E!Cardinality(positives)
      /\ plan.negative = E!Cardinality(DOMAIN selected \ positives)
      /\ plan.level = E!Levels[E!Max(ranks \cup {1})]
  <2>1. plan = [view       |-> view,
                examples   |-> [i \in DOMAIN selected |-> selected[i].example],
                positive   |-> E!Cardinality(positives),
                negative   |-> E!Cardinality(DOMAIN selected \ positives),
                validation |-> E!Cardinality({i \in DOMAIN selected : selected[i].split = "validation"}),
                test       |-> E!Cardinality({i \in DOMAIN selected : selected[i].split = "test"}),
                level      |-> E!Levels[E!Max(ranks \cup {1})]]
    BY Zenon DEF E!BuildDataset
  <2>. HIDE DEF plan, selected, positives, ranks
  <2>. QED BY <2>1
<1>. HIDE DEF plan, selected
<1>5. DOMAIN plan.examples = places /\ \A i \in places : plan.examples[i] = Reduced(i)
  BY <1>3, <1>4
<1>6. plan.positive + plan.negative = E!Cardinality(places)
  <2>1. IsFiniteSet(places)
    <3>1. IsFiniteSet(1 .. Len(exported))
      BY <1>1, FS_Interval
    <3>. QED BY <1>1, <3>1, FS_Subset
  <2>2. positives \subseteq places
    BY <1>3
  <2>3. IsFiniteSet(positives) /\ IsFiniteSet(places \ positives)
    BY <2>1, <2>2, FS_Subset
  <2>4. positives \cup (places \ positives) = places /\ positives \cap (places \ positives) = {}
    BY <2>2
  <2>. HIDE DEF positives, places
  <2>5. Cardinality(places) = Cardinality(positives) + Cardinality(places \ positives)
                                - Cardinality({})
    BY <2>3, <2>4, FS_Union
  <2>6. Cardinality({}) = 0 /\ Cardinality(positives) \in Nat /\ Cardinality(places \ positives) \in Nat
    BY <2>3, FS_EmptySet, FS_CardinalityType
  <2>. QED BY <1>3, <1>4, <2>5, <2>6, SameSize
<1>7. \A i \in places : /\ Reduced(i).level \in {"metadata", "redacted", "full"}
                        /\ E!Rank(Reduced(i).level) <= E!Rank(ceiling)
  BY <1>2, Enforced
<1>8. ranks \in SUBSET (1 .. 3) /\ \A n \in ranks : n <= E!Rank(ceiling)
  <2>1. \A i \in DOMAIN selected : /\ E!Rank(selected[i].example.level) \in 1 .. 3
                                   /\ E!Rank(selected[i].example.level) <= E!Rank(ceiling)
    BY <1>3, <1>7, Ranks
  <2>. QED BY <2>1
<1>9. E!Max(ranks \cup {1}) \in 1 .. 3 /\ E!Max(ranks \cup {1}) <= E!Rank(ceiling)
        /\ \A n \in ranks : n <= E!Max(ranks \cup {1})
  <2>1. E!Rank(ceiling) \in 1 .. 3
    BY Ranks
  <2>. HIDE DEF ranks
  <2>2. E!Max(ranks \cup {1}) \in ranks \cup {1} /\ \A n \in ranks : n <= E!Max(ranks \cup {1})
    BY <1>8, GreatestRank
  <2>3. \A n \in ranks \cup {1} : n \in 1 .. 3 /\ n <= E!Rank(ceiling)
    BY <1>8, <2>1
  <2>. QED BY <2>2, <2>3
<1>10. E!Rank(plan.level) = E!Max(ranks \cup {1})
         /\ plan.level \in {"metadata", "redacted", "full"}
  <2>. HIDE DEF ranks
  <2>1. \A n \in 1 .. 3 : E!Levels[n] \in {"metadata", "redacted", "full"}
    BY DEF E!Levels
  <2>. QED BY <1>4, <1>9, <2>1, Ranks
<1>11. \A i \in places : E!Rank(plan.examples[i].level) <= E!Rank(plan.level)
  <2>1. \A i \in places : E!Rank(plan.examples[i].level) \in ranks
    BY <1>3, <1>5
  <2>. HIDE DEF ranks
  <2>. QED BY <1>9, <1>10, <2>1
<1>. HIDE DEF Reduced
<1>12. E!Rank(plan.level) <= E!Rank(ceiling)
  BY <1>9, <1>10
<1>. QED BY <1>4, <1>5, <1>6, <1>10, <1>11, <1>12 DEF plan, Reduced

\* A line, and what a trainer outside is given, is no more sensitive than it
\* says: labels in metadata, redactions of bodies in what is redacted, both
\* within the ceiling of the request and within what the dataset declares; and
\* the dataset counts the lines that are rendered (enforce_privacy,
\* build_dataset, lines_for).
THEOREM ExportsAreAlwaysAsDeclared == MCSpec => []ExportIsAsDeclared
<1>1. ExportInv => E!ExportIsAsDeclared
  <2>. SUFFICES ASSUME exported \in Seq(Collected), NEW view \in E!Views,
                       NEW ceiling \in E!ToSet(E!Levels)
                PROVE  LET plan  == E!BuildDataset(view, ceiling, exported)
                           lines == E!LinesFor(plan)
                           given == E!ExternalSpec(plan)
                       IN  /\ E!Cardinality(DOMAIN lines) = plan.positive + plan.negative
                           /\ E!Rank(plan.level) <= E!Rank(ceiling)
                           /\ \A line \in E!Range(lines) \cup E!Range(given) :
                                /\ E!LineIsHonest(line)
                                /\ E!Rank(line.level) <= E!Rank(plan.level)
                                /\ E!CeilingAllowed(ceiling, FALSE) => line.level # "full"
    BY Zenon DEF E!ExportIsAsDeclared, ExportInv
  <2>0. ceiling \in {"metadata", "redacted", "full"}
    BY Ranks
  <2>. DEFINE plan  == E!BuildDataset(view, ceiling, exported)
              lines == E!LinesFor(plan)
              given == E!ExternalSpec(plan)
              places == DOMAIN plan.examples
              Of(i) == plan.examples[i]
  <2>1. /\ plan.view = view
        /\ plan.positive + plan.negative = E!Cardinality(places)
        /\ plan.level \in {"metadata", "redacted", "full"}
        /\ E!Rank(plan.level) <= E!Rank(ceiling)
        /\ \A i \in places : E!Rank(Of(i).level) <= E!Rank(plan.level)
    BY <2>0, Built
  <2>2. \A i \in places : E!LineOf(view, Of(i)) # <<>>
    <3>1. \A i \in places :
            /\ Of(i) = E!EnforcePrivacy(exported[i].example, ceiling)
            /\ E!SelectFor(view, E!EnforcePrivacy(exported[i].example, ceiling), exported[i].split)
      BY <2>0, Built
    <3>. QED BY <3>1, SelectedHasLine
  <2>3. \A i \in places :
          /\ Of(i).level \in {"metadata", "redacted", "full"}
          /\ \A text \in TextsOf(Of(i)) : E!WithinLevel(text, Of(i).level)
    <3>1. \A i \in places : /\ exported[i].example \in Derived \cup Authored
                            /\ Of(i) = E!EnforcePrivacy(exported[i].example, ceiling)
      <4>1. /\ places \subseteq DOMAIN exported
            /\ \A i \in places : Of(i) = E!EnforcePrivacy(exported[i].example, ceiling)
        BY <2>0, Built
      <4>2. \A i \in DOMAIN exported : exported[i] \in Collected
        OBVIOUS
      <4>. QED BY <4>1, <4>2 DEF Collected
    <3>. QED BY <2>0, <3>1, Enforced
  <2>. HIDE DEF plan
  <2>4. DOMAIN lines = places /\ \A i \in places : lines[i] = Head(E!LineOf(view, Of(i)))
    BY <2>1, <2>2 DEF E!LinesFor
  <2>5. DOMAIN given = places
          /\ \A i \in places : given[i] = E!Line(Of(i), {Of(i).candidate, Of(i).corrected})
    BY DEF E!ExternalSpec
  <2>6. \A line \in E!Range(lines) \cup E!Range(given) :
          \E i \in places : line.level = Of(i).level
                            /\ line.context \cup line.outputs \subseteq TextsOf(Of(i))
    <3>1. \A i \in places : /\ lines[i].level = Of(i).level
                            /\ lines[i].context \cup lines[i].outputs \subseteq TextsOf(Of(i))
      BY <2>2, <2>4, LinesQuote
    <3>2. \A i \in places : /\ given[i].level = Of(i).level
                            /\ given[i].context \cup given[i].outputs \subseteq TextsOf(Of(i))
      <4>1. ASSUME NEW e
            PROVE  LET line == E!Line(e, {e.candidate, e.corrected})
                   IN  line.level = e.level /\ line.context \cup line.outputs \subseteq TextsOf(e)
        BY DEF E!Line, TextsOf
      <4>. QED BY <2>5, <4>1
    <3>. HIDE DEF lines, given
    <3>. QED BY <2>4, <2>5, <3>1, <3>2 DEF E!Range
  <2>7. ASSUME NEW line \in E!Range(lines) \cup E!Range(given)
        PROVE  /\ E!LineIsHonest(line)
               /\ E!Rank(line.level) <= E!Rank(plan.level)
               /\ E!CeilingAllowed(ceiling, FALSE) => line.level # "full"
    <3>1. PICK i \in places : line.level = Of(i).level
                              /\ line.context \cup line.outputs \subseteq TextsOf(Of(i))
      BY <2>6
    <3>2. E!LineIsHonest(line)
      BY <2>3, <3>1 DEF E!LineIsHonest
    <3>3. E!Rank(line.level) <= E!Rank(plan.level)
      BY <2>1, <3>1
    <3>4. ceiling # "full" => line.level # "full"
      BY <2>0, <2>1, <3>3, Ranks
    <3>. QED BY <3>2, <3>3, <3>4 DEF E!CeilingAllowed
  <2>. QED BY <2>1, <2>4, <2>7 DEF plan
<1>. QED BY <1>1, CollectedOnly, PTL DEF ExportIsAsDeclared
===============================================================================

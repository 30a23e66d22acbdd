------------------------------- MODULE Training -------------------------------
(***************************************************************************)
(* The training pipeline: derive examples from the feedback tables, split  *)
(* them, train a candidate adapter, evaluate it on the held-out examples   *)
(* and let the gate decide its status.  Every call to storage or to a      *)
(* backend may fail and the host may stop between any two, so what a run   *)
(* has written so far is what remains of it.  Runs may overlap.            *)
(*                                                                         *)
(* A run writes records under fresh ids: they are known by their run.  The *)
(* live kinds of feedback give examples without a body, so no ceiling      *)
(* changes one; requests that are refused before the first read are not    *)
(* runs.                                                                   *)
(***************************************************************************)
EXTENDS Integers, FiniteSets, Sequences

CONSTANTS
  Runs,                   \* requests the user makes
  Request,                \* objective, tasks and promotion policy of each
  Rows, TaskOf, SplitOf,  \* feedback rows that may come to be, their table and bucket
  Overridden,             \* rows in which the AI had answered something else
  Loras                   \* objectives for which the backend makes a LoRA adapter

Tasks  == {"classification", "filing", "rule_proposal"}
Splits == {"train", "validation", "test", "holdout"}
Requests == [objective : {"sft", "preference"}, tasks : SUBSET Tasks,
             minQuality : 0 .. 100, maxFailures : Nat, requireCompatible : BOOLEAN]

ASSUME TrainingAssumption ==
  /\ Request \in [Runs -> Requests]
  /\ TaskOf \in [Rows -> Tasks] /\ SplitOf \in [Rows -> Splits]
  /\ Overridden \subseteq {r \in Rows : TaskOf[r] # "rule_proposal"}
  /\ Loras \subseteq {"sft", "preference"}

VARIABLES
  rows,        \* the feedback captured so far
  pc,          \* per run: the call it is about to make
  tables,      \* tables it has yet to read
  examples,    \* rows it has read
  training,    \* training_datasets: the view it trains on, if stored
  evaluation,  \* training_datasets: the view it evaluates on, if stored
  metrics,     \* what the evaluation found
  evalRun,     \* lora_eval_runs: approved or refused
  adapter      \* lora_adapters: the status

vars == <<rows, pc, tables, examples, training, evaluation, metrics, evalRun, adapter>>

NoMetrics == [failures |-> 0, correct |-> 0, compatible |-> FALSE]

Init ==
  /\ rows = {}
  /\ pc = [r \in Runs |-> "start"]
  /\ tables = [r \in Runs |-> <<>>]
  /\ examples = [r \in Runs |-> {}]
  /\ training = [r \in Runs |-> {}] /\ evaluation = [r \in Runs |-> {}]
  /\ metrics = [r \in Runs |-> NoMetrics]
  /\ evalRun = [r \in Runs |-> "none"]
  /\ adapter = [r \in Runs |-> "none"]

Goto(r, from, to) == pc[r] = from /\ pc' = [pc EXCEPT ![r] = to]

-----------------------------------------------------------------------------
(* The views.                                                              *)

\* A correction counts as positive: the human's choice is what to imitate.
HasTarget(row)   == TaskOf[row] # "rule_proposal"
SftEligible(row) == HasTarget(row)
InTraining(row)  == SplitOf[row] \in {"train", "validation"}

TrainingView(objective, read) ==
  {row \in read : InTraining(row) /\
     IF objective = "sft" THEN SftEligible(row) ELSE row \in Overridden}

\* Mutant: what gives no preference pair is held out.
NoPairs(read) == {row \in read : ~(InTraining(row) /\ row \in Overridden)}

EvaluationView(read) == {row \in read : ~InTraining(row)}

-----------------------------------------------------------------------------
(* The steps of DefaultTrainingPipeline::run, each up to its call.         *)

\* A correction is captured.
Captured(row) ==
  /\ row \notin rows
  /\ rows' = rows \cup {row}
  /\ UNCHANGED <<pc, tables, examples, training, evaluation, metrics, evalRun, adapter>>

Wanted(r) == LET Includes(task) == Request[r].tasks = {} \/ task \in Request[r].tasks
             IN  SelectSeq(<<"classification", "filing", "rule_proposal">>, Includes)

Start(r) ==
  /\ Goto(r, "start", "collect")
  /\ tables' = [tables EXCEPT ![r] = Wanted(r)]
  /\ UNCHANGED <<rows, examples, training, evaluation, metrics, evalRun, adapter>>

\* One table per call: rows may be added between two.
Collect(r) ==
  /\ tables[r] # <<>>
  /\ Goto(r, "collect", IF Tail(tables[r]) = <<>> THEN "datasets" ELSE "collect")
  /\ examples' = [examples EXCEPT ![r] = @ \cup {row \in rows : TaskOf[row] = Head(tables[r])}]
  /\ tables' = [tables EXCEPT ![r] = Tail(@)]
  /\ UNCHANGED <<rows, training, evaluation, metrics, evalRun, adapter>>

\* Nothing to train on is an error; nothing to evaluate on is not.
SaveTraining(r) ==
  LET view == TrainingView(Request[r].objective, examples[r])
  IN  /\ view # {}
      /\ Goto(r, "datasets", "evalset")
      /\ training' = [training EXCEPT ![r] = view]
      /\ UNCHANGED <<rows, tables, examples, evaluation, metrics, evalRun, adapter>>

SaveEvaluation(r) ==
  /\ Goto(r, "evalset", "train")
  /\ evaluation' = [evaluation EXCEPT ![r] = EvaluationView(examples[r])]
  /\ UNCHANGED <<rows, tables, examples, training, metrics, evalRun, adapter>>

\* The backend refuses a job it cannot run.  Of the hashes the verdict on
\* compatibility needs it may know none.
Train(r) ==
  /\ Request[r].objective \in Loras
  /\ Goto(r, "train", "register")
  /\ \E known \in BOOLEAN : metrics' = [metrics EXCEPT ![r] = [NoMetrics EXCEPT !.compatible = known]]
  /\ UNCHANGED <<rows, tables, examples, training, evaluation, evalRun, adapter>>

\* Registered before it is evaluated.
Register(r) ==
  /\ Goto(r, "register", "evaluate")
  /\ adapter' = [adapter EXCEPT ![r] = "candidate"]
  /\ UNCHANGED <<rows, tables, examples, training, evaluation, metrics, evalRun>>

Scored(r) == {row \in evaluation[r] : HasTarget(row)}

Evaluate(r) ==
  /\ Goto(r, "evaluate", "record")
  /\ \E failures \in 0 .. Cardinality(evaluation[r]), correct \in 0 .. Cardinality(Scored(r)) :
       metrics' = [metrics EXCEPT ![r] =
                     [failures |-> failures, correct |-> correct, compatible |-> @.compatible]]
  /\ UNCHANGED <<rows, tables, examples, training, evaluation, evalRun, adapter>>

\* quality_score >= min_quality_score, the score being the accuracy (1 when
\* nothing can be scored) times the share of safe answers; 0 on an empty set.
QualityReached(r) ==
  LET n == Cardinality(evaluation[r])
      scored == Cardinality(Scored(r))
      safe == n - metrics[r].failures
      min == Request[r].minQuality
  IN  IF n = 0 THEN min = 0
      ELSE IF scored = 0 THEN 100 * safe >= min * n
      ELSE 100 * metrics[r].correct * safe >= min * scored * n

Promote(r) ==
  /\ metrics[r].failures <= Request[r].maxFailures
  /\ QualityReached(r)
  /\ Request[r].requireCompatible => metrics[r].compatible

\* Mutant: the status is set before the run is recorded.
StatusFirst(r) ==
  /\ Goto(r, "record", "done")
  /\ adapter' = [adapter EXCEPT ![r] = IF Promote(r) THEN "active" ELSE "failed_eval"]
  /\ UNCHANGED <<rows, tables, examples, training, evaluation, metrics, evalRun>>

RecordRun(r) ==
  /\ Goto(r, "record", "status")
  /\ evalRun' = [evalRun EXCEPT ![r] = IF Promote(r) THEN "approved" ELSE "refused"]
  /\ UNCHANGED <<rows, tables, examples, training, evaluation, metrics, adapter>>

SetStatus(r) ==
  /\ Goto(r, "status", "done")
  /\ adapter' = [adapter EXCEPT ![r] = IF evalRun[r] = "approved" THEN "active" ELSE "failed_eval"]
  /\ UNCHANGED <<rows, tables, examples, training, evaluation, metrics, evalRun>>

\* The call fails, or the host stops: nothing is undone and nothing resumed.
Fail(r) ==
  /\ pc[r] \notin {"start", "done"}
  /\ pc' = [pc EXCEPT ![r] = "done"]
  /\ UNCHANGED <<rows, tables, examples, training, evaluation, metrics, evalRun, adapter>>

Next ==
  \/ \E row \in Rows : Captured(row)
  \/ \E r \in Runs :
       \/ Start(r) \/ Collect(r) \/ SaveTraining(r) \/ SaveEvaluation(r) \/ Train(r)
       \/ Register(r) \/ Evaluate(r) \/ RecordRun(r) \/ SetStatus(r) \/ Fail(r)

Spec == Init /\ [][Next]_vars

-----------------------------------------------------------------------------
(* Properties.                                                             *)

\* Wherever a run was cut short, an adapter that may serve has an evaluation
\* run that approved it: within the limit of safety failures, confirmed
\* compatible where that is asked, and with at least one held-out example
\* behind a minimum quality above zero (DefaultTrainingPipeline::run).
ActiveWasApproved ==
  \A r \in Runs : adapter[r] = "active" =>
    /\ evalRun[r] = "approved"
    /\ metrics[r].failures <= Request[r].maxFailures
    /\ Request[r].requireCompatible => metrics[r].compatible
    /\ Request[r].minQuality > 0 => evaluation[r] # {}

\* No example one run trains on is one that any run, earlier, later or at the
\* same time, evaluates on, though the tables grow between them: the split
\* belongs to the row (assign_split, select_for).
HoldoutIsNeverTrained ==
  \A r, s \in Runs : training[r] \cap evaluation[s] = {}
===============================================================================

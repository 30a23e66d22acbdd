--------------------------- MODULE LearningProofs ---------------------------
(***************************************************************************)
(* Theorems about Learning, for any domains, folders, labels, imported     *)
(* rules, thresholds and promotion bar, and about Curation, for any        *)
(* providers, answers, requests and clashing drafts.                       *)
(***************************************************************************)
EXTENDS MCLearning, SequenceTheorems, FiniteSetTheorems, TLAPS

-----------------------------------------------------------------------------
(* Candidates at the promotion bar *)

RowsFinite == IsFiniteSet(rows)

LEMMA RowsInit == Init => RowsFinite
  BY FS_EmptySet DEF Init, RowsFinite

LEMMA CaptureKeeps ==
  ASSUME RowsFinite, NEW row, NEW teaches, Capture(row, teaches)
  PROVE  RowsFinite'
  BY FS_AddElement DEF RowsFinite, Capture

LEMMA RowsNext == RowsFinite /\ [Next]_vars => RowsFinite'
<1>. SUFFICES ASSUME RowsFinite, [Next]_vars PROVE RowsFinite'
  OBVIOUS
<1>1. CASE Correction
  BY <1>1, CaptureKeeps DEF Correction, MarkSpamAxis, CorrectLabel, LearnFiling
<1>2. CASE UNCHANGED rows
  BY <1>2 DEF RowsFinite
<1>3. \/ Correction \/ UNCHANGED rows
  BY DEF Next, Teach, Relaunch, StartPass, Propose, NextSource, JobFails, Activate, Retire,
         StartScan, NextScope, RecordConflict, EndScan, vars
<1>. QED BY <1>1, <1>2, <1>3

\* Rows of two kinds are counted apart.
LEMMA CountsApart ==
  ASSUME RowsFinite, NEW A, NEW B, NEW S, A \subseteq S, B \subseteq S, A \cap B = {}
  PROVE  /\ Count(A) \in Nat /\ Count(B) \in Nat /\ Count(S) \in Nat
         /\ Count(A) + Count(B) <= Count(S)
<1> DEFINE Of(set) == {r \in rows : r.is \in set}
<1>1. \A set : IsFiniteSet(Of(set)) /\ Cardinality(Of(set)) \in Nat
  BY FS_Subset, FS_CardinalityType DEF RowsFinite
<1>2. Of(A) \cap Of(B) = {} /\ Of(A) \cup Of(B) \subseteq Of(S)
  OBVIOUS
<1>3. Cardinality(Of(A) \cup Of(B)) = Cardinality(Of(A)) + Cardinality(Of(B))
  <2>. HIDE DEF Of
  <2>1. Cardinality(Of(A) \cap Of(B)) = 0
    BY <1>2, FS_EmptySet
  <2>2. Cardinality(Of(A) \cup Of(B)) = Cardinality(Of(A)) + Cardinality(Of(B)) - Cardinality(Of(A) \cap Of(B))
    BY <1>1, FS_Union
  <2>. QED BY <1>1, <2>1, <2>2
<1>4. Cardinality(Of(A) \cup Of(B)) <= Cardinality(Of(S))
  <2>. HIDE DEF Of
  <2>. QED BY <1>1, <1>2, FS_Subset
<1>5. \A set : Count(set) = Cardinality(Of(set))
  BY DEF Count
<1>. HIDE DEF Of
<1>. QED BY <1>1, <1>3, <1>4, <1>5

\* A share of more than half, twice, is more than there is.
LEMMA TwoMajorities ==
  ASSUME NEW a \in Nat, NEW b \in Nat, NEW all \in Nat, a + b <= all, all > 0,
         NEW bar \in 51 .. 100, 100 * a >= bar * all
  PROVE  ~(100 * b >= bar * all)
<1>1. bar * all >= 51 * all
  <2>1. PICK k \in Nat : bar = 51 + k
    <3>1. bar - 51 \in Nat /\ bar = 51 + (bar - 51)
      OBVIOUS
    <3>. QED BY <3>1
  <2>2. bar * all = 51 * all + k * all
    BY <2>1
  <2>3. k * all \in Nat
    OBVIOUS
  <2>. QED BY <2>2, <2>3
<1>. QED BY <1>1

\* Of two proposed moves of a domain to different folders at most one clears
\* the bar, whatever corrections came in whatever order: back_test counts a
\* user's move for one of them at most, and the bar is above one half.
THEOREM HistoryVouchesForOne == Spec => []ContradictingCandidatesCannotBothClear
<1>1. RowsFinite => ContradictingCandidatesCannotBothClear
  <2>. SUFFICES ASSUME RowsFinite, NEW p, NEW q, p.domain = q.domain, p.choice # q.choice,
                       Eligible(p)
                PROVE  ~Eligible(q)
    BY DEF ContradictingCandidatesCannotBothClear
  <2> DEFINE S == {row \in FilingRows : row.domain = p.domain}
             A == {row \in FilingRows : row.domain = p.domain /\ row.choice = p.choice}
             B == {row \in FilingRows : row.domain = p.domain /\ row.choice = q.choice}
  <2>1. A \subseteq S /\ B \subseteq S /\ A \cap B = {}
    OBVIOUS
  <2>2. /\ Correct(p) = Count(A) /\ Correct(q) = Count(B)
        /\ Fires(p) = Count(S) /\ Fires(q) = Count(S)
    BY DEF Correct, Fires
  <2>. HIDE DEF S, A, B
  <2>3. /\ Correct(p) \in Nat /\ Correct(q) \in Nat /\ Fires(p) \in Nat
        /\ Correct(p) + Correct(q) <= Fires(p) /\ Fires(q) = Fires(p)
    BY <2>1, <2>2, CountsApart
  <2>4. Fires(p) > 0 /\ 100 * Correct(p) >= Bar * Fires(p) /\ Bar \in 51 .. 100
    BY LearningAssumption DEF Eligible
  <2>5. ~(100 * Correct(q) >= Bar * Fires(p))
    BY <2>3, <2>4, TwoMajorities
  <2>. QED BY <2>3, <2>5 DEF Eligible
<1>. QED BY <1>1, RowsInit, RowsNext, PTL DEF Spec

-----------------------------------------------------------------------------
(* The scan for contradictions *)

\* The turn of the loop is still to come.
ToCome(turn) == \E n \in DOMAIN job.todo : job.todo[n] = turn

\* The pair is recorded, or will be before the scan ends.
Noticed(a, b) == {a, b} \in conflicts \cup job.left \/ ToCome(a.turn)

\* What a scan has seen to: every pair of the kinds it was asked for whose
\* turn is over.
ScanInv ==
  /\ job = [at |-> job.at, left |-> job.left, todo |-> job.todo, only |-> job.only]
  /\ job.todo \in Seq(Turns)
  /\ steady \subseteq rules /\ rules \subseteq Rules
  /\ job.at = "scan" =>
       \A a, b \in steady :
         job.only \in {None, a.turn.kind} /\ a.turn = b.turn /\ Contradict(a, b) => Noticed(a, b)

\* What is proposed has a pattern.
ProposalsAreOfPatterns == \A p \in proposals : p.pattern \in Patterns

JobIsCited == job.at \in {"filing", "classification"} => \A p \in job.left : p.pattern \in Patterns

LearnInv == ScanInv /\ ProposalsAreOfPatterns /\ JobIsCited

LEMMA JobShape ==
  ASSUME NEW at, NEW left
  PROVE  /\ Job(at, left) = [at |-> at, left |-> left, todo |-> <<>>, only |-> None]
         /\ Job(at, left).at = at /\ Job(at, left).left = left
         /\ Job(at, left).todo = <<>> /\ Job(at, left).only = None
         /\ Job(at, left).todo \in Seq(Turns)
  BY DEF Job

LEMMA ScanInit == Init => LearnInv
<1>. SUFFICES ASSUME Init PROVE LearnInv
  OBVIOUS
<1>1. /\ job = Job("idle", {}) /\ steady = {} /\ rules = {} /\ proposals = {}
  BY DEF Init, Idle
<1>. QED BY <1>1, JobShape DEF LearnInv, ScanInv, ProposalsAreOfPatterns, JobIsCited

\* Two rules of a turn that contradict each other are one of its pairs.
LEMMA PairIsFound ==
  ASSUME NEW turn, NEW a \in rules, NEW b \in rules,
         a.turn = turn, b.turn = turn, Contradict(a, b)
  PROVE  {a, b} \in Contradictions(turn)
<1> DEFINE own == {r \in rules : r.turn = turn}
<1>1. {a, b} \in {{x, y} : x, y \in own} /\ a \in {a, b} /\ b \in {a, b}
  OBVIOUS
<1>. QED BY <1>1 DEF Contradictions, Pairs

LEMMA ScopesAre ==
  /\ DOMAIN AllScopes = 1 .. 5
  /\ \A t \in Turns : \E n \in 1 .. 5 : t = [kind |-> t.kind, scope |-> AllScopes[n]]
  /\ \A kind \in RuleKinds, n \in 1 .. 5 : [kind |-> kind, scope |-> AllScopes[n]] \in Turns
<1>1. DOMAIN AllScopes = 1 .. 5
  BY DEF AllScopes
<1>. QED BY <1>1 DEF Turns

\* The scan has a turn for every scope of every kind it was asked for.
LEMMA SweepIsFull ==
  ASSUME NEW kind \in RuleKinds
  PROVE  /\ Sweep(kind) \in Seq(Turns) /\ Len(Sweep(kind)) = 5
         /\ \A t \in Turns : t.kind = kind => \E n \in 1 .. 5 : Sweep(kind)[n] = t
<1>1. Sweep(kind) = [n \in 1 .. 5 |-> [kind |-> kind, scope |-> AllScopes[n]]]
  BY ScopesAre DEF Sweep
<1>2. Sweep(kind) \in [1 .. 5 -> Turns]
  BY <1>1, ScopesAre
<1>3. Sweep(kind) \in Seq(Turns) /\ Len(Sweep(kind)) = 5
  <2> DEFINE s == Sweep(kind)
  <2>1. s \in Seq(Turns) /\ DOMAIN s = 1 .. 5
    BY <1>2, SeqDef
  <2>. HIDE DEF s
  <2>2. Len(s) \in Nat /\ DOMAIN s = 1 .. Len(s)
    BY <2>1, LenProperties
  <2>3. 5 \in 1 .. Len(s) /\ (Len(s) \in 1 .. Len(s) => Len(s) \in 1 .. 5)
    BY <2>1, <2>2
  <2>4. Len(s) = 5
    BY <2>2, <2>3
  <2>. QED BY <2>1, <2>4 DEF s
<1>4. ASSUME NEW t \in Turns, t.kind = kind
      PROVE  \E n \in 1 .. 5 : Sweep(kind)[n] = t
  BY <1>1, <1>4, ScopesAre
<1>. QED BY <1>3, <1>4

LEMMA LoopIsFull ==
  ASSUME NEW loop, NEW only \in RuleKinds \cup {None},
         loop = IF only = None THEN Sweep("classification") \o Sweep("action") ELSE Sweep(only)
  PROVE  /\ loop \in Seq(Turns)
         /\ \A t \in Turns : only \in {None, t.kind} => \E n \in DOMAIN loop : loop[n] = t
<1>0. {"classification", "action"} = RuleKinds /\ \A t \in Turns : t.kind \in RuleKinds
  BY DEF RuleKinds, Turns
<1>1. CASE only = None
  <2> DEFINE c == Sweep("classification")
             x == Sweep("action")
  <2>1. /\ c \in Seq(Turns) /\ Len(c) = 5 /\ x \in Seq(Turns) /\ Len(x) = 5
        /\ \A t \in Turns : t.kind = "classification" => \E n \in 1 .. 5 : c[n] = t
        /\ \A t \in Turns : t.kind = "action" => \E n \in 1 .. 5 : x[n] = t
    BY <1>0, SweepIsFull
  <2>2. loop = c \o x
    BY <1>1
  <2>. HIDE DEF c, x
  <2>3. /\ loop \in Seq(Turns) /\ DOMAIN loop = 1 .. 10
        /\ \A n \in 1 .. 5 : loop[n] = c[n] /\ loop[n + 5] = x[n]
    <3>1. /\ loop \in Seq(Turns) /\ Len(loop) = 10
          /\ \A n \in 1 .. 10 : loop[n] = IF n <= 5 THEN c[n] ELSE x[n - 5]
      <4>0. Len(c) + Len(x) = 10
        BY <2>1
      <4>1. /\ c \o x \in Seq(Turns) /\ Len(c \o x) = Len(c) + Len(x)
            /\ \A n \in 1 .. Len(c) + Len(x) :
                 (c \o x)[n] = IF n <= Len(c) THEN c[n] ELSE x[n - Len(c)]
        BY <2>1, ConcatProperties, Zenon
      <4>. QED BY <2>1, <2>2, <4>0, <4>1
    <3>2. ASSUME NEW n \in 1 .. 5
          PROVE  loop[n] = c[n] /\ loop[n + 5] = x[n]
      <4>1. n \in 1 .. 10 /\ n <= 5 /\ n + 5 \in 1 .. 10 /\ ~(n + 5 <= 5) /\ (n + 5) - 5 = n
        OBVIOUS
      <4>. QED BY <3>1, <4>1
    <3>. QED BY <3>1, <3>2, LenProperties
  <2>4. ASSUME NEW t \in Turns PROVE \E n \in DOMAIN loop : loop[n] = t
    <3>1. CASE t.kind = "classification"
      <4>1. PICK n \in 1 .. 5 : c[n] = t
        BY <2>1, <3>1
      <4>2. n \in 1 .. 10
        OBVIOUS
      <4>. QED BY <2>3, <4>1, <4>2
    <3>2. CASE t.kind = "action"
      <4>1. PICK n \in 1 .. 5 : x[n] = t
        BY <2>1, <3>2
      <4>2. n + 5 \in 1 .. 10
        OBVIOUS
      <4>. QED BY <2>3, <4>1, <4>2
    <3>. QED BY <1>0, <3>1, <3>2
  <2>. QED BY <2>3, <2>4
<1>2. CASE only # None
  <2>1. only \in RuleKinds /\ loop = Sweep(only)
    BY <1>2
  <2>2. /\ Sweep(only) \in Seq(Turns) /\ Len(Sweep(only)) = 5
        /\ \A t \in Turns : t.kind = only => \E n \in 1 .. 5 : Sweep(only)[n] = t
    BY <2>1, SweepIsFull
  <2>3. /\ loop \in Seq(Turns) /\ DOMAIN loop = 1 .. 5
        /\ \A t \in Turns : t.kind = only => \E n \in 1 .. 5 : loop[n] = t
    BY <2>1, <2>2, LenProperties
  <2>. QED BY <1>2, <2>3
<1>. QED BY <1>1, <1>2

LEMMA CitedPatterns ==
  ASSUME NEW task, NEW p \in Cited(task)
  PROVE  p.pattern \in Patterns
  BY DEF Cited, Earned

\* A rule that is drafted for a pattern has a turn, a domain and an effect.
LEMMA DraftedIsRule ==
  ASSUME NEW p \in Patterns
  PROVE  Drafted(p) \in Rules
<1>1. p.domain \in Domains /\ p.choice \in Folders \cup Labels
  BY DEF Patterns
<1>2. [kind |-> IF p.task = "filing" THEN "action" ELSE "classification",
       scope |-> "domain"] \in Turns
  <2>1. AllScopes[5] = "domain"
    BY DEF AllScopes
  <2>. QED BY <2>1, ScopesAre DEF RuleKinds
<1>. QED BY <1>1, <1>2 DEF Drafted, Rules

LEMMA ScanNext == LearnInv /\ [Next]_vars => LearnInv'
<1>. SUFFICES ASSUME LearnInv, [Next]_vars PROVE LearnInv'
  OBVIOUS
<1>0. ScanInv /\ ProposalsAreOfPatterns /\ JobIsCited
  BY DEF LearnInv
<1>1. CASE UNCHANGED <<proposals, rules, conflicts, job, steady>>
  <2>1. ScanInv'
    BY <1>0, <1>1 DEF ScanInv, Noticed, ToCome, Contradict
  <2>2. ProposalsAreOfPatterns' /\ JobIsCited'
    BY <1>0, <1>1 DEF ProposalsAreOfPatterns, JobIsCited
  <2>. QED BY <2>1, <2>2 DEF LearnInv
<1>2. ASSUME NEW at \in {"idle", "filing", "classification"}, NEW left,
             job' = Job(at, left), at # "idle" => \A p \in left : p.pattern \in Patterns,
             proposals' = proposals, rules' = rules, steady' \subseteq steady
      PROVE  LearnInv'
  <2>1. ScanInv'
    BY <1>0, <1>2, JobShape DEF ScanInv
  <2>2. ProposalsAreOfPatterns' /\ JobIsCited'
    BY <1>0, <1>2, JobShape DEF ProposalsAreOfPatterns, JobIsCited
  <2>. QED BY <2>1, <2>2 DEF LearnInv
<1>3. ASSUME NEW task \in {"filing", "classification"}, StartPass(task) PROVE LearnInv'
  <2>1. /\ job' = Job(task, Cited(task))
        /\ proposals' = proposals /\ rules' = rules /\ steady' = steady
    BY <1>3 DEF StartPass
  <2>. QED BY <1>2, <2>1, CitedPatterns
<1>4. CASE Propose
  <2>1. PICK p \in job.left : /\ proposals' = proposals \cup {p}
                              /\ job' = [job EXCEPT !.left = @ \ {p}]
    BY <1>4 DEF Propose
  <2>2. /\ job' = [at |-> job.at, left |-> job.left \ {p}, todo |-> job.todo, only |-> job.only]
        /\ job.at \in {"filing", "classification"} /\ rules' = rules /\ steady' = steady
    BY <1>0, <1>4, <2>1 DEF Propose, ScanInv
  <2>3. ScanInv'
    BY <1>0, <2>2 DEF ScanInv
  <2>4. ProposalsAreOfPatterns' /\ JobIsCited'
    BY <1>0, <2>1, <2>2 DEF ProposalsAreOfPatterns, JobIsCited
  <2>. QED BY <2>3, <2>4 DEF LearnInv
<1>5. ASSUME NEW both \in BOOLEAN, NextSource(both) PROVE LearnInv'
  <2>1. /\ \/ job' = Job("classification", Cited("classification"))
           \/ job' = Job("idle", {})
        /\ proposals' = proposals /\ rules' = rules /\ steady' = steady
    BY <1>5 DEF NextSource, Idle
  <2>. QED BY <1>2, <2>1, CitedPatterns
<1>6. ASSUME NEW r \in Known, Activate(r) PROVE LearnInv'
  <2>1. r \in Rules
    BY <1>0, <1>6, DraftedIsRule, LearningAssumption DEF Known, ProposalsAreOfPatterns
  <2>2. /\ rules' = rules \cup {r}
        /\ proposals' = proposals /\ conflicts' = conflicts /\ job' = job /\ steady' = steady
    BY <1>6 DEF Activate
  <2>3. ScanInv'
    BY <1>0, <2>1, <2>2 DEF ScanInv, Noticed, ToCome, Contradict
  <2>. QED BY <1>0, <2>2, <2>3 DEF LearnInv, ProposalsAreOfPatterns, JobIsCited
<1>7. ASSUME NEW r \in rules, Retire(r) PROVE LearnInv'
  <2>1. /\ rules' = rules \ {r} /\ steady' = steady \ {r}
        /\ proposals' = proposals /\ conflicts' = conflicts /\ job' = job
    BY <1>7 DEF Retire
  <2>2. ScanInv'
    BY <1>0, <2>1 DEF ScanInv, Noticed, ToCome, Contradict
  <2>. QED BY <1>0, <2>1, <2>2 DEF LearnInv, ProposalsAreOfPatterns, JobIsCited
<1>8. ASSUME NEW only \in RuleKinds \cup {None}, StartScan(only) PROVE LearnInv'
  <2> DEFINE loop == IF only = None THEN Sweep("classification") \o Sweep("action")
                     ELSE Sweep(only)
  <2>1. /\ job' = [at |-> "scan", left |-> {}, only |-> only, todo |-> loop]
        /\ steady' = rules /\ rules' = rules /\ proposals' = proposals
    BY <1>8 DEF StartScan
  <2>2. /\ loop \in Seq(Turns)
        /\ \A t \in Turns : only \in {None, t.kind} => \E n \in DOMAIN loop : loop[n] = t
    BY LoopIsFull
  <2>. HIDE DEF loop
  <2>3. \A a \in rules : a.turn \in Turns
    BY <1>0 DEF ScanInv, Rules
  <2>4. \A a \in rules : only \in {None, a.turn.kind} => ToCome(a.turn)'
    BY <2>1, <2>2, <2>3 DEF ToCome
  <2>5. ScanInv'
    BY <1>0, <2>1, <2>2, <2>4 DEF ScanInv, Noticed
  <2>6. ProposalsAreOfPatterns' /\ JobIsCited'
    BY <1>0, <2>1 DEF ProposalsAreOfPatterns, JobIsCited
  <2>. QED BY <2>5, <2>6 DEF LearnInv
<1>9. CASE NextScope
  <2> DEFINE turn == Head(job.todo)
  <2>1. /\ job.at = "scan" /\ job.left = {} /\ job.todo # <<>> /\ job.todo \in Seq(Turns)
        /\ UNCHANGED <<proposals, rules, conflicts, steady>>
    BY <1>0, <1>9 DEF NextScope, ScanInv
  <2>2. job' = [at |-> "scan", left |-> Contradictions(turn), todo |-> Tail(job.todo), only |-> job.only]
    BY <1>0, <1>9 DEF NextScope, ScanInv
  <2>3. /\ Tail(job.todo) \in Seq(Turns)
        /\ \A t : ToCome(t) => t = turn \/ \E n \in DOMAIN Tail(job.todo) : Tail(job.todo)[n] = t
    <3>1. /\ Len(job.todo) \in Nat \ {0} /\ DOMAIN job.todo = 1 .. Len(job.todo)
          /\ Tail(job.todo) \in Seq(Turns) /\ Len(Tail(job.todo)) = Len(job.todo) - 1
          /\ DOMAIN Tail(job.todo) = 1 .. Len(job.todo) - 1
          /\ \A n \in 1 .. Len(job.todo) - 1 : Tail(job.todo)[n] = job.todo[n + 1]
          /\ turn = job.todo[1]
      BY <2>1
    <3>2. ASSUME NEW t, NEW n \in DOMAIN job.todo, job.todo[n] = t, t # turn
          PROVE  \E m \in DOMAIN Tail(job.todo) : Tail(job.todo)[m] = t
      <4>1. n - 1 \in 1 .. Len(job.todo) - 1 /\ Tail(job.todo)[n - 1] = job.todo[(n - 1) + 1]
        BY <3>1, <3>2
      <4>2. (n - 1) + 1 = n
        BY <3>1
      <4>. QED BY <3>1, <3>2, <4>1, <4>2
    <3>. QED BY <3>1, <3>2 DEF ToCome
  <2>. HIDE DEF turn
  <2>4. ASSUME NEW a \in steady, NEW b \in steady, job.only \in {None, a.turn.kind},
               a.turn = b.turn, Contradict(a, b)
        PROVE  Noticed(a, b)'
    <3>1. Noticed(a, b)
      BY <1>0, <2>1, <2>4 DEF ScanInv
    <3>2. CASE {a, b} \in conflicts
      BY <2>1, <3>2 DEF Noticed
    <3>3. CASE a.turn = turn
      <4>1. a \in rules /\ b \in rules
        BY <1>0, <2>4 DEF ScanInv
      <4>2. {a, b} \in Contradictions(turn)
        BY <2>4, <3>3, <4>1, PairIsFound
      <4>. QED BY <2>2, <4>2 DEF Noticed
    <3>4. CASE ToCome(a.turn) /\ a.turn # turn
      BY <2>2, <2>3, <3>4 DEF Noticed, ToCome
    <3>. QED BY <2>1, <3>1, <3>2, <3>3, <3>4 DEF Noticed
  <2>5. ScanInv'
    BY <1>0, <2>1, <2>2, <2>3, <2>4 DEF ScanInv, Contradict
  <2>6. ProposalsAreOfPatterns' /\ JobIsCited'
    BY <1>0, <2>1, <2>2 DEF ProposalsAreOfPatterns, JobIsCited
  <2>. QED BY <2>5, <2>6 DEF LearnInv
<1>10. CASE RecordConflict
  <2>1. PICK pair \in job.left :
          conflicts' = conflicts \cup {pair} /\ job' = [job EXCEPT !.left = @ \ {pair}]
    BY <1>10 DEF RecordConflict
  <2>2. /\ job' = [at |-> job.at, left |-> job.left \ {pair}, todo |-> job.todo, only |-> job.only]
        /\ job.at = "scan"
        /\ steady' = steady /\ rules' = rules /\ proposals' = proposals
    BY <1>0, <1>10, <2>1 DEF RecordConflict, ScanInv
  <2>3. conflicts' \cup job'.left = conflicts \cup job.left
    BY <2>1, <2>2
  <2>4. \A t : ToCome(t)' <=> ToCome(t)
    BY <2>2 DEF ToCome
  <2>5. \A a, b : Noticed(a, b) => Noticed(a, b)'
    BY <2>3, <2>4 DEF Noticed
  <2>6. ScanInv'
    BY <1>0, <2>2, <2>5 DEF ScanInv, Contradict
  <2>7. ProposalsAreOfPatterns' /\ JobIsCited'
    BY <1>0, <2>2 DEF ProposalsAreOfPatterns, JobIsCited
  <2>. QED BY <2>6, <2>7 DEF LearnInv
<1>11. CASE Relaunch \/ JobFails \/ EndScan
  <2>1. /\ job' = Job("idle", {}) /\ steady' = {}
        /\ proposals' = proposals /\ rules' = rules
    BY <1>11 DEF Relaunch, JobFails, EndScan, Idle
  <2>. QED BY <1>2, <2>1
<1>12. CASE Correction \/ Teach
  BY <1>1, <1>12 DEF Correction, MarkSpamAxis, CorrectLabel, LearnFiling, Capture, Teach
<1>13. CASE UNCHANGED vars
  BY <1>1, <1>13 DEF vars
<1>. QED
  BY <1>3, <1>4, <1>5, <1>6, <1>7, <1>8, <1>9, <1>10, <1>11, <1>12, <1>13 DEF Next

\* A scan that gets to its end has recorded every contradiction between rules
\* of a kind it was asked for that were active all through it, over any
\* activations, retirements, failures and restarts between its reads
\* (AiRuleCurator::scan_conflicts).
THEOREM ScansAreComplete == Spec => ScanMissesNothing
<1>1. LearnInv /\ [Next]_vars =>
        (job.at = "scan" /\ job.left = {} /\ job.todo = <<>> /\ job' = Idle =>
           \A a, b \in {r \in steady : job.only \in {None, r.turn.kind}} :
             a.turn = b.turn /\ Contradict(a, b) => {a, b} \in conflicts)
  <2>. SUFFICES ASSUME LearnInv, job.at = "scan", job.left = {}, job.todo = <<>>,
                       NEW a \in steady, NEW b \in steady, job.only \in {None, a.turn.kind},
                       a.turn = b.turn, Contradict(a, b)
                PROVE  {a, b} \in conflicts
    OBVIOUS
  <2>1. Noticed(a, b)
    BY DEF LearnInv, ScanInv
  <2>2. ~ToCome(a.turn)
    BY DEF ToCome
  <2>. QED BY <2>1, <2>2 DEF Noticed
<1>. QED BY <1>1, ScanInit, ScanNext, PTL DEF Spec, ScanMissesNothing

-----------------------------------------------------------------------------
(* The curator (Curation) *)

\* A pass is a record, and what is left of it a sequence of proposals.
PassShape ==
  /\ pass = [at |-> pass.at, request |-> pass.request, valid |-> pass.valid, left |-> pass.left]
  /\ pass.at \in {"idle", "asking", "refusing", "keeping", "emitting"}
  /\ pass.left \in Seq(Offers) /\ (pass.at = "emitting" => pass.left # <<>>)

LEMMA AnswersAreSeqs == C!Answers \subseteq Seq(Offers)
<1>1. /\ <<>> \in Seq(Offers)
      /\ \A p \in Offers : <<p>> \in Seq(Offers)
      /\ \A p, q \in Offers : <<p, q>> \in Seq(Offers)
  OBVIOUS
<1>2. ASSUME NEW answer \in C!Answers PROVE answer \in Seq(Offers)
  <2>1. \/ answer = <<>> \/ \E p \in Offers : answer = <<p>>
        \/ \E p, q \in Offers : answer = <<p, q>>
    BY DEF C!Answers
  <2>. QED BY <1>1, <2>1
<1>. QED BY <1>2

\* Where each action takes the pass.
LEMMA PassSteps ==
  ASSUME PassShape, C!Next
  PROVE  /\ PassShape'
         /\ \/ \E request : C!Ask(request) /\ pass'.at = "asking"
            \/ \E reply, answer : /\ C!Hear(reply, answer) /\ pass'.request = pass.request
                                  /\ \/ /\ pass'.at = "keeping" /\ pass'.valid = C!AllValid(answer)
                                        /\ C!AllValid(answer) /\ refused' = refused
                                     \/ pass'.at = "refusing" /\ refused' = refused + 1
            \/ \E instruction, forbidden, reply :
                 C!DraftReply(instruction, forbidden, reply) /\ pass' = pass
            \/ (C!NoteRefusal \/ C!Finish \/ C!CutShort) /\ pass'.at = "idle"
            \/ /\ C!PassOver \/ C!Emit
               /\ pass' = [at |-> "keeping", request |-> pass.request, valid |-> pass.valid,
                           left |-> Tail(pass.left)]
            \/ /\ C!Save
               /\ pass' = [at |-> "emitting", request |-> pass.request, valid |-> pass.valid,
                           left |-> pass.left]
<1>1. <<>> \in Seq(Offers)
  OBVIOUS
<1>2. CASE \E request \in Requests : C!Ask(request)
  BY <1>1, <1>2 DEF C!Ask, C!Idle, PassShape
<1>3. CASE \E reply \in C!Replies(provider, "curate_rules"), answer \in C!Answers : C!Hear(reply, answer)
  <2>1. PICK reply, answer : answer \in Seq(Offers) /\ C!Hear(reply, answer)
    BY <1>3, AnswersAreSeqs
  <2>2. CASE C!Accepts(reply, answer)
    <3>1. /\ pass' = [pass EXCEPT !.at = "keeping", !.valid = C!AllValid(answer), !.left = answer]
          /\ refused' = refused /\ C!AllValid(answer)
      BY <2>1, <2>2 DEF C!Hear, C!Accepts
    <3>2. pass' = [at |-> "keeping", request |-> pass.request, valid |-> C!AllValid(answer), left |-> answer]
      BY <3>1 DEF PassShape
    <3>. QED BY <2>1, <3>1, <3>2 DEF PassShape
  <2>3. CASE ~C!Accepts(reply, answer)
    <3>1. pass' = [pass EXCEPT !.at = "refusing"] /\ refused' = refused + 1
      BY <2>1, <2>3 DEF C!Hear
    <3>2. pass' = [at |-> "refusing", request |-> pass.request, valid |-> pass.valid, left |-> pass.left]
      BY <3>1 DEF PassShape
    <3>. QED BY <2>1, <3>1, <3>2 DEF PassShape
  <2>. QED BY <2>2, <2>3
<1>4. CASE \E instruction \in C!Instructions, forbidden \in C!Commitments,
           reply \in C!Replies(provider, "draft_reply") : C!DraftReply(instruction, forbidden, reply)
  BY <1>4 DEF C!DraftReply, PassShape
<1>5. CASE C!NoteRefusal \/ C!Finish \/ C!CutShort
  <2>1. pass' = [at |-> "idle", request |-> {}, valid |-> FALSE, left |-> <<>>]
    BY <1>5 DEF C!NoteRefusal, C!Finish, C!CutShort, C!Idle
  <2>2. PassShape' /\ pass'.at = "idle"
    BY <1>1, <2>1 DEF PassShape
  <2>. QED BY <1>5, <2>2
<1>6. CASE C!PassOver \/ C!Save \/ C!Emit
  <2>1. \/ (C!PassOver \/ C!Emit) /\ pass' = [at |-> "keeping", request |-> pass.request,
                                              valid |-> pass.valid, left |-> Tail(pass.left)]
        \/ C!Save /\ pass' = [at |-> "emitting", request |-> pass.request,
                              valid |-> pass.valid, left |-> pass.left]
    BY <1>6 DEF C!PassOver, C!Save, C!Emit, PassShape
  <2>2. Tail(pass.left) \in Seq(Offers)
    BY <1>6 DEF PassShape, C!PassOver, C!Save, C!Emit
  <2>3. C!Save => pass.left # <<>>
    BY DEF C!Save
  <2>. QED BY <1>6, <2>1, <2>2, <2>3 DEF PassShape
<1>. QED BY <1>2, <1>3, <1>4, <1>5, <1>6 DEF C!Next

-----------------------------------------------------------------------------
(* What the curator keeps *)

\* While proposals of an answer are kept, the answer was valid as a whole, and
\* one that was just saved was asked for.
AdviceInv ==
  /\ PassShape
  /\ pass.at \in {"keeping", "emitting"} => pass.valid
  /\ AdviceIsHarmless

LEMMA AdviceInit == C!Init => AdviceInv
<1>. SUFFICES ASSUME C!Init PROVE AdviceInv
  OBVIOUS
<1>1. <<>> \in Seq(Offers)
  OBVIOUS
<1>2. pass = [at |-> "idle", request |-> {}, valid |-> FALSE, left |-> <<>>]
  BY DEF C!Init, C!Idle
<1>3. PassShape /\ pass.at = "idle"
  BY <1>1, <1>2 DEF PassShape
<1>4. AdviceIsHarmless
  BY DEF C!Init, AdviceIsHarmless, C!AdviceIsHarmless, C!NoDraft
<1>. QED BY <1>3, <1>4 DEF AdviceInv

LEMMA AdviceNext == AdviceInv /\ [C!Next]_curationVars => AdviceInv'
<1>. SUFFICES ASSUME AdviceInv, [C!Next]_curationVars PROVE AdviceInv'
  OBVIOUS
<1>0. CASE UNCHANGED curationVars
  BY <1>0 DEF curationVars, AdviceInv, PassShape, AdviceIsHarmless, C!AdviceIsHarmless
<1>. SUFFICES ASSUME C!Next PROVE AdviceInv'
  BY <1>0
<1>1. PassShape'
  BY PassSteps DEF AdviceInv
<1>2. AdviceIsHarmless /\ UNCHANGED <<stored, answered>> => AdviceIsHarmless'
  BY DEF AdviceIsHarmless, C!AdviceIsHarmless
<1>3. ASSUME NEW request, C!Ask(request), pass'.at = "asking" PROVE AdviceInv'
  <2>1. stored' = stored /\ answered' = C!NoDraft
    BY <1>3 DEF C!Ask
  <2>2. AdviceIsHarmless'
    BY <2>1 DEF AdviceInv, AdviceIsHarmless, C!AdviceIsHarmless, C!NoDraft
  <2>. QED BY <1>1, <1>3, <2>2 DEF AdviceInv
<1>4. ASSUME NEW reply, NEW answer, C!Hear(reply, answer),
             \/ pass'.at = "keeping" /\ pass'.valid = C!AllValid(answer) /\ C!AllValid(answer)
             \/ pass'.at = "refusing"
      PROVE  AdviceInv'
  <2>1. AdviceIsHarmless'
    BY <1>2, <1>4 DEF C!Hear, AdviceInv
  <2>. QED BY <1>1, <1>4, <2>1 DEF AdviceInv
<1>5. ASSUME NEW instruction, NEW forbidden, NEW reply,
             C!DraftReply(instruction, forbidden, reply), pass' = pass
      PROVE  AdviceInv'
  <2>1. stored' = stored
    BY <1>5 DEF C!DraftReply
  <2>2. answered'.drafted => /\ answered'.review /\ answered'.body # ""
                             /\ answered'.asked \subseteq answered'.told
    <3>1. CASE C!Parsed(provider, "draft_reply", reply)
      <4>1. "body" \notin reply.shape.empty
        BY <3>1 DEF C!Parsed
      <4>2. answered' = [drafted |-> TRUE, review |-> TRUE, asked |-> forbidden,
                         told |-> C!Guidance(instruction, forbidden), body |-> "text"]
        BY <1>5, <3>1, <4>1 DEF C!DraftReply, C!DraftOf
      <4>. QED BY <4>2 DEF C!Guidance
    <3>2. CASE ~C!Parsed(provider, "draft_reply", reply)
      BY <1>5, <3>2 DEF C!DraftReply, C!NoDraft
    <3>. QED BY <3>1, <3>2
  <2>3. AdviceIsHarmless'
    BY <2>1, <2>2 DEF AdviceInv, AdviceIsHarmless, C!AdviceIsHarmless
  <2>. QED BY <1>1, <1>5, <2>3 DEF AdviceInv
<1>6. ASSUME C!NoteRefusal \/ C!Finish \/ C!CutShort, pass'.at = "idle" PROVE AdviceInv'
  <2>1. UNCHANGED <<stored, answered>>
    BY <1>6 DEF C!NoteRefusal, C!Finish, C!CutShort
  <2>. QED BY <1>1, <1>2, <1>6, <2>1 DEF AdviceInv
<1>7. ASSUME C!PassOver \/ C!Emit,
             pass' = [at |-> "keeping", request |-> pass.request, valid |-> pass.valid,
                      left |-> Tail(pass.left)]
      PROVE  AdviceInv'
  <2>1. UNCHANGED <<stored, answered>> /\ pass.at \in {"keeping", "emitting"}
    BY <1>7 DEF C!PassOver, C!Emit
  <2>2. pass'.valid = pass.valid
    BY <1>7
  <2>. QED BY <1>1, <1>2, <2>1, <2>2 DEF AdviceInv
<1>8. ASSUME C!Save,
             pass' = [at |-> "emitting", request |-> pass.request, valid |-> pass.valid,
                      left |-> pass.left]
      PROVE  AdviceInv'
  <2> DEFINE p == Head(pass.left)
             kept == [change |-> p, status |-> C!Clamped(p), pass |-> passes, n |-> Len(pass.left),
                      request |-> pass.request, valid |-> pass.valid]
  <2>1. /\ stored' = stored \cup {kept} /\ answered' = answered
        /\ pass.at = "keeping" /\ C!Wanted(pass.request, p)
    BY <1>8 DEF C!Save
  <2>2. pass.valid
    BY <2>1 DEF AdviceInv
  <2>3. /\ C!Clamped(p) # "active"
        /\ p.risk \in {"high", "critical"} \/ p.draft \in Clashing
             => C!Clamped(p) = "pending_human_review"
    BY DEF C!Clamped
  <2>4. /\ C!OperationFor(p.change) \in C!Proposing
        /\ C!Wants(pass.request, C!OperationFor(p.change))
    BY <2>1 DEF C!Wanted, C!OperationFor, C!Proposing
  <2>5. kept.change = p /\ kept.status = C!Clamped(p) /\ kept.request = pass.request /\ kept.valid
    BY <2>2
  <2>. HIDE DEF kept, p
  <2>6. AdviceIsHarmless'
    BY <2>1, <2>3, <2>4, <2>5 DEF AdviceInv, AdviceIsHarmless, C!AdviceIsHarmless
  <2>7. pass'.valid
    BY <1>8, <2>2
  <2>. QED BY <1>1, <2>6, <2>7 DEF AdviceInv
<1>. QED BY <1>3, <1>4, <1>5, <1>6, <1>7, <1>8, PassSteps DEF AdviceInv

\* No provider, whatever it answers and however calls fail, makes the curator
\* store a live rule, one nobody asked for, part of an invalid answer, or a
\* risky or clashing one that skips human review; a drafted reply has a text,
\* waits for review, and was asked to keep to what must not be promised.
THEOREM CuratorIsHarmless == MCSpec => []AdviceIsHarmless
<1>1. MCInit => AdviceInv
  BY AdviceInit DEF MCInit
<1>2. AdviceInv /\ [MCNext]_allVars => AdviceInv'
  <2>. SUFFICES ASSUME AdviceInv, [MCNext]_allVars PROVE AdviceInv'
    OBVIOUS
  <2>1. [C!Next]_curationVars
    BY DEF MCNext, allVars
  <2>. QED BY <2>1, AdviceNext
<1>3. AdviceInv => AdviceIsHarmless
  BY DEF AdviceInv
<1>. QED BY <1>1, <1>2, <1>3, PTL DEF MCSpec

-----------------------------------------------------------------------------
(* What the audit log hears of it *)

\* The proposal that was saved last, while its entry is still to be written.
InHand(p) == p.pass = passes /\ p.n = Len(pass.left)

\* Stored, and not in the audit log nor about to be.
Unheard == {p \in stored \ traced : pass.at = "emitting" => ~InHand(p)}

Counters ==
  /\ passes \in Nat /\ cuts \in Nat /\ refused \in Nat /\ noted \in Nat
  /\ IsFiniteSet(stored)
  /\ \A p \in stored : p.pass \in Nat /\ p.n \in Nat

\* A pass and the place in its answer name a proposal: of the pass under way
\* only what came before the present place is stored.
PlacesDiffer ==
  /\ \A p \in stored : p.pass <= passes
  /\ pass.at = "asking" => \A p \in stored : p.pass # passes
  /\ pass.at = "keeping" => \A p \in stored : p.pass = passes => p.n > Len(pass.left)
  /\ pass.at = "emitting" =>
       /\ \A p \in stored : p.pass = passes => p.n >= Len(pass.left)
       /\ \A p, q \in stored : InHand(p) /\ InHand(q) => p = q

\* What was not heard is paid for by a pass that was cut short.
Paid ==
  Cardinality(Unheard) + (refused - noted) <= cuts + (IF pass.at = "refusing" THEN 1 ELSE 0)

TraceInv == PassShape /\ Counters /\ PlacesDiffer /\ Paid

LEMMA TraceInit == C!Init => TraceInv
<1>. SUFFICES ASSUME C!Init PROVE TraceInv
  OBVIOUS
<1>1. PassShape /\ pass.at = "idle"
  BY AdviceInit DEF AdviceInv, C!Init, C!Idle
<1>2. Counters
  BY FS_EmptySet DEF C!Init, Counters
<1>3. PlacesDiffer
  BY <1>1 DEF C!Init, PlacesDiffer
<1>4. Unheard = {} /\ Cardinality(Unheard) = 0
  BY FS_EmptySet DEF C!Init, Unheard
<1>5. Paid
  BY <1>1, <1>4 DEF C!Init, Paid
<1>. QED BY <1>1, <1>2, <1>3, <1>5 DEF TraceInv

LEMMA UnheardIsFinite ==
  ASSUME Counters
  PROVE  IsFiniteSet(Unheard) /\ Cardinality(Unheard) \in Nat
<1>1. Unheard \in SUBSET stored
  BY DEF Unheard
<1>. QED BY <1>1, FS_Subset, FS_CardinalityType DEF Counters

\* At most one proposal more is untraced than unheard: the one in hand.
LEMMA OneInHand ==
  ASSUME TraceInv
  PROVE  /\ Cardinality(stored \ traced) \in Nat
         /\ pass.at # "emitting" => Cardinality(stored \ traced) = Cardinality(Unheard)
         /\ pass.at = "emitting" => Cardinality(stored \ traced) <= Cardinality(Unheard) + 1
<1>1. /\ IsFiniteSet(Unheard) /\ Cardinality(Unheard) \in Nat
      /\ Cardinality(stored \ traced) \in Nat
  BY UnheardIsFinite, FS_Difference, FS_CardinalityType DEF TraceInv, Counters
<1>2. pass.at # "emitting" => stored \ traced = Unheard
  BY DEF Unheard
<1>3. ASSUME pass.at = "emitting"
      PROVE  Cardinality(stored \ traced) <= Cardinality(Unheard) + 1
  <2>1. CASE stored \ traced = Unheard
    BY <1>1, <2>1
  <2>2. CASE stored \ traced # Unheard
    <3>1. PICK p \in stored \ traced : InHand(p)
      BY <2>2 DEF Unheard
    <3>2. stored \ traced = Unheard \cup {p}
      BY <1>3, <3>1 DEF Unheard, TraceInv, PlacesDiffer
    <3> DEFINE known == Unheard
    <3>3. IsFiniteSet(known) /\ Cardinality(known) \in Nat
      BY <1>1
    <3>. HIDE DEF known
    <3>4. Cardinality(known \cup {p}) = IF p \in known THEN Cardinality(known) ELSE Cardinality(known) + 1
      BY <3>3, FS_AddElement, Zenon
    <3>5. Cardinality(known \cup {p}) <= Cardinality(known) + 1
      BY <3>3, <3>4
    <3>. QED BY <3>2, <3>5 DEF known
  <2>. QED BY <2>1, <2>2
<1>. QED BY <1>1, <1>2, <1>3

LEMMA TraceNext == TraceInv /\ [C!Next]_curationVars => TraceInv'
<1>. SUFFICES ASSUME TraceInv, [C!Next]_curationVars PROVE TraceInv'
  OBVIOUS
<1>0. CASE UNCHANGED curationVars
  BY <1>0 DEF curationVars, TraceInv, PassShape, Counters, PlacesDiffer, InHand, Paid, Unheard
<1>. SUFFICES ASSUME C!Next PROVE TraceInv'
  BY <1>0
<1>1. PassShape'
  BY PassSteps DEF TraceInv
<1>2. Cardinality(Unheard) \in Nat
  BY UnheardIsFinite DEF TraceInv
<1>3. ASSUME NEW request, C!Ask(request), pass'.at = "asking" PROVE TraceInv'
  <2>1. /\ passes' = passes + 1 /\ UNCHANGED <<stored, traced, refused, noted, cuts>>
        /\ pass.at = "idle"
    BY <1>3 DEF C!Ask, C!Idle
  <2>2. Unheard' = Unheard
    BY <1>3, <2>1 DEF Unheard
  <2>3. Counters' /\ PlacesDiffer'
    BY <1>3, <2>1 DEF TraceInv, Counters, PlacesDiffer
  <2>4. Paid'
    BY <1>3, <2>1, <2>2 DEF TraceInv, Paid
  <2>. QED BY <1>1, <2>3, <2>4 DEF TraceInv
<1>4. ASSUME NEW reply, NEW answer, C!Hear(reply, answer),
             \/ pass'.at = "keeping" /\ refused' = refused
             \/ pass'.at = "refusing" /\ refused' = refused + 1
      PROVE  TraceInv'
  <2>1. UNCHANGED <<stored, traced, noted, cuts, passes>> /\ pass.at = "asking"
    BY <1>4 DEF C!Hear
  <2>2. Unheard' = Unheard
    BY <1>4, <2>1 DEF Unheard
  <2>3. Counters' /\ PlacesDiffer'
    BY <1>4, <2>1 DEF TraceInv, Counters, PlacesDiffer
  <2>4. Paid'
    BY <1>2, <1>4, <2>1, <2>2 DEF TraceInv, Counters, Paid
  <2>. QED BY <1>1, <2>3, <2>4 DEF TraceInv
<1>5. ASSUME NEW instruction, NEW forbidden, NEW reply,
             C!DraftReply(instruction, forbidden, reply), pass' = pass
      PROVE  TraceInv'
  <2>1. UNCHANGED <<stored, traced, refused, noted, cuts, passes, pass>>
    BY <1>5 DEF C!DraftReply
  <2>. QED BY <1>1, <2>1 DEF TraceInv, Counters, PlacesDiffer, InHand, Paid, Unheard
<1>6. ASSUME C!NoteRefusal \/ C!Finish, pass'.at = "idle" PROVE TraceInv'
  <2>1. /\ UNCHANGED <<stored, traced, refused, cuts, passes>>
        /\ \/ pass.at = "refusing" /\ noted' = noted + 1
           \/ pass.at = "keeping" /\ noted' = noted
    BY <1>6 DEF C!NoteRefusal, C!Finish
  <2>2. Unheard' = Unheard
    BY <1>6, <2>1 DEF Unheard
  <2>3. Counters' /\ PlacesDiffer'
    BY <1>6, <2>1 DEF TraceInv, Counters, PlacesDiffer
  <2>4. Paid'
    BY <1>2, <1>6, <2>1, <2>2 DEF TraceInv, Counters, Paid
  <2>. QED BY <1>1, <2>3, <2>4 DEF TraceInv
<1>7. ASSUME C!CutShort, pass'.at = "idle" PROVE TraceInv'
  <2>1. UNCHANGED <<stored, traced, refused, noted, passes>> /\ cuts' = cuts + 1
    BY <1>7 DEF C!CutShort
  <2>2. Unheard' = stored \ traced
    BY <1>7, <2>1 DEF Unheard
  <2>3. Counters' /\ PlacesDiffer'
    BY <1>7, <2>1 DEF TraceInv, Counters, PlacesDiffer
  <2>4. Paid'
    BY <1>2, <1>7, <2>1, <2>2, OneInHand DEF TraceInv, Counters, Paid
  <2>. QED BY <1>1, <2>3, <2>4 DEF TraceInv
<1>8. ASSUME C!PassOver \/ C!Emit,
             pass' = [at |-> "keeping", request |-> pass.request, valid |-> pass.valid,
                      left |-> Tail(pass.left)]
      PROVE  TraceInv'
  <2>1. /\ UNCHANGED <<stored, refused, noted, cuts, passes>>
        /\ pass.left # <<>> /\ pass.left \in Seq(Offers)
    BY <1>8 DEF C!PassOver, C!Emit, TraceInv, PassShape
  <2>2. Len(pass'.left) = Len(pass.left) - 1 /\ Len(pass.left) \in Nat /\ pass'.at = "keeping"
    BY <1>8, <2>1
  <2>3. Unheard' = Unheard
    <3>1. CASE C!PassOver
      BY <2>1, <2>2, <3>1 DEF C!PassOver, Unheard
    <3>2. CASE C!Emit
      BY <2>1, <2>2, <3>2 DEF C!Emit, Unheard, InHand
    <3>. QED BY <1>8, <3>1, <3>2
  <2>4. pass.at \in {"keeping", "emitting"}
    BY <1>8 DEF C!PassOver, C!Emit
  <2>5. Counters' /\ PlacesDiffer'
    BY <2>1, <2>2, <2>4 DEF TraceInv, Counters, PlacesDiffer
  <2>6. Paid'
    BY <1>2, <2>1, <2>2, <2>3, <2>4 DEF TraceInv, Counters, Paid
  <2>. QED BY <1>1, <2>5, <2>6 DEF TraceInv
<1>9. ASSUME C!Save,
             pass' = [at |-> "emitting", request |-> pass.request, valid |-> pass.valid,
                      left |-> pass.left]
      PROVE  TraceInv'
  <2> DEFINE kept == [change |-> Head(pass.left), status |-> C!Clamped(Head(pass.left)),
                      pass |-> passes, n |-> Len(pass.left), request |-> pass.request,
                      valid |-> pass.valid]
  <2>1. /\ stored' = stored \cup {kept} /\ pass.at = "keeping"
        /\ UNCHANGED <<traced, refused, noted, cuts, passes>>
    BY <1>9 DEF C!Save
  <2>2. /\ kept.pass = passes /\ kept.n = Len(pass.left) /\ Len(pass.left) \in Nat
        /\ passes \in Nat /\ pass'.left = pass.left /\ pass'.at = "emitting"
    BY <1>9 DEF TraceInv, PassShape, Counters
  <2>. HIDE DEF kept
  <2>3. \A p \in stored : ~(p.pass = passes /\ p.n = Len(pass.left)) /\ p.pass \in Nat /\ p.n \in Nat
    BY <2>1, <2>2 DEF TraceInv, PlacesDiffer, Counters
  <2>4. Unheard' = Unheard
    BY <2>1, <2>2, <2>3 DEF Unheard, InHand
  <2>5. Counters'
    BY <2>1, <2>2, FS_AddElement DEF TraceInv, Counters
  <2>6. PlacesDiffer'
    BY <2>1, <2>2, <2>3 DEF TraceInv, PlacesDiffer, InHand
  <2>7. Paid'
    BY <2>1, <2>2, <2>4 DEF TraceInv, Paid
  <2>. QED BY <1>1, <2>5, <2>6, <2>7 DEF TraceInv
<1>. QED BY <1>3, <1>4, <1>5, <1>6, <1>7, <1>8, <1>9, PassSteps DEF TraceInv

LEMMA SameCount == ASSUME NEW S PROVE C!Cardinality(S) = Cardinality(S)
  BY DEF C!Cardinality, Cardinality

\* Every proposal the curator stored and every answer it refused is in the
\* audit log, but for one per pass that was cut short and the one whose entry
\* is being written: over any number of passes and answers of any length.
THEOREM CuratorIsTraced == MCSpec => []CurationIsTraced
<1>1. MCInit => TraceInv
  BY TraceInit DEF MCInit
<1>2. TraceInv /\ [MCNext]_allVars => TraceInv'
  <2>. SUFFICES ASSUME TraceInv, [MCNext]_allVars PROVE TraceInv'
    OBVIOUS
  <2>1. [C!Next]_curationVars
    BY DEF MCNext, allVars
  <2>. QED BY <2>1, TraceNext
<1>3. TraceInv => CurationIsTraced
  <2>. SUFFICES ASSUME TraceInv PROVE CurationIsTraced
    OBVIOUS
  <2>1. /\ Cardinality(Unheard) \in Nat /\ refused \in Nat /\ noted \in Nat /\ cuts \in Nat
        /\ Paid
    BY UnheardIsFinite DEF TraceInv, Counters
  <2> DEFINE untraced == Cardinality(stored \ traced)
             due == IF pass.at \in {"emitting", "refusing"} THEN 1 ELSE 0
  <2>2. untraced \in Nat /\ untraced + (refused - noted) <= cuts + due
    BY <2>1, OneInHand DEF Paid
  <2>3. C!Cardinality(stored \ traced) = untraced
    BY SameCount
  <2>. HIDE DEF untraced
  <2>. QED BY <2>1, <2>2, <2>3 DEF CurationIsTraced, C!CurationIsTraced
<1>. QED BY <1>1, <1>2, <1>3, PTL DEF MCSpec
=============================================================================

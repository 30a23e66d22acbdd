-------------------------- MODULE MailActionsProofs --------------------------
(***************************************************************************)
(* Theorems about MailActions for all rules a host may hold, all mails and *)
(* all bounds: first the sequences the decision is made of, then the       *)
(* decision, then what becomes of it between the host, the extension and   *)
(* the mailbox; and about RuleEngine for all conditions and messages.      *)
(***************************************************************************)
EXTENDS MailActions, RuleEngine, SequenceTheorems, WellFoundedInduction, TLAPS

-----------------------------------------------------------------------------
(* Sequences *)

\* Induction over 0 .. n, stated of the set of numbers that have the property.
LEMMA UpTo ==
  ASSUME NEW n \in Nat, NEW T, 0 \in T,
         \A k \in 1 .. n : k - 1 \in T => k \in T
  PROVE  0 .. n \subseteq T
<1> DEFINE S == {k \in 0 .. n : k \notin T}
<1>1. ASSUME S # {} PROVE FALSE
  <2>1. S \subseteq Nat
    OBVIOUS
  <2>2. PICK m \in S : \A x \in S : ~(<<x, m>> \in OpToRel(<, Nat))
    BY <1>1, <2>1, NatLessThanWellFounded, WFMin
  <2>3. m \in 1 .. n /\ m - 1 \in 0 .. n /\ m - 1 < m
    OBVIOUS
  <2>4. m - 1 \notin S
    <3>1. \A x \in S : x # m - 1
      <4>1. TAKE x \in S
      <4>2. <<x, m>> \notin OpToRel(<, Nat)
        BY <2>2
      <4>3. ~(x < m)
        BY <4>2 DEF OpToRel
      <4>. QED BY <2>3, <4>3
    <3>. QED BY <3>1
  <2>. QED BY <2>3, <2>4
<1>. QED BY <1>1

\* A function on 0 .. n may be defined by its first value and a step.
LEMMA Recursion ==
  ASSUME NEW V, NEW first \in V, NEW n \in Nat, NEW step \in [1 .. n -> [V -> V]]
  PROVE  \E f \in [0 .. n -> V] :
            f[0] = first /\ \A k \in 1 .. n : f[k] = step[k][f[k - 1]]
<1> DEFINE Upto(m) == {f \in [0 .. m -> V] :
                         f[0] = first /\ \A k \in 1 .. m : f[k] = step[k][f[k - 1]]}
           T == {m \in 0 .. n : Upto(m) # {}}
<1>1. 0 \in T
  <2>1. [k \in 0 .. 0 |-> first] \in Upto(0)
    OBVIOUS
  <2>. QED BY <2>1
<1>2. ASSUME NEW m \in 1 .. n, m - 1 \in T
      PROVE  m \in T
  <2>1. PICK f \in [0 .. m - 1 -> V] :
          f[0] = first /\ \A k \in 1 .. m - 1 : f[k] = step[k][f[k - 1]]
    BY <1>2
  <2> DEFINE g == [k \in 0 .. m |-> IF k = m THEN step[m][f[m - 1]] ELSE f[k]]
  <2>2. m - 1 \in 0 .. m - 1 /\ f[m - 1] \in V /\ step[m][f[m - 1]] \in V
    OBVIOUS
  <2>3. g \in [0 .. m -> V] /\ g[0] = first /\ g[m] = step[m][f[m - 1]] /\ g[m - 1] = f[m - 1]
    BY <2>1, <2>2
  <2>4. \A k \in 1 .. m : g[k] = step[k][g[k - 1]]
    <3>1. TAKE k \in 1 .. m
    <3>2. CASE k = m
      BY <2>3, <3>2
    <3>3. CASE k # m
      <4>1. k \in 1 .. m - 1 /\ k - 1 \in 0 .. m /\ k - 1 # m /\ k \in 0 .. m
        BY <3>3
      <4>2. g[k] = f[k] /\ g[k - 1] = f[k - 1]
        BY <3>3, <4>1
      <4>. QED BY <2>1, <4>1, <4>2
    <3>. QED BY <3>2, <3>3
  <2> HIDE DEF g
  <2>5. g \in Upto(m)
    BY <2>3, <2>4
  <2>6. m \in 0 .. n
    OBVIOUS
  <2> HIDE DEF Upto
  <2>. QED BY <2>5, <2>6
<1>3. 0 .. n \subseteq T
  BY <1>1, <1>2, UpTo
<1>4. n \in T
  BY <1>3
<1>. QED BY <1>4

\* What is kept of a sequence is a sequence of elements of it that were to be.
LEMMA KeptType ==
  ASSUME NEW S, NEW s, NEW T, s \in Seq(S)
  PROVE  Kept(s, T) \in Seq(S \cap T)
<1> SUFFICES ASSUME NEW V, V = Seq(S \cap T), NEW n \in Nat, n = Len(s)
             PROVE  Kept(s, T) \in V
  BY LenProperties
<1> DEFINE Next1(k, v) == IF s[k] \in T THEN Append(v, s[k]) ELSE v
           step == [k \in 1 .. n |-> [v \in V |-> Next1(k, v)]]
           Defines(g) == g = [k \in 0 .. n |-> IF k = 0 THEN <<>> ELSE Next1(k, g[k - 1])]
           kept == CHOOSE g : Defines(g)
<1>1. n \in Nat /\ <<>> \in V
  OBVIOUS
<1>2. \A k \in 1 .. n, v \in V : Next1(k, v) \in V
  <2>1. TAKE k \in 1 .. n, v \in V
  <2>2. s[k] \in S
    BY ElementOfSeq
  <2>. QED BY <2>2
<1>3. step \in [1 .. n -> [V -> V]]
  BY <1>2
<1>4. \A k \in 1 .. n, v \in V : step[k][v] = Next1(k, v)
  OBVIOUS
<1>5. Kept(s, T) = kept[n]
  BY DEF Kept
<1> HIDE DEF Next1, step
<1>6. PICK f \in [0 .. n -> V] : f[0] = <<>> /\ \A k \in 1 .. n : f[k] = step[k][f[k - 1]]
  <2> DEFINE empty == <<>>
  <2>1. empty \in V
    BY <1>1
  <2> HIDE DEF empty
  <2>2. \E f \in [0 .. n -> V] : f[0] = empty /\ \A k \in 1 .. n : f[k] = step[k][f[k - 1]]
    BY ONLY <1>1, <1>3, <2>1, Recursion
  <2>. QED BY <2>2 DEF empty
<1>7. Defines(f)
  <2>1. \A k \in 1 .. n : f[k] = Next1(k, f[k - 1])
    <3>1. TAKE k \in 1 .. n
    <3>2. k - 1 \in 0 .. n
      BY <1>1
    <3>. QED BY <1>4, <1>6, <3>2
  <2>2. \A k \in 0 .. n : f[k] = IF k = 0 THEN <<>> ELSE Next1(k, f[k - 1])
    BY <1>1, <1>6, <2>1
  <2>. QED BY <2>2
<1>8. Defines(kept)
  BY <1>7
<1>9. kept[n] \in V
  <2> HIDE DEF kept
  <2>1. \A k \in 0 .. n : kept[k] = IF k = 0 THEN <<>> ELSE Next1(k, kept[k - 1])
    BY <1>8
  <2> DEFINE W == {k \in 0 .. n : kept[k] \in V}
  <2>2. 0 \in W
    <3>1. 0 \in 0 .. n
      OBVIOUS
    <3>2. kept[0] = <<>>
      BY <2>1, <3>1
    <3>. QED BY <1>1, <3>1, <3>2
  <2>3. ASSUME NEW k \in 1 .. n, k - 1 \in W
        PROVE  k \in W
    <3>1. k \in 0 .. n /\ k # 0
      BY <1>1
    <3>2. kept[k] = Next1(k, kept[k - 1])
      BY <2>1, <3>1
    <3>3. kept[k - 1] \in V
      BY <2>3
    <3>. QED BY <1>2, <3>1, <3>2, <3>3
  <2>4. 0 .. n \subseteq W
    BY <1>1, <2>2, <2>3, UpTo
  <2>. QED BY <1>1, <2>4
<1>. QED BY <1>5, <1>9

\* A sequence of sequences, made flat.
LEMMA FlattenType ==
  ASSUME NEW S, NEW s, s \in Seq(Seq(S))
  PROVE  FlattenSeq(s) \in Seq(S)
<1> SUFFICES ASSUME NEW V, V = Seq(S), NEW n \in Nat, n = Len(s)
             PROVE  FlattenSeq(s) \in V
  BY LenProperties
<1> DEFINE step == [k \in 1 .. n |-> [v \in V |-> IF k = 1 THEN s[1] ELSE v \o s[k]]]
           Defines(g) == g = [i \in 1 .. n |-> IF i = 1 THEN s[i] ELSE g[i - 1] \o s[i]]
           flatten == CHOOSE g : Defines(g)
<1>1. n \in Nat /\ <<>> \in V /\ \A k \in 1 .. n : s[k] \in V
  BY LenProperties, ElementOfSeq
<1>2. CASE n = 0
  <2>1. s = <<>>
    BY <1>2, EmptySeq
  <2>2. FlattenSeq(s) = s
    BY <1>2 DEF FlattenSeq
  <2>. QED BY <1>1, <2>1, <2>2
<1>3. CASE n # 0
  <2>1. \A k \in 1 .. n, v \in V : (IF k = 1 THEN s[1] ELSE v \o s[k]) \in V
    <3>1. TAKE k \in 1 .. n, v \in V
    <3>2. 1 \in 1 .. n
      BY <1>1, <1>3
    <3>3. v \o s[k] \in V
      BY <1>1, ConcatProperties
    <3>. QED BY <1>1, <3>2, <3>3
  <2>2. step \in [1 .. n -> [V -> V]]
    BY <2>1
  <2>3. \A k \in 1 .. n, v \in V : step[k][v] = IF k = 1 THEN s[1] ELSE v \o s[k]
    OBVIOUS
  <2>4. FlattenSeq(s) = flatten[n]
    BY <1>3 DEF FlattenSeq
  <2> HIDE DEF step
  <2>5. PICK f \in [0 .. n -> V] : \A k \in 1 .. n : f[k] = step[k][f[k - 1]]
    <3>1. PICK v \in V : TRUE
      BY <1>1
    <3>2. \E f \in [0 .. n -> V] : f[0] = v /\ \A k \in 1 .. n : f[k] = step[k][f[k - 1]]
      BY ONLY n \in Nat, <2>2, v \in V, Recursion
    <3>. QED BY <3>2
  <2> DEFINE h == [i \in 1 .. n |-> f[i]]
  <2>6. Defines(h)
    <3>1. \A k \in 1 .. n : f[k] = IF k = 1 THEN s[1] ELSE f[k - 1] \o s[k]
      <4>1. TAKE k \in 1 .. n
      <4>2. k - 1 \in 0 .. n
        BY <1>1
      <4>3. f[k - 1] \in V
        BY <4>2
      <4>4. f[k] = step[k][f[k - 1]]
        BY <2>5
      <4>. QED BY <2>3, <4>3, <4>4, Zenon
    <3>2. \A k \in 1 .. n : k # 1 => h[k - 1] = f[k - 1]
      BY <1>1
    <3>. QED BY <3>1, <3>2
  <2>7. Defines(flatten)
    <3> HIDE DEF h
    <3>. QED BY <2>6
  <2>8. flatten[n] \in V
    <3> HIDE DEF flatten
    <3>1. \A k \in 1 .. n : flatten[k] = IF k = 1 THEN s[k] ELSE flatten[k - 1] \o s[k]
      BY <2>7
    <3> DEFINE W == {k \in 0 .. n : k = 0 \/ flatten[k] \in V}
    <3>2. 0 \in W
      BY <1>1
    <3>3. ASSUME NEW k \in 1 .. n, k - 1 \in W
          PROVE  k \in W
      <4>1. k \in 0 .. n /\ s[k] \in V
        BY <1>1
      <4>2. CASE k = 1
        BY <3>1, <4>1, <4>2
      <4>3. CASE k # 1
        <5>1. k - 1 # 0 /\ flatten[k - 1] \in V
          BY <3>3, <4>3
        <5>2. flatten[k - 1] \o s[k] \in V
          BY <4>1, <5>1, ConcatProperties
        <5>. QED BY <3>1, <4>1, <4>3, <5>2
      <4>. QED BY <4>2, <4>3
    <3>4. 0 .. n \subseteq W
      BY <1>1, <3>2, <3>3, UpTo
    <3>. QED BY <1>1, <1>3, <3>4
  <2>. QED BY <2>4, <2>8
<1>. QED BY <1>2, <1>3

\* A sequence with an element for each of another one's.
LEMMA MappedSeq ==
  ASSUME NEW S, NEW s, NEW W, NEW t, s \in Seq(S), t \in [DOMAIN s -> W]
  PROVE  t \in Seq(W)
<1>1. DOMAIN s = 1 .. Len(s) /\ Len(s) \in Nat
  BY LenProperties
<1>. QED BY <1>1, SeqDef

-----------------------------------------------------------------------------
(* The decision *)

\* The effects of the active action rules a host holds.
ActiveEffects(rules) ==
  UNION {Range(Translate(rules[i].effect)) :
           i \in {j \in DOMAIN rules : rules[j].kind = "action" /\ rules[j].status = "active"}}


LEMMA KeptOf ==
  ASSUME NEW S, NEW s, NEW T, s \in Seq(S)
  PROVE  Kept(s, T) \in Seq(S)
<1>1. Kept(s, T) \in Seq(S \cap T) /\ S \cap T \subseteq S
  BY KeptType
<1>. QED BY ONLY <1>1, SeqMonotonic

\* The rules an engine applies are rules it holds, and active.
LEMMA AppliedRulesType ==
  ASSUME NEW S, NEW rules, NEW fields, rules \in Seq(S)
  PROVE  AppliedRules(rules, fields) \in Seq({r \in S : r.status = "active"})
<1> DEFINE matched == Matched(rules, fields)
           Band(b) == Kept(matched, {r \in Range(matched) : r.band = b})
<1>1. matched \in Seq(S)
  BY KeptOf DEF Matched
<1> HIDE DEF matched
<1>2. \A b : Band(b) \in Seq(S)
  BY <1>1, KeptOf
<1> HIDE DEF Band
<1>3. Ranked(matched) \in Seq(S)
  <2>1. Ranked(matched) = Band(0) \o Band(1) \o Band(2) \o Band(3) \o Band(4) \o Band(5)
    BY DEF Ranked, Band
  <2>2. Band(0) \o Band(1) \o Band(2) \in Seq(S)
    BY <1>2, ConcatProperties
  <2>3. Band(0) \o Band(1) \o Band(2) \o Band(3) \o Band(4) \in Seq(S)
    BY <1>2, <2>2, ConcatProperties
  <2>. QED BY <1>2, <2>1, <2>3, ConcatProperties
<1> DEFINE T == {r \in Range(rules) : Applies(r)}
<1>4. AppliedRules(rules, fields) = Kept(Ranked(matched), T)
  BY DEF AppliedRules, matched
<1>5. S \cap T \subseteq {r \in S : r.status = "active"}
  BY DEF Applies
<1> HIDE DEF T
<1>6. Kept(Ranked(matched), T) \in Seq(S \cap T)
  BY <1>3, KeptType
<1>. QED BY ONLY <1>4, <1>5, <1>6, SeqMonotonic

\* An effect is translated to a sequence of actions.
LEMMA TranslateType ==
  ASSUME NEW effect, effect.tag \in Seq(STRING), effect.review_for \in Seq(STRING)
  PROVE  Translate(effect) \in Seq(Range(Translate(effect)))
<1> DEFINE tags    == [i \in DOMAIN effect.tag |-> [kind |-> "tag", to |-> effect.tag[i]]]
           aMove   == [kind |-> "move", to |-> effect.move]
           aJunk   == [kind |-> "mark_junk", to |-> effect.mark_junk]
           move    == IF effect.move = Unset THEN <<>> ELSE <<aMove>>
           junk    == IF effect.mark_junk = Unset THEN <<>> ELSE <<aJunk>>
           reviews == [i \in DOMAIN effect.review_for |-> RequireReview(effect.review_for[i])]
           V == Range(tags) \cup {aMove, aJunk} \cup Range(reviews)
<1>1. tags \in Seq(V)
  <2>1. tags \in [DOMAIN effect.tag -> V]
    BY DEF Range
  <2> HIDE DEF tags, V
  <2>. QED BY <2>1, MappedSeq
<1>2. reviews \in Seq(V)
  <2>1. reviews \in [DOMAIN effect.review_for -> V]
    BY DEF Range
  <2> HIDE DEF reviews, V
  <2>. QED BY <2>1, MappedSeq
<1>3. move \in Seq(V) /\ junk \in Seq(V)
  <2> HIDE DEF aMove, aJunk
  <2>1. aMove \in V /\ aJunk \in V
    OBVIOUS
  <2> HIDE DEF V
  <2>. QED BY <2>1
<1>4. Translate(effect) = tags \o move \o junk \o reviews
  BY DEF Translate
<1> HIDE DEF tags, move, junk, reviews, V
<1>5. tags \o move \in Seq(V)
  BY <1>1, <1>3, ConcatProperties
<1>6. tags \o move \o junk \in Seq(V)
  BY <1>3, <1>5, ConcatProperties
<1>7. Translate(effect) \in Seq(V)
  BY <1>2, <1>4, <1>6, ConcatProperties
<1>. QED BY <1>7, SeqOfRange

\* What the rules of a sequence ask for, each with an effect of its own.
Asked(rules) == UNION {Range(Translate(r.effect)) : r \in rules}

IsRule(r) == r.effect.tag \in Seq(STRING) /\ r.effect.review_for \in Seq(STRING)

LEMMA TranslateAllType ==
  ASSUME NEW S, NEW rules, rules \in Seq(S), \A r \in S : IsRule(r)
  PROVE  TranslateAll(rules) \in Seq(Asked(S))
<1> DEFINE effects == [i \in DOMAIN rules |-> Translate(rules[i].effect)]
           A == Asked(S)
<1>1. ASSUME NEW i \in DOMAIN rules
      PROVE  Translate(rules[i].effect) \in Seq(A)
  <2>1. rules[i] \in S
    BY LenProperties, ElementOfSeq
  <2>2. Translate(rules[i].effect) \in Seq(Range(Translate(rules[i].effect)))
    BY <2>1, TranslateType DEF IsRule
  <2>3. Range(Translate(rules[i].effect)) \subseteq A
    BY <2>1 DEF Asked
  <2>. QED BY ONLY <2>2, <2>3, SeqMonotonic
<1>2. effects \in [DOMAIN rules -> Seq(A)]
  BY <1>1
<1>3. TranslateAll(rules) = FlattenSeq(effects)
  BY DEF TranslateAll
<1> HIDE DEF effects, A
<1>4. effects \in Seq(Seq(A))
  BY <1>2, MappedSeq
<1>5. FlattenSeq(effects) \in Seq(A)
  BY <1>4, FlattenType
<1>. QED BY <1>3, <1>5 DEF A

\* A plan has the effects of active action rules, and may ask for a review.
LEMMA PlanType ==
  ASSUME NEW rules \in Stores, NEW message, NEW classification
  PROVE  Plan(Snapshot(rules, "action"), message, classification)
           \in Seq(ActiveEffects(rules) \cup {RequireReview("classification")})
<1> DEFINE R == {r \in Range(rules) : r.kind = "action" /\ IsEvaluated(r)}
           A == {r \in R : r.status = "active"}
           snapshot == Snapshot(rules, "action")
           applied  == AppliedRules(snapshot, ActionFields(message, classification))
           actions  == TranslateAll(applied)
           V == ActiveEffects(rules) \cup {RequireReview("classification")}
<1>1. snapshot \in Seq(R)
  <2>1. rules \in Seq(Range(rules))
    BY StoresAssumption
  <2>2. snapshot \in Seq(Range(rules) \cap R)
    BY <2>1, KeptType DEF Snapshot
  <2>3. Range(rules) \cap R \subseteq R
    OBVIOUS
  <2>. QED BY ONLY <2>2, <2>3, SeqMonotonic
<1>2. applied \in Seq(A)
  <2> HIDE DEF R, snapshot
  <2>. QED BY <1>1, AppliedRulesType
<1>3. \A r \in A : IsRule(r)
  BY StoresAssumption DEF IsRule, Range
<1>4. actions \in Seq(Asked(A))
  <2> HIDE DEF applied, A
  <2>. QED BY <1>2, <1>3, TranslateAllType
<1>5. Asked(A) \subseteq V
  BY DEF Asked, ActiveEffects, Range
<1>6. Plan(snapshot, message, classification) \in {actions, Append(actions, RequireReview("classification"))}
  BY DEF Plan
<1> HIDE DEF actions, A
<1>7. actions \in Seq(V)
  BY ONLY <1>4, <1>5, SeqMonotonic
<1>8. RequireReview("classification") \in V
  OBVIOUS
<1>9. Append(actions, RequireReview("classification")) \in Seq(V)
  <2> HIDE DEF V
  <2>. QED BY <1>7, <1>8, AppendProperties
<1>. QED BY <1>6, <1>7, <1>9

\* What is allowed is the effect of an active rule, and no move of a mail
\* classified as sensitive.
MayDo(rules, classification) ==
  {a \in ActiveEffects(rules) : a.kind = "move" => ~Sensitive(classification)}

LEMMA DecisionType ==
  ASSUME NEW rules \in Stores, NEW message
  PROVE  Decide(rules, message).allowed
           \in Seq(MayDo(rules, Decide(rules, message).classification))
<1> DEFINE c == Classify(Snapshot(rules, "classification"), message)
           actions == Plan(Snapshot(rules, "action"), message, c)
           B == ActiveEffects(rules) \cup {RequireReview("classification")}
           T == {a \in Range(actions) : Verdict(a, Sensitive(c)) = "allowed"}
<1>1. Decide(rules, message).allowed = Kept(actions, T)
  BY DEF Decide, Guard
<1>2. Decide(rules, message).classification = c
  BY DEF Decide
<1>3. actions \in Seq(B)
  BY PlanType
<1>4. B \cap T \subseteq MayDo(rules, c)
  <2>1. ASSUME NEW a, Verdict(a, Sensitive(c)) = "allowed"
        PROVE  a.kind # "require_review" /\ (a.kind = "move" => ~Sensitive(c))
    BY <2>1 DEF Verdict, Prohibited
  <2>2. RequireReview("classification").kind = "require_review"
    BY DEF RequireReview
  <2>. QED BY <2>1, <2>2 DEF MayDo
<1> HIDE DEF c, actions, B, T
<1>5. Kept(actions, T) \in Seq(B \cap T)
  BY <1>3, KeptType
<1>6. Kept(actions, T) \in Seq(MayDo(rules, c))
  BY ONLY <1>4, <1>5, SeqMonotonic
<1>. QED BY <1>1, <1>2, <1>6

-----------------------------------------------------------------------------
(* The invariants *)

\* The frames a host may still read, and those an extension may.
HostFrames ==
  [kind : {"new_mail"}, mail : Messages, id : {1}]
    \cup [kind : {"result"}, mail : Messages, n : Int]
    \cup [kind : {"message_moved"}, mail : Messages, by : {"user", "host"}]

HostCommands ==
  [kind : {"mail_command"}, mail : Messages, id : {1}, n : Nat, action : ActiveEffects(store)]

ExtFrames == [kind : {"classification_ready"}, mail : Messages] \cup HostCommands

\* A mail has an id from 1, and every command is by the id the mail came with.
BoxOK ==
  /\ DOMAIN box = Messages
  /\ \A m \in Messages :
       /\ DOMAIN box[m] = {"content", "folder", "id", "tags", "junk"}
       /\ box[m].content \in Contents /\ box[m].id \in Nat

TaskOK(t) ==
  /\ t = [command |-> t.command, at |-> t.at, tags |-> t.tags]
  /\ t.command.mail \in Messages /\ t.command.id = 1 /\ t.command.n \in Int
  /\ ~ByUser(t.command) => t.command \in HostCommands

Types ==
  /\ store \in Stores /\ spent \in [acts : Nat, pauses : Nat, losses : Nat]
  /\ toHost \in Seq(HostFrames) /\ toExt \in Seq(ExtFrames)
  /\ events \in Seq([mail : Messages, by : {"user", "host"}])
  /\ DOMAIN decided = Messages /\ ready \subseteq Messages

TasksOK == \A t \in tasks : TaskOK(t)

\* An event of a mail is of a mail that has been moved; the host moves a mail
\* only by its first id, so its event is the first of the mail's, and a mail
\* that can be told apart is remembered from before the move to the event.
EventsOK ==
  \A i \in DOMAIN events :
    /\ box[events[i].mail].id > 1
    /\ events[i].by = "host" =>
         /\ ToldApart(events[i].mail) => MessageId(events[i].mail) \in hostMoves
         /\ \A j \in 1 .. i - 1 : events[j].mail # events[i].mail

MovesRemembered ==
  \A t \in tasks :
    t.at = "moving" /\ box[t.command.mail].id = 1 /\ ToldApart(t.command.mail)
      => MessageId(t.command.mail) \in hostMoves

\* What the host is told, and what it has learned.
NotToldOf(f) == f.kind = "message_moved" /\ f.by = "host" => ~ToldApart(f.mail)

FramesOK == \A i \in DOMAIN toHost : NotToldOf(toHost[i])

FilingsOK == \A f \in filings : f.mail \in Messages /\ (f.by = "host" => ~ToldApart(f.mail))

\* A mail is reported once, and nothing is said or done of it until then.
IsReport(f) == f.kind = "new_mail"

Unhandled(m) ==
  box[m].id = 0 \/ \E i \in DOMAIN toHost : IsReport(toHost[i]) /\ toHost[i].mail = m

ReportedOnce ==
  \A i \in DOMAIN toHost : IsReport(toHost[i]) =>
    /\ box[toHost[i].mail].id # 0
    /\ \A j \in DOMAIN toHost :
         IsReport(toHost[j]) /\ toHost[j].mail = toHost[i].mail => j = i

NothingBefore ==
  \A m \in Messages : Unhandled(m) =>
    /\ m \notin ready
    /\ \A i \in DOMAIN toExt : toExt[i].mail # m
    /\ \A t \in tasks : t.command.mail # m

\* What a command is of: the decision made of its mail.
OfTheDecision(c) ==
  /\ c.n \in DOMAIN decided[c.mail].applied
  /\ c.action.kind = "move" => ~Sensitive(decided[c.mail].classification)

IsCommand(f) == f.kind = "mail_command"

CommandsDecided ==
  /\ \A i \in DOMAIN toExt : IsCommand(toExt[i]) => OfTheDecision(toExt[i])
  /\ \A t \in tasks : ~ByUser(t.command) => OfTheDecision(t.command)

\* The notification is behind the commands of its mail.
ReadyIsLast ==
  \A i \in DOMAIN toExt : IsCommand(toExt[i]) =>
    /\ toExt[i].mail \notin ready
    /\ \A j \in 1 .. i : IsCommand(toExt[j]) \/ toExt[j].mail # toExt[i].mail

EchoInv == EventsOK /\ MovesRemembered /\ FramesOK /\ FilingsOK

DecisionInv == ReportedOnce /\ NothingBefore /\ CommandsDecided /\ ReadyIsLast

MailInv == Types /\ BoxOK /\ TasksOK /\ EchoInv /\ DecisionInv

-----------------------------------------------------------------------------
(* What is done to a sequence *)

LEMMA Elements ==
  ASSUME NEW S, NEW s, s \in Seq(S)
  PROVE  \A i \in DOMAIN s : s[i] \in S
BY LenProperties, ElementOfSeq

LEMMA Taken ==
  ASSUME NEW S, NEW s, s \in Seq(S), s # <<>>
  PROVE  /\ Head(s) \in S /\ Tail(s) \in Seq(S) /\ 1 \in DOMAIN s /\ Head(s) = s[1]
         /\ \A i \in DOMAIN Tail(s) :
              i \in Nat /\ i > 0 /\ i + 1 \in DOMAIN s /\ Tail(s)[i] = s[i + 1]
<1>1. Len(s) \in Nat /\ DOMAIN s = 1 .. Len(s) /\ Len(s) # 0
  BY LenProperties, EmptySeq
<1>2. /\ Tail(s) \in Seq(S) /\ Len(Tail(s)) = Len(s) - 1 /\ Head(s) \in S
      /\ \A i \in 1 .. Len(Tail(s)) : Tail(s)[i] = s[i + 1]
  BY HeadTailProperties
<1>3. DOMAIN Tail(s) = 1 .. Len(Tail(s))
  BY <1>2, LenProperties
<1>4. Head(s) = s[1]
  BY <1>1
<1>. QED BY <1>1, <1>2, <1>3, <1>4

LEMMA Added ==
  ASSUME NEW S, NEW s, NEW e, s \in Seq(S), e \in S
  PROVE  /\ Append(s, e) \in Seq(S)
         /\ \A i \in DOMAIN Append(s, e) :
              \/ i \in DOMAIN s /\ Append(s, e)[i] = s[i]
              \/ i = Len(s) + 1 /\ Append(s, e)[i] = e
<1>1. Len(s) \in Nat /\ DOMAIN s = 1 .. Len(s)
  BY LenProperties
<1>2. /\ Append(s, e) \in Seq(S) /\ Len(Append(s, e)) = Len(s) + 1
      /\ \A i \in 1 .. Len(s) : Append(s, e)[i] = s[i]
      /\ Append(s, e)[Len(s) + 1] = e
  BY AppendProperties
<1>3. DOMAIN Append(s, e) = 1 .. Len(s) + 1
  BY <1>2, LenProperties
<1>. QED BY <1>1, <1>2, <1>3

LEMMA Joined ==
  ASSUME NEW S, NEW s, NEW t, s \in Seq(S), t \in Seq(S)
  PROVE  /\ s \o t \in Seq(S) /\ Len(s \o t) = Len(s) + Len(t) /\ Len(s) \in Nat /\ Len(t) \in Nat
         /\ DOMAIN s = 1 .. Len(s) /\ DOMAIN t = 1 .. Len(t)
         /\ DOMAIN (s \o t) = 1 .. Len(s) + Len(t)
         /\ \A i \in 1 .. Len(s) : (s \o t)[i] = s[i]
         /\ \A i \in 1 .. Len(s) + Len(t) : i > Len(s) => (s \o t)[i] = t[i - Len(s)]
<1>1. /\ Len(s) \in Nat /\ DOMAIN s = 1 .. Len(s)
      /\ Len(t) \in Nat /\ DOMAIN t = 1 .. Len(t)
  BY LenProperties
<1>2. /\ s \o t \in Seq(S) /\ Len(s \o t) = Len(s) + Len(t)
      /\ \A i \in 1 .. Len(s) + Len(t) : (s \o t)[i] = IF i <= Len(s) THEN s[i] ELSE t[i - Len(s)]
  BY ConcatProperties
<1>3. DOMAIN (s \o t) = 1 .. Len(s) + Len(t)
  BY <1>2, LenProperties
<1>. QED BY <1>1, <1>2, <1>3

LEMMA InitOK == Init => MailInv
<1> SUFFICES ASSUME Init PROVE MailInv
  OBVIOUS
<1>1. DOMAIN toHost = {} /\ DOMAIN toExt = {} /\ DOMAIN events = {}
  BY DEF Init
<1>2. Types
  BY EmptySeq, ConstantsAssumption DEF Init, Types
<1>3. BoxOK
  BY DEF Init, BoxOK
<1>4. TasksOK /\ EchoInv
  BY <1>1 DEF Init, TasksOK, EchoInv, EventsOK, MovesRemembered, FramesOK, FilingsOK
<1>5. ReportedOnce /\ CommandsDecided /\ ReadyIsLast
  BY <1>1 DEF Init, ReportedOnce, CommandsDecided, ReadyIsLast
<1>6. NothingBefore
  BY <1>1 DEF Init, NothingBefore
<1>. QED BY <1>2, <1>3, <1>4, <1>5, <1>6 DEF MailInv, DecisionInv

-----------------------------------------------------------------------------
(* What a step does to the frames, the mails and the tasks *)

\* Nothing but a new mail adds a report to what the host has still to read.
Hostward ==
  \/ toHost' = toHost \/ toHost' = <<>>
  \/ toHost # <<>> /\ toHost' = Tail(toHost)
  \/ \E f \in HostFrames : ~IsReport(f) /\ NotToldOf(f) /\ toHost' = Append(toHost, f)

NoneArrives ==
  \A m \in Messages : box'[m].id = box[m].id \/ (box'[m].id # 0 /\ box[m].id # 0)

\* No mail becomes another one, and none that moved is as if it never had.
KeepsMail ==
  /\ forgotten \subseteq forgotten'
  /\ \A m \in Messages :
       /\ box'[m].content = box[m].content
       /\ box[m].id > 1 => box'[m].id > 1

\* So a mail that can be told apart always could.
LEMMA LessToldApart ==
  ASSUME BoxOK, BoxOK', KeepsMail, NEW m \in Messages
  PROVE  MessageId(m)' = MessageId(m) /\ (ToldApart(m)' => ToldApart(m))
<1>1. \A k \in Messages : MessageId(k)' = MessageId(k)
  BY DEF MessageId, KeepsMail
<1>2. ASSUME ToldApart(m)', NEW k \in Messages, k # m, MessageId(k) = MessageId(m)
      PROVE  box[k].id <= 1
  <2>1. box'[k].id <= 1
    BY <1>1, <1>2 DEF ToldApart
  <2>. QED BY <2>1 DEF KeepsMail, BoxOK
<1>3. ToldApart(m)' => MessageId(m) # "" /\ m \notin forgotten
  BY <1>1 DEF ToldApart, KeepsMail
<1>. QED BY <1>1, <1>2, <1>3 DEF ToldApart

LEMMA HostwardFrames ==
  ASSUME Types, Hostward
  PROVE  /\ toHost' \in Seq(HostFrames)
         /\ \A i \in DOMAIN toHost' : IsReport(toHost'[i]) =>
              \/ i \in DOMAIN toHost /\ toHost'[i] = toHost[i]
              \/ /\ toHost # <<>> /\ toHost' = Tail(toHost)
                 /\ i + 1 \in DOMAIN toHost /\ i \in Nat /\ toHost'[i] = toHost[i + 1]
<1>1. toHost \in Seq(HostFrames)
  BY DEF Types
<1>2. CASE toHost' = toHost
  BY <1>1, <1>2
<1>3. CASE toHost' = <<>>
  BY <1>3, EmptySeq
<1>4. CASE toHost # <<>> /\ toHost' = Tail(toHost)
  <2>1. /\ Tail(toHost) \in Seq(HostFrames)
        /\ \A i \in DOMAIN Tail(toHost) :
             i \in Nat /\ i > 0 /\ i + 1 \in DOMAIN toHost /\ Tail(toHost)[i] = toHost[i + 1]
    BY <1>1, <1>4, Taken
  <2>. QED BY <1>4, <2>1
<1>5. CASE \E f \in HostFrames : ~IsReport(f) /\ NotToldOf(f) /\ toHost' = Append(toHost, f)
  <2>1. PICK f \in HostFrames : ~IsReport(f) /\ toHost' = Append(toHost, f)
    BY <1>5
  <2>2. /\ Append(toHost, f) \in Seq(HostFrames)
        /\ \A i \in DOMAIN Append(toHost, f) :
             \/ i \in DOMAIN toHost /\ Append(toHost, f)[i] = toHost[i]
             \/ i = Len(toHost) + 1 /\ Append(toHost, f)[i] = f
    BY <1>1, Added
  <2>. QED BY <2>1, <2>2
<1>. QED BY <1>2, <1>3, <1>4, <1>5 DEF Hostward

\* So the mails still unhandled are of those that were, each reported once.
LEMMA HostwardUnhandled ==
  ASSUME Types, Hostward, NoneArrives, NEW m \in Messages, Unhandled(m)'
  PROVE  Unhandled(m)
<1>1. CASE box'[m].id = 0
  BY <1>1 DEF NoneArrives, Unhandled
<1>2. CASE \E i \in DOMAIN toHost' : IsReport(toHost'[i]) /\ toHost'[i].mail = m
  <2>1. PICK i \in DOMAIN toHost' : IsReport(toHost'[i]) /\ toHost'[i].mail = m
    BY <1>2
  <2>2. \E j \in DOMAIN toHost : toHost'[i] = toHost[j]
    BY <2>1, HostwardFrames
  <2>. QED BY <2>1, <2>2 DEF Unhandled
<1>. QED BY <1>1, <1>2 DEF Unhandled, IsReport

LEMMA HostwardReports ==
  ASSUME Types, Hostward, NoneArrives, ReportedOnce
  PROVE  ReportedOnce'
<1> DEFINE Shift == toHost # <<>> /\ toHost' = Tail(toHost)
<1>1. \A i \in DOMAIN toHost' : IsReport(toHost'[i]) =>
         \/ i \in DOMAIN toHost /\ toHost'[i] = toHost[i]
         \/ Shift /\ i + 1 \in DOMAIN toHost /\ i \in Nat /\ toHost'[i] = toHost[i + 1]
  BY HostwardFrames
<1>2. ASSUME NEW i \in DOMAIN toHost', IsReport(toHost'[i])
      PROVE  box'[toHost'[i].mail].id # 0
  <2>1. PICK j \in DOMAIN toHost : toHost'[i] = toHost[j]
    BY <1>1, <1>2
  <2>2. toHost[j].mail \in Messages
    BY <2>1, <1>2, LenProperties, ElementOfSeq DEF Types, HostFrames
  <2>. QED BY <1>2, <2>1, <2>2 DEF ReportedOnce, NoneArrives
<1>3. ASSUME NEW i \in DOMAIN toHost', NEW j \in DOMAIN toHost',
             IsReport(toHost'[i]), IsReport(toHost'[j]), toHost'[j].mail = toHost'[i].mail
      PROVE  j = i
  <2>1. CASE Shift
    <3>1. \A k \in DOMAIN toHost' : k \in Nat /\ k + 1 \in DOMAIN toHost /\ toHost'[k] = toHost[k + 1]
      BY <2>1, Taken DEF Types
    <3>2. i + 1 = j + 1
      BY <1>3, <3>1 DEF ReportedOnce
    <3>. QED BY <3>1, <3>2
  <2>2. CASE ~Shift
    BY <1>1, <1>3, <2>2 DEF ReportedOnce
  <2>. QED BY <2>1, <2>2
<1>. QED BY <1>2, <1>3 DEF ReportedOnce, IsReport

\* What the extension still has to read only gets shorter.
Extward ==
  /\ store' = store
  /\ toExt' = toExt \/ toExt' = <<>> \/ (toExt # <<>> /\ toExt' = Tail(toExt))

LEMMA ExtwardFrames ==
  ASSUME Types, Extward
  PROVE  /\ toExt' \in Seq(ExtFrames) /\ ExtFrames' = ExtFrames /\ HostCommands' = HostCommands
         /\ \A i \in DOMAIN toExt' : \E j \in DOMAIN toExt : toExt'[i] = toExt[j]
<1>1. toExt \in Seq(ExtFrames)
  BY DEF Types
<1>2. ExtFrames' = ExtFrames /\ HostCommands' = HostCommands
  BY DEF Extward, ExtFrames, HostCommands
<1>3. CASE toExt' = toExt
  BY <1>1, <1>2, <1>3
<1>4. CASE toExt' = <<>>
  BY <1>2, <1>4, EmptySeq
<1>5. CASE toExt # <<>> /\ toExt' = Tail(toExt)
  <2>1. /\ Tail(toExt) \in Seq(ExtFrames)
        /\ \A i \in DOMAIN Tail(toExt) : i + 1 \in DOMAIN toExt /\ Tail(toExt)[i] = toExt[i + 1]
    BY <1>1, <1>5, Taken
  <2>. QED BY <1>2, <1>5, <2>1
<1>. QED BY <1>3, <1>4, <1>5 DEF Extward

\* The mails whose notification has been read only gain the one just read.
Readyward ==
  \/ ready' = ready
  \/ /\ toExt # <<>> /\ toExt' = Tail(toExt) /\ ~IsCommand(Head(toExt))
     /\ ready' = ready \cup {Head(toExt).mail}

LEMMA ReadywardLast ==
  ASSUME Types, Extward, Readyward, ReadyIsLast
  PROVE  ReadyIsLast'
<1> SUFFICES ASSUME NEW i \in DOMAIN toExt', IsCommand(toExt'[i]), NEW k \in 1 .. i
             PROVE  /\ toExt'[i].mail \notin ready'
                    /\ IsCommand(toExt'[k]) \/ toExt'[k].mail # toExt'[i].mail
  <2>1. toExt' \in Seq(ExtFrames)
    BY ExtwardFrames
  <2>2. DOMAIN toExt' = 1 .. Len(toExt') /\ Len(toExt') \in Nat
    BY <2>1, LenProperties
  <2>3. ASSUME NEW i \in DOMAIN toExt' PROVE i \in 1 .. i
    BY <2>2
  <2>. QED BY <2>3 DEF ReadyIsLast, IsCommand
<1>1. DOMAIN toExt' = 1 .. Len(toExt') /\ Len(toExt') \in Nat
  BY ExtwardFrames, LenProperties
<1>2. CASE toExt' = toExt /\ ready' = ready
  BY <1>2 DEF ReadyIsLast
<1>3. CASE toExt' = <<>>
  BY <1>1, <1>3, EmptySeq
<1>4. CASE toExt # <<>> /\ toExt' = Tail(toExt)
  <2>1. /\ 1 \in DOMAIN toExt /\ Head(toExt) = toExt[1]
        /\ \A j \in DOMAIN toExt' : j \in Nat /\ j > 0 /\ j + 1 \in DOMAIN toExt /\ toExt'[j] = toExt[j + 1]
    BY <1>4, Taken DEF Types
  <2>2. k \in DOMAIN toExt'
    BY <1>1
  <2>3. i + 1 \in DOMAIN toExt /\ IsCommand(toExt[i + 1]) /\ toExt'[i] = toExt[i + 1]
        /\ toExt'[k] = toExt[k + 1] /\ k + 1 \in 1 .. i + 1 /\ 1 \in 1 .. i + 1
    BY <2>1, <2>2
  <2>4. toExt[i + 1].mail \notin ready
    BY <2>3 DEF ReadyIsLast
  <2>5. IsCommand(toExt[1]) \/ toExt[1].mail # toExt[i + 1].mail
    BY <2>3 DEF ReadyIsLast
  <2>6. IsCommand(toExt[k + 1]) \/ toExt[k + 1].mail # toExt[i + 1].mail
    BY <2>3 DEF ReadyIsLast
  <2>. QED BY <2>1, <2>3, <2>4, <2>5, <2>6 DEF Readyward
<1>5. toExt' = toExt /\ ready' # ready => FALSE
  <2>1. ASSUME toExt' = toExt, ready' # ready PROVE FALSE
    <3>1. toExt # <<>> /\ toExt' = Tail(toExt)
      BY <2>1 DEF Readyward
    <3>2. toExt \in Seq(ExtFrames)
      BY DEF Types
    <3>3. Len(Tail(toExt)) = Len(toExt) - 1 /\ Len(toExt) \in Nat
      BY <3>1, <3>2, HeadTailProperties, LenProperties
    <3>. QED BY <2>1, <3>1, <3>3
  <2>. QED BY <2>1
<1>. QED BY <1>2, <1>3, <1>4, <1>5 DEF Extward

\* A handler runs the command another one ran, the one just read, or one the
\* user asked for on the card.
Taskward ==
  \A t \in tasks' :
    /\ t = [command |-> t.command, at |-> t.at, tags |-> t.tags]
    /\ \/ \E u \in tasks : t.command = u.command
       \/ toExt # <<>> /\ IsCommand(Head(toExt)) /\ t.command = Head(toExt)
       \/ /\ ByUser(t.command) /\ t.command.mail \in ready
          /\ t.command.id = 1 /\ t.command.n \in Int

LEMMA HeadIsCommand ==
  ASSUME Types, toExt # <<>>, IsCommand(Head(toExt))
  PROVE  Head(toExt) \in HostCommands /\ \E j \in DOMAIN toExt : toExt[j] = Head(toExt)
<1>1. Head(toExt) \in ExtFrames /\ 1 \in DOMAIN toExt /\ Head(toExt) = toExt[1]
  BY Taken DEF Types
<1>. QED BY <1>1 DEF ExtFrames, IsCommand

LEMMA TaskwardTypes ==
  ASSUME Types, TasksOK, Extward, Taskward
  PROVE  TasksOK'
<1> SUFFICES ASSUME NEW t \in tasks'
             PROVE  TaskOK(t)'
  BY DEF TasksOK
<1>1. HostCommands' = HostCommands
  BY ExtwardFrames
<1>2. t = [command |-> t.command, at |-> t.at, tags |-> t.tags]
  BY DEF Taskward
<1>3. CASE \E u \in tasks : t.command = u.command
  BY <1>1, <1>2, <1>3 DEF TasksOK, TaskOK, ByUser
<1>4. CASE toExt # <<>> /\ IsCommand(Head(toExt)) /\ t.command = Head(toExt)
  <2>1. t.command \in HostCommands
    BY <1>4, HeadIsCommand
  <2>2. t.command.mail \in Messages /\ t.command.id = 1 /\ t.command.n \in Int
    BY <2>1 DEF HostCommands
  <2>3. t.command \in HostCommands'
    BY <1>1, <2>1
  <2>. QED BY <1>2, <2>2, <2>3 DEF TaskOK
<1>5. CASE ByUser(t.command) /\ t.command.mail \in ready /\ t.command.id = 1 /\ t.command.n \in Int
  BY <1>2, <1>5 DEF TaskOK, ByUser, Types
<1>. QED BY <1>3, <1>4, <1>5 DEF Taskward

LEMMA TaskwardNothing ==
  ASSUME Types, Extward, Readyward, Taskward, NothingBefore,
         \A m \in Messages : Unhandled(m)' => Unhandled(m)
  PROVE  NothingBefore'
<1> SUFFICES ASSUME NEW m \in Messages, Unhandled(m)
             PROVE  /\ m \notin ready'
                    /\ \A i \in DOMAIN toExt' : toExt'[i].mail # m
                    /\ \A t \in tasks' : t.command.mail # m
  BY DEF NothingBefore
<1>1. m \notin ready /\ (\A i \in DOMAIN toExt : toExt[i].mail # m)
      /\ \A t \in tasks : t.command.mail # m
  BY DEF NothingBefore
<1>2. toExt # <<>> => Head(toExt).mail # m
  BY <1>1, Taken DEF Types
<1>3. m \notin ready'
  BY <1>1, <1>2 DEF Readyward
<1>4. \A i \in DOMAIN toExt' : toExt'[i].mail # m
  BY <1>1, ExtwardFrames
<1>5. \A t \in tasks' : t.command.mail # m
  BY <1>1, <1>2 DEF Taskward
<1>. QED BY <1>3, <1>4, <1>5

LEMMA TaskwardDecided ==
  ASSUME Types, Extward, Taskward, CommandsDecided, decided' = decided
  PROVE  CommandsDecided'
<1>1. \A c : OfTheDecision(c) => OfTheDecision(c)'
  BY DEF OfTheDecision
<1>2. ASSUME NEW i \in DOMAIN toExt', IsCommand(toExt'[i])
      PROVE  OfTheDecision(toExt'[i])
  <2>1. PICK j \in DOMAIN toExt : toExt'[i] = toExt[j]
    BY ExtwardFrames
  <2>. QED BY <1>2, <2>1 DEF CommandsDecided
<1>3. ASSUME NEW t \in tasks', ~ByUser(t.command)
      PROVE  OfTheDecision(t.command)
  <2>1. CASE \E u \in tasks : t.command = u.command
    BY <1>3, <2>1 DEF CommandsDecided
  <2>2. CASE toExt # <<>> /\ IsCommand(Head(toExt)) /\ t.command = Head(toExt)
    BY <2>2, HeadIsCommand DEF CommandsDecided
  <2>. QED BY <1>3, <2>1, <2>2 DEF Taskward
<1>4. \A i \in DOMAIN toExt' : IsCommand(toExt'[i]) => \A c : c = toExt'[i] => OfTheDecision(c)'
  BY <1>1, <1>2
<1>5. \A t \in tasks' : ~ByUser(t.command) => OfTheDecision(t.command)'
  BY <1>1, <1>3
<1>. QED BY <1>4, <1>5 DEF CommandsDecided, OfTheDecision, IsCommand

\* A step that decides nothing and brings no new mail.
Quiet == Hostward /\ NoneArrives /\ KeepsMail /\ Extward /\ Readyward /\ Taskward /\ decided' = decided

LEMMA QuietStep ==
  ASSUME MailInv, Quiet
  PROVE  /\ toHost' \in Seq(HostFrames) /\ toExt' \in Seq(ExtFrames') /\ store' \in Stores
         /\ DOMAIN decided' = Messages /\ ready' \subseteq Messages
         /\ TasksOK' /\ DecisionInv'
<1>1. toHost' \in Seq(HostFrames) /\ toExt' \in Seq(ExtFrames')
  BY HostwardFrames, ExtwardFrames DEF MailInv, Quiet
<1>2. store' \in Stores /\ DOMAIN decided' = Messages
  BY DEF MailInv, Types, Quiet, Extward
<1>3. ready' \subseteq Messages
  <2>1. toExt # <<>> => Head(toExt) \in ExtFrames
    BY Taken DEF MailInv, Types
  <2>2. \A f \in ExtFrames : f.mail \in Messages
    BY DEF ExtFrames, HostCommands
  <2>. QED BY <2>1, <2>2 DEF MailInv, Types, Quiet, Readyward
<1>4. TasksOK'
  BY TaskwardTypes DEF MailInv, Quiet
<1>5. \A m \in Messages : Unhandled(m)' => Unhandled(m)
  BY HostwardUnhandled DEF MailInv, Quiet
<1>6. ReportedOnce'
  BY HostwardReports DEF MailInv, DecisionInv, Quiet
<1>7. NothingBefore'
  BY <1>5, TaskwardNothing DEF MailInv, DecisionInv, Quiet
<1>8. CommandsDecided'
  BY TaskwardDecided DEF MailInv, DecisionInv, Quiet
<1>9. ReadyIsLast'
  BY ReadywardLast DEF MailInv, DecisionInv, Quiet
<1>. QED BY <1>1, <1>2, <1>3, <1>4, <1>6, <1>7, <1>8, <1>9 DEF DecisionInv

\* Moves, and what is remembered of them.
LEMMA EventTypes ==
  ASSUME Types
  PROVE  \A i \in DOMAIN events : events[i].mail \in Messages /\ events[i].by \in {"user", "host"}
<1> DEFINE Moves == [mail : Messages, by : {"user", "host"}]
<1>1. events \in Seq(Moves)
  BY DEF Types
<1>2. \A e \in Moves : e.mail \in Messages /\ e.by \in {"user", "host"}
  OBVIOUS
<1> HIDE DEF Moves
<1>3. \A i \in DOMAIN events : events[i] \in Moves
  BY <1>1, Elements
<1>. QED BY <1>2, <1>3

LEMMA EventsKept ==
  ASSUME Types, BoxOK, BoxOK', KeepsMail, EventsOK, events' = events, hostMoves \subseteq hostMoves'
  PROVE  EventsOK'
<1> SUFFICES ASSUME NEW i \in DOMAIN events
             PROVE  /\ box'[events[i].mail].id > 1
                    /\ events[i].by = "host" =>
                         /\ ToldApart(events[i].mail)' => MessageId(events[i].mail)' \in hostMoves'
                         /\ \A j \in 1 .. i - 1 : events[j].mail # events[i].mail
  BY DEF EventsOK, ToldApart, MessageId
<1>1. events[i].mail \in Messages
  BY EventTypes
<1>2. /\ box[events[i].mail].id > 1
      /\ events[i].by = "host" =>
           /\ ToldApart(events[i].mail) => MessageId(events[i].mail) \in hostMoves
           /\ \A j \in 1 .. i - 1 : events[j].mail # events[i].mail
  BY DEF EventsOK
<1>3. box'[events[i].mail].id > 1
  BY <1>1, <1>2 DEF KeepsMail
<1> DEFINE m == events[i].mail
<1>4. MessageId(m)' = MessageId(m) /\ (ToldApart(m)' => ToldApart(m))
  <2> HIDE DEF m
  <2>. QED BY <1>1, LessToldApart DEF m
<1>. QED BY <1>2, <1>3, <1>4

LEMMA MovesKept ==
  ASSUME BoxOK, BoxOK', KeepsMail, MovesRemembered, hostMoves \subseteq hostMoves',
         \A t \in tasks : t.command.mail \in Messages,
         \A t \in tasks' : t.at = "moving" =>
           t \in tasks \/ \A m : m = t.command.mail /\ ToldApart(m)' => MessageId(m)' \in hostMoves',
         \A t \in tasks : box'[t.command.mail].id = 1 => box[t.command.mail].id = 1
  PROVE  MovesRemembered'
<1> SUFFICES ASSUME NEW t \in tasks', t.at = "moving", NEW m, m = t.command.mail,
                    box'[m].id = 1, ToldApart(m)'
             PROVE  MessageId(m)' \in hostMoves'
  BY DEF MovesRemembered, ToldApart, MessageId
<1>1. CASE t \in tasks
  <2>1. m \in Messages /\ box[m].id = 1
    BY <1>1
  <2>2. MessageId(m)' = MessageId(m) /\ ToldApart(m)
    BY <2>1, LessToldApart
  <2>. QED BY <1>1, <2>1, <2>2 DEF MovesRemembered
<1>2. CASE t \notin tasks
  BY <1>2
<1>. QED BY <1>1, <1>2

LEMMA FramesKept ==
  ASSUME Types, BoxOK, BoxOK', KeepsMail, FramesOK, Hostward
  PROVE  FramesOK'
<1>1. \A f \in HostFrames : f.mail \in Messages
  BY DEF HostFrames
<1>2. ASSUME NEW f \in HostFrames, NotToldOf(f)
      PROVE  NotToldOf(f)'
  <2>1. f.mail \in Messages
    BY <1>1
  <2>2. ToldApart(f.mail)' => ToldApart(f.mail)
    BY <2>1, LessToldApart
  <2>. QED BY <1>2, <2>2 DEF NotToldOf
<1>3. toHost \in Seq(HostFrames) /\ \A i \in DOMAIN toHost : toHost[i] \in HostFrames
  BY Elements DEF Types
<1>4. ASSUME NEW i \in DOMAIN toHost'
      PROVE  \E f \in HostFrames : toHost'[i] = f /\ NotToldOf(f)
  <2>1. CASE toHost' = toHost
    BY <1>3, <2>1 DEF FramesOK
  <2>2. CASE toHost' = <<>>
    BY <1>4, <2>2
  <2>3. CASE toHost # <<>> /\ toHost' = Tail(toHost)
    <3>1. i + 1 \in DOMAIN toHost /\ toHost'[i] = toHost[i + 1]
      BY <1>3, <1>4, <2>3, Taken
    <3>. QED BY <1>3, <3>1 DEF FramesOK
  <2>4. CASE \E f \in HostFrames : ~IsReport(f) /\ NotToldOf(f) /\ toHost' = Append(toHost, f)
    <3>1. PICK f \in HostFrames : NotToldOf(f) /\ toHost' = Append(toHost, f)
      BY <2>4
    <3>2. (i \in DOMAIN toHost /\ toHost'[i] = toHost[i]) \/ toHost'[i] = f
      BY <1>3, <1>4, <3>1, Added
    <3>. QED BY <1>3, <3>1, <3>2 DEF FramesOK
  <2>. QED BY <2>1, <2>2, <2>3, <2>4 DEF Hostward
<1>5. ASSUME NEW i \in DOMAIN toHost', NEW g, g = toHost'[i]
      PROVE  NotToldOf(g)'
  BY <1>2, <1>4, <1>5
<1>. QED BY <1>5 DEF FramesOK, NotToldOf, ToldApart, MessageId

LEMMA FilingsKept ==
  ASSUME BoxOK, BoxOK', KeepsMail, FilingsOK, filings' = filings
  PROVE  FilingsOK'
<1> SUFFICES ASSUME NEW f \in filings, NEW m, m = f.mail
             PROVE  m \in Messages /\ (f.by = "host" => ~ToldApart(m)')
  BY DEF FilingsOK, ToldApart, MessageId
<1>1. m \in Messages /\ (f.by = "host" => ~ToldApart(m))
  BY DEF FilingsOK
<1>. QED BY <1>1, LessToldApart

LEMMA MovedMail ==
  ASSUME BoxOK, NEW m \in Messages, NEW folder, NEW by, Moved(m, folder, by)
  PROVE  /\ BoxOK' /\ box'[m].id = box[m].id + 1 /\ box'[m].content = box[m].content
         /\ \A k \in Messages : k # m => box'[k] = box[k]
<1> DEFINE mail == [[box[m] EXCEPT !.folder = folder] EXCEPT !.id = box[m].id + 1]
<1>1. /\ DOMAIN box = Messages /\ DOMAIN box[m] = {"content", "folder", "id", "tags", "junk"}
      /\ box[m].content \in Contents /\ box[m].id \in Nat
  BY DEF BoxOK
<1>2. box' = [box EXCEPT ![m] = mail]
  BY <1>1 DEF Moved
<1>3. /\ DOMAIN mail = {"content", "folder", "id", "tags", "junk"}
      /\ mail.content = box[m].content /\ mail.id = box[m].id + 1
  BY <1>1
<1> HIDE DEF mail
<1>4. DOMAIN box' = Messages /\ box'[m] = mail /\ \A k \in Messages : k # m => box'[k] = box[k]
  BY <1>1, <1>2
<1>5. mail.content \in Contents /\ mail.id \in Nat
  BY <1>1, <1>3
<1>6. \A k \in Messages :
        /\ DOMAIN box'[k] = {"content", "folder", "id", "tags", "junk"}
        /\ box'[k].content \in Contents /\ box'[k].id \in Nat
  BY <1>3, <1>4, <1>5 DEF BoxOK
<1>. QED BY <1>3, <1>4, <1>6 DEF BoxOK

\* What else is written to a mail leaves its content and its id.
LEMMA WrittenMail ==
  ASSUME BoxOK, NEW m \in Messages, NEW field \in {"tags", "junk"}, NEW value,
         box' = [box EXCEPT ![m] = [box[m] EXCEPT ![field] = value]]
  PROVE  BoxOK' /\ \A k \in Messages : box'[k].id = box[k].id /\ box'[k].content = box[k].content
<1> DEFINE mail == [box[m] EXCEPT ![field] = value]
<1>1. /\ DOMAIN box = Messages /\ DOMAIN box[m] = {"content", "folder", "id", "tags", "junk"}
      /\ box[m].content \in Contents /\ box[m].id \in Nat
  BY DEF BoxOK
<1>2. /\ DOMAIN mail = {"content", "folder", "id", "tags", "junk"}
      /\ mail.content = box[m].content /\ mail.id = box[m].id
  BY <1>1
<1>3. box' = [box EXCEPT ![m] = mail]
  OBVIOUS
<1> HIDE DEF mail
<1>4. DOMAIN box' = Messages /\ box'[m] = mail /\ \A k \in Messages : k # m => box'[k] = box[k]
  BY <1>1, <1>3
<1>5. \A k \in Messages :
        /\ DOMAIN box'[k] = {"content", "folder", "id", "tags", "junk"}
        /\ box'[k].content \in Contents /\ box'[k].id \in Nat
        /\ box'[k].id = box[k].id /\ box'[k].content = box[k].content
  BY <1>1, <1>2, <1>4 DEF BoxOK
<1>. QED BY <1>4, <1>5 DEF BoxOK

\* The answer of a handler is no report.
LEMMA ReportedIsHostward ==
  ASSUME NEW c, c.mail \in Messages, c.n \in Int, NEW done, toHost' = Reported(c, done)
  PROVE  Hostward
<1>1. Result(c) \in HostFrames /\ ~IsReport(Result(c)) /\ NotToldOf(Result(c))
  BY DEF Result, HostFrames, IsReport, NotToldOf
<1>. QED BY <1>1 DEF Reported, Hostward

\* Steps that move no mail.
LEMMA EchoKept ==
  ASSUME MailInv, BoxOK', KeepsMail, Hostward,
         events' = events, hostMoves \subseteq hostMoves', filings' = filings,
         \A m \in Messages : box'[m].id = box[m].id,
         \A t \in tasks' : t.at = "moving" =>
           t \in tasks \/ \A m : m = t.command.mail /\ ToldApart(m)' => MessageId(m)' \in hostMoves'
  PROVE  EchoInv'
<1>1. EventsOK'
  BY EventsKept DEF MailInv, EchoInv
<1>2. \A t \in tasks : t.command.mail \in Messages
  BY DEF MailInv, TasksOK, TaskOK
<1>3. MovesRemembered'
  BY <1>2, MovesKept DEF MailInv, EchoInv
<1>4. FramesOK' /\ FilingsOK'
  BY FramesKept, FilingsKept DEF MailInv, EchoInv
<1>. QED BY <1>1, <1>3, <1>4 DEF EchoInv

\* Handlers that end, or run on.
LEMMA TasksEnd ==
  ASSUME MailInv, \A t \in tasks' : \E u \in tasks : t = u \/ t = [u EXCEPT !.at = "moving"]
  PROVE  Taskward
<1> SUFFICES ASSUME NEW t \in tasks'
             PROVE  /\ t = [command |-> t.command, at |-> t.at, tags |-> t.tags]
                    /\ \E u \in tasks : t.command = u.command
  BY DEF Taskward
<1>1. PICK u \in tasks : t = u \/ t = [u EXCEPT !.at = "moving"]
  OBVIOUS
<1>2. u = [command |-> u.command, at |-> u.at, tags |-> u.tags]
  BY DEF MailInv, TasksOK, TaskOK
<1>3. CASE t = u
  BY <1>2, <1>3
<1>4. CASE t = [u EXCEPT !.at = "moving"]
  <2>1. t = [command |-> u.command, at |-> "moving", tags |-> u.tags]
    BY <1>2, <1>4
  <2>. QED BY <2>1
<1>. QED BY <1>1, <1>3, <1>4

-----------------------------------------------------------------------------
(* The invariant, action by action *)

LEMMA UserMovesOK ==
  ASSUME MailInv, NEW m \in Messages, NEW folder, UserMoves(m, folder)
  PROVE  MailInv'
<1>1. /\ m \in Arrived /\ Moved(m, folder, "user") /\ spent' = [spent EXCEPT !.acts = @ + 1]
      /\ UNCHANGED <<wire, extension, host, answered>>
  BY DEF UserMoves
<1>2. /\ BoxOK' /\ box'[m].id = box[m].id + 1 /\ box'[m].content = box[m].content
      /\ \A k \in Messages : k # m => box'[k] = box[k]
  BY <1>1, MovedMail DEF MailInv
<1>3. box[m].id \in Nat /\ box[m].id > 0
  BY <1>1 DEF MailInv, BoxOK, Arrived
<1>4. Quiet
  <2>1. Taskward
    BY <1>1, TasksEnd DEF extension
  <2>2. NoneArrives
    BY <1>2, <1>3 DEF NoneArrives
  <2>3. KeepsMail
    BY <1>1, <1>2, <1>3 DEF KeepsMail, extension
  <2>. QED BY <1>1, <2>1, <2>2, <2>3 DEF Quiet, Hostward, Extward, Readyward, wire, extension, host
<1>5. /\ Append(events, [mail |-> m, by |-> "user"]) \in Seq([mail : Messages, by : {"user", "host"}])
      /\ \A i \in DOMAIN events' :
           \/ i \in DOMAIN events /\ events'[i] = events[i]
           \/ i = Len(events) + 1 /\ events'[i] = [mail |-> m, by |-> "user"]
  BY <1>1, Added DEF Moved, MailInv, Types
<1>6. Types'
  <2>1. spent' \in [acts : Nat, pauses : Nat, losses : Nat]
    BY <1>1 DEF MailInv, Types
  <2>. QED BY <1>1, <1>4, <1>5, <2>1, QuietStep DEF Types, Moved, MailInv, extension
<1>7. EventsOK'
  <2>1. ASSUME NEW i \in DOMAIN events'
        PROVE  box'[events'[i].mail].id > 1
    BY <1>2, <1>3, <1>5, EventTypes DEF MailInv, EchoInv, EventsOK
  <2>2. ASSUME NEW i \in DOMAIN events', events'[i].by = "host", NEW k, k = events'[i].mail
        PROVE  /\ ToldApart(k)' => MessageId(k)' \in hostMoves'
               /\ \A j \in 1 .. i - 1 : events'[j].mail # k
    <3>1. i \in DOMAIN events /\ events'[i] = events[i] /\ k \in Messages
      BY <1>5, <2>2, EventTypes DEF MailInv
    <3>2. DOMAIN events = 1 .. Len(events) /\ DOMAIN events' = 1 .. Len(events') /\ Len(events) \in Nat
          /\ Len(events') = Len(events) + 1
      BY <1>1, LenProperties, AppendProperties DEF Moved, MailInv, Types
    <3>3. \A j \in 1 .. i - 1 : j \in DOMAIN events' /\ j # Len(events) + 1
      BY <3>1, <3>2
    <3>4. MessageId(k)' = MessageId(k) /\ (ToldApart(k)' => ToldApart(k))
      BY <1>2, <1>4, <3>1, LessToldApart DEF MailInv, Quiet
    <3>5. /\ ToldApart(k) => MessageId(k) \in hostMoves
          /\ \A j \in 1 .. i - 1 : events[j].mail # k
      BY <2>2, <3>1 DEF MailInv, EchoInv, EventsOK
    <3>. QED BY <1>1, <1>5, <3>3, <3>4, <3>5 DEF extension
  <2>. QED BY <2>1, <2>2 DEF EventsOK, ToldApart, MessageId
<1>8. MovesRemembered'
  <2>1. \A t \in tasks : t.command.mail \in Messages
    BY DEF MailInv, TasksOK, TaskOK
  <2>2. \A t \in tasks : box'[t.command.mail].id = 1 => box[t.command.mail].id = 1
    BY <1>2, <1>3, <2>1
  <2>. QED BY <1>1, <1>2, <1>4, <2>1, <2>2, MovesKept DEF MailInv, EchoInv, Quiet, extension
<1>9. FramesOK' /\ FilingsOK'
  BY <1>1, <1>2, <1>4, FramesKept, FilingsKept DEF MailInv, EchoInv, Quiet, host
<1>. QED BY <1>2, <1>4, <1>6, <1>7, <1>8, <1>9, QuietStep DEF MailInv, EchoInv

LEMMA TaskMail ==
  ASSUME MailInv, NEW t \in tasks
  PROVE  t.command.mail \in Messages /\ t.command.n \in Int /\ t.command.id = 1
BY DEF MailInv, TasksOK, TaskOK

\* What is left to show of a quiet step.
LEMMA QuietOK ==
  ASSUME MailInv, Quiet, BoxOK', EchoInv',
         events' \in Seq([mail : Messages, by : {"user", "host"}]),
         spent' \in [acts : Nat, pauses : Nat, losses : Nat]
  PROVE  MailInv'
<1>1. Types'
  BY QuietStep DEF Types
<1>. QED BY <1>1, QuietStep DEF MailInv

\* A quiet step that moves no mail and remembers no less.
LEMMA StillOK ==
  ASSUME MailInv, Quiet, BoxOK', events' = events, filings' = filings,
         hostMoves \subseteq hostMoves',
         \A m \in Messages : box'[m].id = box[m].id,
         \A t \in tasks' : t.at = "moving" =>
           t \in tasks \/ \A m : m = t.command.mail /\ ToldApart(m)' => MessageId(m)' \in hostMoves',
         spent' \in [acts : Nat, pauses : Nat, losses : Nat]
  PROVE  MailInv'
<1>1. EchoInv'
  BY EchoKept DEF Quiet
<1>2. events' \in Seq([mail : Messages, by : {"user", "host"}])
  BY DEF MailInv, Types
<1>. QED BY <1>1, <1>2, QuietOK

LEMMA SetPauseOK ==
  ASSUME MailInv, SetPause
  PROVE  MailInv'
<1>1. spent' \in [acts : Nat, pauses : Nat, losses : Nat]
  BY DEF MailInv, Types, SetPause
<1>2. /\ UNCHANGED <<box, events, toHost, toExt, tasks, hostMoves, ready, forgotten, store, filings, decided>>
  BY DEF SetPause, thunderbird, wire, extension
<1>3. Taskward
  BY <1>2, TasksEnd
<1>4. Quiet
  BY <1>2, <1>3 DEF Quiet, Hostward, NoneArrives, KeepsMail, Extward, Readyward
<1>5. BoxOK'
  BY <1>2 DEF MailInv, Types, BoxOK
<1>. QED BY <1>1, <1>2, <1>4, <1>5, StillOK

LEMMA LosePortOK ==
  ASSUME MailInv, LosePort
  PROVE  MailInv'
<1>1. spent' \in [acts : Nat, pauses : Nat, losses : Nat]
  BY DEF MailInv, Types, LosePort
<1>2. /\ UNCHANGED <<box, events, tasks, hostMoves, ready, forgotten, store, filings, decided>>
      /\ toHost' = <<>> /\ toExt' = <<>>
  BY DEF LosePort, thunderbird, extension, host
<1>3. Taskward
  BY <1>2, TasksEnd
<1>4. Quiet
  BY <1>2, <1>3 DEF Quiet, Hostward, NoneArrives, KeepsMail, Extward, Readyward
<1>5. BoxOK'
  BY <1>2 DEF MailInv, Types, BoxOK
<1>. QED BY <1>1, <1>2, <1>4, <1>5, StillOK

\* A mail whose mark is lost can no longer be told apart.
LEMMA SuspendPageOK ==
  ASSUME MailInv, SuspendPage
  PROVE  MailInv'
<1>1. /\ UNCHANGED <<box, events, ready, store, filings, decided>>
      /\ toHost' = <<>> /\ toExt' = <<>> /\ tasks' = {}
      /\ forgotten' = forgotten \cup {m \in Messages : MessageId(m) \in hostMoves}
      /\ spent' = [spent EXCEPT !.losses = @ + 1]
  BY DEF SuspendPage, thunderbird, host
<1>2. spent' \in [acts : Nat, pauses : Nat, losses : Nat]
  BY <1>1 DEF MailInv, Types
<1>3. Taskward
  BY <1>1 DEF Taskward
<1>4. Quiet
  BY <1>1, <1>3 DEF Quiet, Hostward, NoneArrives, KeepsMail, Extward, Readyward
<1>5. BoxOK'
  BY <1>1 DEF MailInv, BoxOK
<1>6. EventsOK'
  <2>1. ASSUME NEW i \in DOMAIN events, events[i].by = "host", NEW m, m = events[i].mail
        PROVE  ~ToldApart(m)'
    <3>1. m \in Messages /\ (ToldApart(m) => MessageId(m) \in hostMoves)
      BY <2>1, EventTypes DEF MailInv, EchoInv, EventsOK
    <3>2. ToldApart(m)' => ToldApart(m) /\ m \notin forgotten'
      <4>1. ToldApart(m)' => ToldApart(m)
        BY <1>4, <1>5, <3>1, LessToldApart DEF MailInv, Quiet
      <4>. QED BY <4>1 DEF ToldApart
    <3>. QED BY <1>1, <3>1, <3>2
  <2>2. ASSUME NEW i \in DOMAIN events
        PROVE  /\ box[events[i].mail].id > 1
               /\ events[i].by = "host" => \A j \in 1 .. i - 1 : events[j].mail # events[i].mail
    BY DEF MailInv, EchoInv, EventsOK
  <2>. QED BY <1>1, <2>1, <2>2 DEF EventsOK, ToldApart, MessageId
<1>7. MovesRemembered'
  BY <1>1 DEF MovesRemembered
<1>8. FramesOK' /\ FilingsOK'
  BY <1>1, <1>4, <1>5, FramesKept, FilingsKept DEF MailInv, EchoInv, Quiet
<1>9. events' \in Seq([mail : Messages, by : {"user", "host"}])
  BY <1>1 DEF MailInv, Types
<1>. QED BY <1>2, <1>4, <1>5, <1>6, <1>7, <1>8, <1>9, QuietOK DEF EchoInv

\* What is learned is a move the host was told of, and it is told of a move of
\* its own only when the mail cannot be told apart.
LEMMA HandleRecordOK ==
  ASSUME MailInv, HandleRecord
  PROVE  MailInv'
<1>1. /\ UNCHANGED <<box, events, tasks, hostMoves, ready, forgotten, store, decided, toExt, spent>>
      /\ toHost # <<>> /\ toHost' = Tail(toHost)
      /\ filings' = IF Head(toHost).kind = "message_moved"
                    THEN filings \cup {[mail |-> Head(toHost).mail, by |-> Head(toHost).by]}
                    ELSE filings
  BY DEF HandleRecord, thunderbird, extension
<1>2. Taskward
  BY <1>1, TasksEnd
<1>3. Quiet
  BY <1>1, <1>2 DEF Quiet, Hostward, NoneArrives, KeepsMail, Extward, Readyward
<1>4. BoxOK'
  BY <1>1 DEF MailInv, BoxOK
<1>5. EventsOK' /\ MovesRemembered'
  <2>1. EventsOK'
    BY <1>1, <1>3, <1>4, EventsKept DEF MailInv, EchoInv, Quiet
  <2>2. MovesRemembered'
    BY <1>1, <1>3, <1>4, TaskMail, MovesKept DEF MailInv, EchoInv, Quiet
  <2>. QED BY <2>1, <2>2
<1>6. FramesOK' /\ FilingsOK'
  <2>1. Head(toHost) \in HostFrames /\ NotToldOf(Head(toHost))
    BY <1>1, Taken DEF MailInv, Types, EchoInv, FramesOK
  <2>2. ASSUME NEW f \in filings', NEW m, m = f.mail
        PROVE  m \in Messages /\ (f.by = "host" => ~ToldApart(m))
    <3>1. CASE f \in filings
      BY <2>2, <3>1 DEF MailInv, EchoInv, FilingsOK
    <3>2. CASE f \notin filings
      <4>1. Head(toHost).kind = "message_moved" /\ m = Head(toHost).mail /\ f.by = Head(toHost).by
        BY <1>1, <2>2, <3>2
      <4>2. m \in Messages
        BY <2>1, <4>1 DEF HostFrames
      <4>. QED BY <2>1, <4>1, <4>2 DEF NotToldOf
    <3>. QED BY <3>1, <3>2
  <2>3. ASSUME NEW f \in filings', NEW m, m = f.mail
        PROVE  m \in Messages /\ (f.by = "host" => ~ToldApart(m)')
    BY <1>3, <1>4, <2>2, <2>3, LessToldApart DEF MailInv, Quiet
  <2>4. FilingsOK'
    BY <2>3 DEF FilingsOK, ToldApart, MessageId
  <2>. QED BY <1>3, <1>4, <2>4, FramesKept DEF MailInv, EchoInv, Quiet
<1>7. spent' \in [acts : Nat, pauses : Nat, losses : Nat]
      /\ events' \in Seq([mail : Messages, by : {"user", "host"}])
  BY <1>1 DEF MailInv, Types
<1>. QED BY <1>3, <1>4, <1>5, <1>6, <1>7, QuietOK DEF EchoInv

LEMMA ReceiveReadyOK ==
  ASSUME MailInv, ReceiveReady
  PROVE  MailInv'
<1>1. /\ UNCHANGED <<box, events, tasks, hostMoves, forgotten, store, filings, decided, toHost, spent>>
      /\ toExt # <<>> /\ toExt' = Tail(toExt) /\ ~IsCommand(Head(toExt))
      /\ ready' = ready \cup {Head(toExt).mail}
  BY DEF ReceiveReady, thunderbird, host, IsCommand
<1>2. Taskward
  BY <1>1, TasksEnd
<1>3. Quiet
  BY <1>1, <1>2 DEF Quiet, Hostward, NoneArrives, KeepsMail, Extward, Readyward
<1>4. BoxOK' /\ spent' \in [acts : Nat, pauses : Nat, losses : Nat]
  BY <1>1 DEF MailInv, Types, BoxOK
<1>. QED BY <1>1, <1>3, <1>4, StillOK

\* The handlers that are started: one for a command.
LEMMA StartedOK ==
  ASSUME MailInv, NEW c, tasks' = Started(c) \/ tasks' = tasks,
         \/ toExt # <<>> /\ IsCommand(Head(toExt)) /\ c = Head(toExt)
         \/ ByUser(c) /\ c.mail \in ready /\ c.id = 1 /\ c.n \in Int
  PROVE  Taskward
<1>1. ASSUME NEW t \in tasks
      PROVE  /\ t = [command |-> t.command, at |-> t.at, tags |-> t.tags]
             /\ \E u \in tasks : t.command = u.command
  BY DEF MailInv, TasksOK, TaskOK
<1>2. ASSUME NEW t, t = [command |-> c, at |-> c.action.kind, tags |-> box[c.mail].tags]
      PROVE  t = [command |-> t.command, at |-> t.at, tags |-> t.tags] /\ t.command = c
  BY <1>2
<1>3. \A t \in tasks' : t \in tasks \/ t = [command |-> c, at |-> c.action.kind, tags |-> box[c.mail].tags]
  BY DEF Started
<1>. QED BY <1>1, <1>2, <1>3 DEF Taskward

LEMMA ReceiveCommandOK ==
  ASSUME MailInv, ReceiveCommand
  PROVE  MailInv'
<1> DEFINE c == Head(toExt)
<1>1. /\ UNCHANGED <<box, events, hostMoves, ready, forgotten, store, filings, decided, spent>>
      /\ toExt # <<>> /\ IsCommand(c) /\ toExt' = Tail(toExt)
      /\ c.action.kind \in {"tag", "move"}
      /\ \/ tasks' = Started(c) /\ toHost' = toHost
         \/ tasks' = tasks /\ toHost' = Reported(c, Found(c))
  BY DEF ReceiveCommand, thunderbird, host, IsCommand
<1>2. c \in HostCommands
  BY <1>1, HeadIsCommand DEF MailInv
<1>3. c.mail \in Messages /\ c.n \in Int
  BY <1>2 DEF HostCommands
<1> HIDE DEF c
<1>4. Hostward
  BY <1>1, <1>3, ReportedIsHostward DEF Hostward
<1>5. Taskward
  BY <1>1, StartedOK DEF c
<1>6. Quiet
  BY <1>1, <1>4, <1>5 DEF Quiet, NoneArrives, KeepsMail, Extward, Readyward
<1>7. BoxOK' /\ spent' \in [acts : Nat, pauses : Nat, losses : Nat]
  BY <1>1 DEF MailInv, Types, BoxOK
<1>8. \A t \in tasks' : t.at = "moving" => t \in tasks
  BY <1>1 DEF Started
<1>. QED BY <1>1, <1>6, <1>7, <1>8, StillOK

LEMMA MarkJunkOK ==
  ASSUME MailInv, MarkJunk
  PROVE  MailInv'
<1> DEFINE c == Head(toExt)
<1>1. /\ UNCHANGED <<events, tasks, hostMoves, ready, forgotten, store, filings, decided, spent>>
      /\ toExt # <<>> /\ IsCommand(c) /\ toExt' = Tail(toExt) /\ toHost' = Reported(c, Found(c))
      /\ box' = IF Found(c) THEN [box EXCEPT ![c.mail].junk = c.action.to] ELSE box
  BY DEF MarkJunk, extension, host, IsCommand
<1>2. c \in HostCommands
  BY <1>1, HeadIsCommand DEF MailInv
<1>3. c.mail \in Messages /\ c.n \in Int
  BY <1>2 DEF HostCommands
<1> HIDE DEF c
<1>4. BoxOK' /\ \A m \in Messages : box'[m].id = box[m].id /\ box'[m].content = box[m].content
  <2>1. CASE box' = box
    BY <2>1 DEF MailInv, BoxOK
  <2>2. CASE box' = [box EXCEPT ![c.mail].junk = c.action.to]
    <3>1. DOMAIN box = Messages
      BY DEF MailInv, BoxOK
    <3>2. box' = [box EXCEPT ![c.mail] = [box[c.mail] EXCEPT !["junk"] = c.action.to]]
      BY <1>3, <2>2, <3>1
    <3>. QED BY <1>3, <3>2, WrittenMail DEF MailInv
  <2>. QED BY <1>1, <2>1, <2>2
<1>5. Hostward
  BY <1>1, <1>3, ReportedIsHostward
<1>6. Taskward
  BY <1>1, TasksEnd
<1>7. Quiet
  BY <1>1, <1>4, <1>5, <1>6 DEF Quiet, NoneArrives, KeepsMail, Extward, Readyward
<1>8. spent' \in [acts : Nat, pauses : Nat, losses : Nat]
  BY <1>1 DEF MailInv, Types
<1>. QED BY <1>1, <1>4, <1>7, <1>8, StillOK

LEMMA WriteTagsOK ==
  ASSUME MailInv, NEW t, WriteTags(t)
  PROVE  MailInv'
<1> DEFINE c == t.command
           written == IF t.at = "tag" THEN t.tags \cup {c.action.to} ELSE t.tags \ {c.action.to}
<1>1. /\ UNCHANGED <<events, hostMoves, ready, forgotten, toExt, store, filings, decided, spent>>
      /\ t \in tasks /\ tasks' = tasks \ {t} /\ toHost' = Reported(c, Found(c))
      /\ box' = IF Found(c) THEN [box EXCEPT ![c.mail].tags = written] ELSE box
  BY DEF WriteTags, host
<1>2. c.mail \in Messages /\ c.n \in Int
  BY <1>1, TaskMail
<1> HIDE DEF c, written
<1>3. BoxOK' /\ \A m \in Messages : box'[m].id = box[m].id /\ box'[m].content = box[m].content
  <2>1. CASE box' = box
    BY <2>1 DEF MailInv, BoxOK
  <2>2. CASE box' = [box EXCEPT ![c.mail].tags = written]
    <3>1. DOMAIN box = Messages
      BY DEF MailInv, BoxOK
    <3>2. box' = [box EXCEPT ![c.mail] = [box[c.mail] EXCEPT !["tags"] = written]]
      BY <1>2, <2>2, <3>1
    <3>. QED BY <1>2, <3>2, WrittenMail DEF MailInv
  <2>. QED BY <1>1, <2>1, <2>2
<1>4. Hostward
  BY <1>1, <1>2, ReportedIsHostward
<1>5. Taskward
  BY <1>1, TasksEnd
<1>6. Quiet
  BY <1>1, <1>3, <1>4, <1>5 DEF Quiet, NoneArrives, KeepsMail, Extward, Readyward
<1>7. spent' \in [acts : Nat, pauses : Nat, losses : Nat]
  BY <1>1 DEF MailInv, Types
<1>. QED BY <1>1, <1>3, <1>6, <1>7, StillOK

LEMMA RememberHostMoveOK ==
  ASSUME MailInv, NEW t, RememberHostMove(t)
  PROVE  MailInv'
<1>1. /\ UNCHANGED <<box, events, ready, forgotten, toHost, toExt, store, filings, decided, spent>>
      /\ t \in tasks /\ hostMoves' = hostMoves \cup ({MessageId(t.command.mail)} \ {""})
      /\ tasks' = (tasks \ {t}) \cup {[t EXCEPT !.at = "moving"]}
  BY DEF RememberHostMove, thunderbird, wire, host
<1>2. t.command.mail \in Messages
  BY <1>1, TaskMail
<1>3. Taskward
  BY <1>1, TasksEnd
<1>4. Quiet
  BY <1>1, <1>3 DEF Quiet, Hostward, NoneArrives, KeepsMail, Extward, Readyward
<1>5. ASSUME NEW u \in tasks', u \notin tasks, NEW m, m = u.command.mail, ToldApart(m)'
      PROVE  MessageId(m)' \in hostMoves'
  <2>1. t = [command |-> t.command, at |-> t.at, tags |-> t.tags]
    BY <1>1 DEF MailInv, TasksOK, TaskOK
  <2>2. [t EXCEPT !.at = "moving"].command = t.command
    BY <2>1
  <2>3. m = t.command.mail
    BY <1>1, <1>5, <2>2
  <2>4. MessageId(m)' = MessageId(m)
    BY <1>1 DEF MessageId
  <2>5. MessageId(m)' # ""
    BY <1>5 DEF ToldApart
  <2>. QED BY <1>1, <2>3, <2>4, <2>5
<1>6. BoxOK' /\ spent' \in [acts : Nat, pauses : Nat, losses : Nat]
  BY <1>1, <1>2 DEF MailInv, Types, BoxOK
<1>. QED BY <1>1, <1>4, <1>5, <1>6, StillOK

\* The mail still has its first id: it has never been moved, and if it can be
\* told apart its coming echo is remembered.
LEMMA MoveMessageOK ==
  ASSUME MailInv, NEW t, MoveMessage(t)
  PROVE  MailInv'
<1> DEFINE c == t.command
<1>1. PICK done \in {FALSE, Found(c)} :
        /\ UNCHANGED <<hostMoves, ready, forgotten, toExt, store, filings, decided, spent>>
        /\ t \in tasks /\ t.at = "moving" /\ tasks' = tasks \ {t} /\ toHost' = Reported(c, done)
        /\ IF done THEN Moved(c.mail, c.action.to, "host") ELSE UNCHANGED <<box, events>>
  BY DEF MoveMessage, host, thunderbird
<1>2. c.mail \in Messages /\ c.n \in Int /\ c.id = 1
  BY <1>1, TaskMail
<1>3. Hostward /\ Taskward
  BY <1>1, <1>2, ReportedIsHostward, TasksEnd
<1>4. spent' \in [acts : Nat, pauses : Nat, losses : Nat]
  BY <1>1 DEF MailInv, Types
<1>5. CASE ~done
  <2>1. Quiet
    BY <1>1, <1>3, <1>5 DEF Quiet, NoneArrives, KeepsMail, Extward, Readyward
  <2>2. BoxOK'
    BY <1>1, <1>5 DEF MailInv, BoxOK
  <2>. QED BY <1>1, <1>4, <1>5, <2>1, <2>2, StillOK
<1>6. CASE done
  <2> DEFINE m == c.mail
             e == [mail |-> m, by |-> "host"]
             Moves == [mail : Messages, by : {"user", "host"}]
  <2>1. /\ box[m].id = 1 /\ Moved(m, c.action.to, "host")
        /\ ToldApart(m) => MessageId(m) \in hostMoves
    BY <1>1, <1>2, <1>6 DEF Found, MailInv, EchoInv, MovesRemembered
  <2>2. /\ BoxOK' /\ box'[m].id = 2 /\ box'[m].content = box[m].content
        /\ \A k \in Messages : k # m => box'[k] = box[k]
    BY <1>2, <2>1, MovedMail DEF MailInv
  <2> HIDE DEF c, m
  <2>3. events' = Append(events, e)
    BY <2>1 DEF Moved
  <2>4. e \in Moves /\ events \in Seq(Moves)
    BY <1>2 DEF MailInv, Types, m
  <2> HIDE DEF Moves
  <2>5. /\ events' \in Seq(Moves)
        /\ \A i \in DOMAIN events' :
             \/ i \in DOMAIN events /\ events'[i] = events[i]
             \/ i = Len(events) + 1 /\ events'[i] = e
    BY <2>3, <2>4, Added
  <2>6. \A i \in DOMAIN events : events[i].mail # m
    BY <2>1 DEF MailInv, EchoInv, EventsOK
  <2>7. Quiet
    BY <1>1, <1>2, <1>3, <2>1, <2>2 DEF Quiet, NoneArrives, KeepsMail, Extward, Readyward, m
  <2>8. EventsOK'
    <3>1. ASSUME NEW i \in DOMAIN events'
          PROVE  box'[events'[i].mail].id > 1
      BY <2>2, <2>5, <2>6, EventTypes DEF MailInv, EchoInv, EventsOK
    <3>2. /\ DOMAIN events = 1 .. Len(events) /\ Len(events) \in Nat
          /\ DOMAIN events' = 1 .. Len(events) + 1
      BY <2>3, <2>4, LenProperties, AppendProperties
    <3>3. ASSUME NEW i \in DOMAIN events', events'[i].by = "host", NEW k, k = events'[i].mail
          PROVE  /\ k \in Messages /\ (ToldApart(k) => MessageId(k) \in hostMoves)
                 /\ \A j \in 1 .. i - 1 : events'[j].mail # k
      <4>1. \A j \in 1 .. i - 1 : j \in DOMAIN events /\ events'[j] = events[j]
        BY <2>5, <3>2
      <4>2. CASE i \in DOMAIN events /\ events'[i] = events[i]
        BY <3>3, <4>1, <4>2, EventTypes DEF MailInv, EchoInv, EventsOK
      <4>3. CASE i = Len(events) + 1 /\ events'[i] = e
        BY <1>2, <2>1, <2>6, <3>3, <4>1, <4>3 DEF m
      <4>. QED BY <2>5, <4>2, <4>3
    <3>4. ASSUME NEW i \in DOMAIN events', events'[i].by = "host", NEW k, k = events'[i].mail
          PROVE  /\ ToldApart(k)' => MessageId(k)' \in hostMoves'
                 /\ \A j \in 1 .. i - 1 : events'[j].mail # k
      <4>1. MessageId(k)' = MessageId(k) /\ (ToldApart(k)' => ToldApart(k))
        BY <2>2, <2>7, <3>3, <3>4, LessToldApart DEF MailInv, Quiet
      <4>. QED BY <1>1, <3>3, <3>4, <4>1
    <3>. QED BY <3>1, <3>4 DEF EventsOK, ToldApart, MessageId
  <2>9. MovesRemembered'
    <3>1. \A u \in tasks : box'[u.command.mail].id = 1 => box[u.command.mail].id = 1
      BY <2>2, TaskMail
    <3>. QED BY <1>1, <2>2, <2>7, <3>1, TaskMail, MovesKept DEF MailInv, EchoInv, Quiet
  <2>10. FramesOK' /\ FilingsOK'
    BY <1>1, <2>2, <2>7, FramesKept, FilingsKept DEF MailInv, EchoInv, Quiet
  <2>11. EchoInv'
    BY <2>8, <2>9, <2>10 DEF EchoInv
  <2>. QED BY <1>4, <2>2, <2>5, <2>7, <2>11, QuietOK DEF Moves
<1>. QED BY <1>5, <1>6

\* A Message-ID that is no longer remembered is that of a mail which has been
\* moved: an event of it has just been delivered, none of the host's is behind
\* that one, and another mail with this Message-ID cannot be told apart.
LEMMA ObserveOK ==
  ASSUME MailInv, Observe
  PROVE  MailInv'
<1> DEFINE e == Head(events)
           m == e.mail
           f == [kind |-> "message_moved", mail |-> m, by |-> e.by]
           Moves == [mail : Messages, by : {"user", "host"}]
<1>1. /\ UNCHANGED <<box, tasks, ready, forgotten, toExt, store, filings, decided, spent>>
      /\ events # <<>> /\ events' = Tail(events) /\ hostMoves' = hostMoves \ {MessageId(m)}
      /\ toHost' = IF MessageId(m) \in hostMoves THEN toHost ELSE Append(toHost, f)
  BY DEF Observe, host
<1>2. events \in Seq(Moves)
  BY DEF MailInv, Types
<1>3. \A x \in Moves : x.mail \in Messages /\ x.by \in {"user", "host"}
  OBVIOUS
<1> HIDE DEF Moves
<1>4. /\ e \in Moves /\ 1 \in DOMAIN events /\ e = events[1] /\ events' \in Seq(Moves)
      /\ \A i \in DOMAIN events' :
           i \in Nat /\ i > 0 /\ i + 1 \in DOMAIN events /\ events'[i] = events[i + 1]
  BY <1>1, <1>2, Taken
<1>5. MessageId(m) \notin hostMoves => (e.by = "host" => ~ToldApart(m))
  BY <1>4 DEF MailInv, EchoInv, EventsOK
<1>6. box[m].id > 1 /\ m \in Messages
  BY <1>3, <1>4 DEF MailInv, EchoInv, EventsOK
<1>7. Quiet
  <2>1. f \in HostFrames /\ ~IsReport(f)
    BY <1>3, <1>4 DEF HostFrames, IsReport
  <2>2. f.mail = m /\ f.by = e.by
    OBVIOUS
  <2> HIDE DEF f, e, m
  <2>3. MessageId(m) \notin hostMoves => NotToldOf(f)
    BY <1>5, <2>2 DEF NotToldOf
  <2>4. Hostward
    BY <1>1, <2>1, <2>3 DEF Hostward
  <2>5. Taskward
    BY <1>1, TasksEnd
  <2>. QED BY <1>1, <2>4, <2>5 DEF Quiet, NoneArrives, KeepsMail, Extward, Readyward
<1> HIDE DEF e, m, f
<1>8. BoxOK'
  BY <1>1 DEF MailInv, BoxOK
<1>9. \A k : MessageId(k)' = MessageId(k) /\ (ToldApart(k)' <=> ToldApart(k))
  BY <1>1 DEF MessageId, ToldApart
<1>10. ASSUME NEW k \in Messages, k # m, ToldApart(k), MessageId(k) \in hostMoves
       PROVE  MessageId(k) \in hostMoves'
  <2>1. MessageId(m) = MessageId(k) => box[m].id <= 1
    BY <1>6, <1>10 DEF ToldApart
  <2>2. ~(box[m].id <= 1)
    <3>1. box[m].id \in Nat
      BY <1>6 DEF MailInv, BoxOK
    <3>. QED BY <1>6, <3>1
  <2>3. MessageId(m) # MessageId(k)
    BY <2>1, <2>2
  <2>. QED BY <1>1, <1>10, <2>3
<1>11. EventsOK'
  <2>1. ASSUME NEW i \in DOMAIN events'
        PROVE  box'[events'[i].mail].id > 1
    BY <1>1, <1>4 DEF MailInv, EchoInv, EventsOK
  <2>2. ASSUME NEW i \in DOMAIN events', events'[i].by = "host", NEW k, k = events'[i].mail
        PROVE  /\ ToldApart(k)' => MessageId(k)' \in hostMoves'
               /\ \A j \in 1 .. i - 1 : events'[j].mail # k
    <3>1. i + 1 \in DOMAIN events /\ i \in Nat /\ i > 0 /\ events[i + 1].by = "host"
          /\ k = events[i + 1].mail
      BY <1>4, <2>2
    <3>2. /\ ToldApart(k) => MessageId(k) \in hostMoves
          /\ \A j \in 1 .. (i + 1) - 1 : events[j].mail # k
      BY <3>1 DEF MailInv, EchoInv, EventsOK
    <3>3. k \in Messages /\ k # m
      BY <1>4, <3>1, <3>2, EventTypes DEF MailInv, m
    <3>4. \A j \in 1 .. i - 1 : j \in DOMAIN events' /\ j + 1 \in 1 .. (i + 1) - 1
      <4>1. DOMAIN events' = 1 .. Len(events') /\ Len(events') \in Nat
        BY <1>4, LenProperties
      <4>. QED BY <3>1, <4>1
    <3>5. \A j \in 1 .. i - 1 : events'[j] = events[j + 1]
      BY <1>4, <3>4
    <3>. QED BY <1>9, <1>10, <3>2, <3>3, <3>4, <3>5
  <2>. QED BY <2>1, <2>2 DEF EventsOK, ToldApart, MessageId
<1>12. MovesRemembered'
  <2>1. ASSUME NEW t \in tasks, t.at = "moving", NEW k, k = t.command.mail, box[k].id = 1, ToldApart(k)
        PROVE  MessageId(k) \in hostMoves'
    <3>1. k \in Messages /\ k # m /\ MessageId(k) \in hostMoves
      BY <1>6, <2>1, TaskMail DEF MailInv, EchoInv, MovesRemembered
    <3>. QED BY <1>10, <2>1, <3>1
  <2>2. ASSUME NEW t \in tasks', t.at = "moving", NEW k, k = t.command.mail, box'[k].id = 1, ToldApart(k)'
        PROVE  MessageId(k)' \in hostMoves'
    BY <1>1, <1>9, <2>1, <2>2
  <2>. QED BY <2>2 DEF MovesRemembered, ToldApart, MessageId
<1>13. FramesOK' /\ FilingsOK'
  BY <1>1, <1>7, <1>8, FramesKept, FilingsKept DEF MailInv, EchoInv, Quiet
<1>14. EchoInv'
  BY <1>11, <1>12, <1>13 DEF EchoInv
<1>15. spent' \in [acts : Nat, pauses : Nat, losses : Nat]
  BY <1>1 DEF MailInv, Types
<1>. QED BY <1>4, <1>7, <1>8, <1>14, <1>15, QuietOK DEF Moves

\* A command of the user is for a mail on a card, and has a number below 0.
LEMMA ActOnCardOK ==
  ASSUME MailInv, NEW m \in Messages, NEW action, action.kind # "moving", ActOnCard(m, action)
  PROVE  MailInv'
<1> DEFINE c == Command(m, 1, -1 - spent.acts, action)
<1>1. /\ UNCHANGED <<box, events, hostMoves, ready, forgotten, toHost, toExt, store, filings, decided>>
      /\ m \in ready /\ tasks' = IF Found(c) THEN Started(c) ELSE tasks
      /\ spent' = [spent EXCEPT !.acts = @ + 1]
  BY DEF ActOnCard, thunderbird, wire, host
<1>2. spent.acts \in Nat /\ spent' \in [acts : Nat, pauses : Nat, losses : Nat]
  BY <1>1 DEF MailInv, Types
<1>3. ByUser(c) /\ c.mail = m /\ c.id = 1 /\ c.n \in Int /\ c.action = action
  BY <1>2 DEF ByUser, Command
<1> HIDE DEF c
<1>4. Taskward
  BY <1>1, <1>3, StartedOK
<1>5. Quiet
  BY <1>1, <1>4 DEF Quiet, Hostward, NoneArrives, KeepsMail, Extward, Readyward
<1>6. \A t \in tasks' : t.at = "moving" => t \in tasks
  BY <1>1, <1>3 DEF Started
<1>7. BoxOK'
  BY <1>1 DEF MailInv, Types, BoxOK
<1>. QED BY <1>1, <1>2, <1>5, <1>6, <1>7, StillOK

\* A new mail is reported: nothing was said of it before.
LEMMA NewMailOK ==
  ASSUME MailInv, NEW m \in Messages, NewMail(m)
  PROVE  MailInv'
<1> DEFINE f == [kind |-> "new_mail", mail |-> m, id |-> 1]
           mail == [box[m] EXCEPT !.id = 1]
<1>1. /\ UNCHANGED <<toExt, events, tasks, hostMoves, ready, forgotten, store, filings, decided, spent>>
      /\ m \notin Arrived /\ box' = [box EXCEPT ![m].id = 1] /\ toHost' = Append(toHost, f)
  BY DEF NewMail, extension, host
<1>2. /\ DOMAIN box = Messages /\ DOMAIN box[m] = {"content", "folder", "id", "tags", "junk"}
      /\ box[m].content \in Contents /\ box[m].id = 0
  BY <1>1 DEF MailInv, BoxOK, Arrived
<1>3. /\ DOMAIN mail = {"content", "folder", "id", "tags", "junk"}
      /\ mail.content = box[m].content /\ mail.id = 1
  BY <1>2
<1>4. box' = [box EXCEPT ![m] = mail]
  BY <1>1
<1> HIDE DEF mail
<1>5. DOMAIN box' = Messages /\ box'[m] = mail /\ \A k \in Messages : k # m => box'[k] = box[k]
  BY <1>2, <1>4
<1>6. BoxOK'
  <2>1. \A k \in Messages :
          /\ DOMAIN box'[k] = {"content", "folder", "id", "tags", "junk"}
          /\ box'[k].content \in Contents /\ box'[k].id \in Nat
    BY <1>2, <1>3, <1>5 DEF MailInv, BoxOK
  <2>. QED BY <1>5, <2>1 DEF BoxOK
<1>7. /\ Unhandled(m) /\ m \notin ready
      /\ \A i \in DOMAIN toExt : toExt[i].mail # m
      /\ \A t \in tasks : t.command.mail # m
  BY <1>2 DEF Unhandled, MailInv, DecisionInv, NothingBefore
<1>8. f \in HostFrames /\ IsReport(f) /\ f.mail = m
  BY DEF HostFrames, IsReport
<1> HIDE DEF f
<1>9. toHost \in Seq(HostFrames)
  BY DEF MailInv, Types
<1>10. /\ toHost' \in Seq(HostFrames)
       /\ \A i \in DOMAIN toHost' :
            \/ i \in DOMAIN toHost /\ toHost'[i] = toHost[i]
            \/ i = Len(toHost) + 1 /\ toHost'[i] = f
  BY <1>1, <1>8, <1>9, Added
<1>11. \A i \in DOMAIN toHost : toHost[i].mail \in Messages
  <2>1. \A x \in HostFrames : x.mail \in Messages
    BY DEF HostFrames
  <2>. QED BY <1>9, <2>1, Elements
<1>12. ExtFrames' = ExtFrames /\ HostCommands' = HostCommands
  BY <1>1 DEF ExtFrames, HostCommands
<1>13. Types'
  BY <1>1, <1>10, <1>12 DEF MailInv, Types
<1>14. TasksOK'
  BY <1>1, <1>12 DEF MailInv, TasksOK, TaskOK
<1>15. EchoInv'
  <2>1. KeepsMail
    BY <1>1, <1>2, <1>3, <1>5 DEF KeepsMail
  <2>2. EventsOK'
    BY <1>1, <1>6, <2>1, EventsKept DEF MailInv, EchoInv
  <2>3. MovesRemembered'
    <3>1. \A t \in tasks : box'[t.command.mail].id = 1 => box[t.command.mail].id = 1
      BY <1>5, <1>7, TaskMail
    <3>. QED BY <1>1, <1>6, <2>1, <3>1, TaskMail, MovesKept DEF MailInv, EchoInv
  <2>4. ASSUME NEW i \in DOMAIN toHost', NEW g, g = toHost'[i]
        PROVE  NotToldOf(g)'
    <3>1. CASE i \in DOMAIN toHost /\ toHost'[i] = toHost[i]
      <4>1. NotToldOf(g) /\ g.mail \in Messages
        BY <1>11, <2>4, <3>1 DEF MailInv, EchoInv, FramesOK
      <4>2. ToldApart(g.mail)' => ToldApart(g.mail)
        BY <1>6, <2>1, <4>1, LessToldApart DEF MailInv
      <4>. QED BY <4>1, <4>2 DEF NotToldOf
    <3>2. CASE toHost'[i] = f
      BY <1>8, <2>4, <3>2 DEF IsReport, NotToldOf
    <3>. QED BY <1>10, <2>4, <3>1, <3>2
  <2>5. FramesOK'
    BY <2>4 DEF FramesOK, NotToldOf, ToldApart, MessageId
  <2>6. FilingsOK'
    BY <1>1, <1>6, <2>1, FilingsKept DEF MailInv, EchoInv
  <2>. QED BY <2>2, <2>3, <2>5, <2>6 DEF EchoInv
<1>16. ReportedOnce'
  <2>1. \A i \in DOMAIN toHost : IsReport(toHost[i]) => toHost[i].mail # m
    BY <1>2 DEF MailInv, DecisionInv, ReportedOnce
  <2>2. ASSUME NEW i \in DOMAIN toHost', IsReport(toHost'[i])
        PROVE  box'[toHost'[i].mail].id # 0
    <3>1. CASE i \in DOMAIN toHost /\ toHost'[i] = toHost[i]
      BY <1>5, <1>11, <2>1, <2>2, <3>1 DEF MailInv, DecisionInv, ReportedOnce
    <3>2. CASE toHost'[i] = f
      BY <1>3, <1>5, <1>8, <3>2
    <3>. QED BY <1>10, <3>1, <3>2
  <2>3. ASSUME NEW i \in DOMAIN toHost', NEW j \in DOMAIN toHost',
               IsReport(toHost'[i]), IsReport(toHost'[j]), toHost'[j].mail = toHost'[i].mail
        PROVE  j = i
    BY <1>8, <1>10, <2>1, <2>3 DEF MailInv, DecisionInv, ReportedOnce
  <2>. QED BY <2>2, <2>3 DEF ReportedOnce, IsReport
<1>17. NothingBefore'
  <2>1. ASSUME NEW k \in Messages, k # m, Unhandled(k)'
        PROVE  Unhandled(k)
    <3>1. CASE box'[k].id = 0
      BY <1>5, <2>1, <3>1 DEF Unhandled
    <3>2. CASE \E i \in DOMAIN toHost' : IsReport(toHost'[i]) /\ toHost'[i].mail = k
      <4>1. PICK i \in DOMAIN toHost' : IsReport(toHost'[i]) /\ toHost'[i].mail = k
        BY <3>2
      <4>2. i \in DOMAIN toHost /\ toHost'[i] = toHost[i]
        BY <1>8, <1>10, <2>1, <4>1
      <4>. QED BY <4>1, <4>2 DEF Unhandled
    <3>. QED BY <2>1, <3>1, <3>2 DEF Unhandled, IsReport
  <2>2. \A k \in Messages : Unhandled(k)' => Unhandled(k)
    BY <1>7, <2>1
  <2>. QED BY <1>1, <2>2 DEF MailInv, DecisionInv, NothingBefore
<1>18. CommandsDecided' /\ ReadyIsLast'
  BY <1>1 DEF MailInv, DecisionInv, CommandsDecided, OfTheDecision, ReadyIsLast, IsCommand
<1>. QED BY <1>6, <1>13, <1>14, <1>15, <1>16, <1>17, <1>18 DEF MailInv, DecisionInv

-----------------------------------------------------------------------------
(* The decision is carried out *)

\* What is sent for a mail: the commands of its plan, then the notification.
LEMMA SentType ==
  ASSUME NEW m \in Messages, NEW plan, plan.allowed \in Seq(MayDo(store, plan.classification))
  PROVE  /\ Sent(m, 1, plan) \in Seq(ExtFrames)
         /\ \A i \in DOMAIN Sent(m, 1, plan) :
              /\ Sent(m, 1, plan)[i].mail = m
              /\ IsCommand(Sent(m, 1, plan)[i]) =>
                   /\ Sent(m, 1, plan)[i].n \in DOMAIN (IF paused THEN <<>> ELSE plan.allowed)
                   /\ Sent(m, 1, plan)[i].action.kind = "move" => ~Sensitive(plan.classification)
                   /\ \A j \in 1 .. i : IsCommand(Sent(m, 1, plan)[j])
<1> DEFINE A == MayDo(store, plan.classification)
           C == [kind : {"mail_command"}, mail : {m}, id : {1}, n : DOMAIN plan.allowed, action : A]
           commands == IF paused THEN <<>> ELSE Commands(m, 1, plan)
           R == {Frame("classification_ready", m)}
           last == <<Frame("classification_ready", m)>>
           sent == commands \o last
<1>1. plan.allowed \in [DOMAIN plan.allowed -> A] /\ DOMAIN plan.allowed \subseteq Nat
  BY LenProperties
<1>2. Commands(m, 1, plan) \in [DOMAIN plan.allowed -> C]
  BY <1>1 DEF Commands, Command
<1>3. commands \in Seq(C)
  <2> HIDE DEF C, A
  <2>1. Commands(m, 1, plan) \in Seq(C)
    BY <1>2, MappedSeq DEF A
  <2>. QED BY <2>1, EmptySeq
<1>4. \A c \in C : /\ IsCommand(c) /\ c.mail = m /\ c.n \in DOMAIN plan.allowed
                   /\ c.action.kind = "move" => ~Sensitive(plan.classification)
  BY DEF IsCommand, MayDo
<1>5. C \subseteq HostCommands
  BY <1>1 DEF HostCommands, MayDo
<1>6. \A f \in R : ~IsCommand(f) /\ f.mail = m /\ f \in ExtFrames
  BY DEF IsCommand, Frame, ExtFrames
<1>7. last \in Seq(R) /\ Len(last) = 1
  OBVIOUS
<1>9. sent = Sent(m, 1, plan)
  BY DEF Sent
<1> HIDE DEF A, C, R, last, commands
<1>10. commands \in Seq(C \cup R) /\ last \in Seq(C \cup R)
  BY <1>3, <1>7, SeqMonotonic
<1>11. /\ sent \in Seq(C \cup R) /\ Len(commands) \in Nat
       /\ DOMAIN commands = 1 .. Len(commands) /\ DOMAIN last = 1 .. 1
       /\ DOMAIN sent = 1 .. Len(commands) + 1
       /\ \A i \in 1 .. Len(commands) : sent[i] = commands[i]
       /\ \A i \in 1 .. Len(commands) + 1 : i > Len(commands) => sent[i] = last[i - Len(commands)]
  <2>1. /\ commands \o last \in Seq(C \cup R) /\ Len(commands) \in Nat
        /\ DOMAIN commands = 1 .. Len(commands) /\ DOMAIN last = 1 .. Len(last)
        /\ DOMAIN (commands \o last) = 1 .. Len(commands) + Len(last)
        /\ \A i \in 1 .. Len(commands) : (commands \o last)[i] = commands[i]
        /\ \A i \in 1 .. Len(commands) + Len(last) :
             i > Len(commands) => (commands \o last)[i] = last[i - Len(commands)]
    BY <1>10, Joined
  <2>. QED BY <1>7, <2>1
<1>12. sent \in Seq(ExtFrames)
  <2>1. C \cup R \subseteq ExtFrames
    BY <1>5, <1>6 DEF ExtFrames
  <2>. QED BY <1>11, <2>1, SeqMonotonic
<1>13. \A i \in 1 .. Len(commands) : sent[i] \in C
  BY <1>3, <1>11, Elements
<1>14. sent[Len(commands) + 1] \in R
  BY <1>7, <1>11, Elements
<1>15. paused => Len(commands) = 0
  BY EmptySeq DEF commands
<1> HIDE DEF sent
<1>16. ASSUME NEW i \in DOMAIN sent
       PROVE  /\ sent[i].mail = m
              /\ IsCommand(sent[i]) =>
                   /\ sent[i].n \in DOMAIN (IF paused THEN <<>> ELSE plan.allowed)
                   /\ sent[i].action.kind = "move" => ~Sensitive(plan.classification)
                   /\ \A j \in 1 .. i : IsCommand(sent[j])
  <2>1. CASE i = Len(commands) + 1
    BY <1>6, <1>14, <2>1
  <2>2. CASE i # Len(commands) + 1
    <3>1. i \in 1 .. Len(commands) /\ ~paused
      BY <1>11, <1>15, <2>2
    <3>2. \A j \in 1 .. i : j \in 1 .. Len(commands)
      BY <1>11, <3>1
    <3>. QED BY <1>4, <1>13, <3>1, <3>2
  <2>. QED BY <2>1, <2>2
<1>. QED BY <1>9, <1>12, <1>16

LEMMA HandleNewMailOK ==
  ASSUME MailInv, HandleNewMail
  PROVE  MailInv'
<1> DEFINE f == Head(toHost)
<1>1. /\ UNCHANGED <<box, events, tasks, hostMoves, ready, forgotten, store, filings, spent>>
      /\ toHost # <<>> /\ IsReport(f) /\ toHost' = Tail(toHost)
      /\ \E p \in Plans :
           /\ p.rules = store /\ p.content = box[f.mail].content
           /\ toExt' = toExt \o Sent(f.mail, f.id, p.plan)
           /\ decided' = [decided EXCEPT ![f.mail] =
                            Decided(p.plan, IF paused THEN <<>> ELSE p.plan.allowed)]
  BY DEF HandleNewMail, thunderbird, extension, IsReport
<1>2. f \in HostFrames /\ 1 \in DOMAIN toHost /\ f = toHost[1]
      /\ \A i \in DOMAIN toHost' :
           i \in Nat /\ i > 0 /\ i + 1 \in DOMAIN toHost /\ toHost'[i] = toHost[i + 1]
  BY <1>1, Taken DEF MailInv, Types
<1>3. PICK m \in Messages : m = f.mail /\ f.id = 1
  BY <1>1, <1>2 DEF HostFrames, IsReport
<1> DEFINE applied(plan) == IF paused THEN <<>> ELSE plan.allowed
<1>4. PICK plan : /\ plan.allowed \in Seq(MayDo(store, plan.classification))
                  /\ toExt' = toExt \o Sent(m, 1, plan)
                  /\ decided' = [decided EXCEPT ![m] = Decided(plan, applied(plan))]
  <2>1. PICK p \in Plans :
          /\ p.rules = store /\ p.content = box[m].content
          /\ toExt' = toExt \o Sent(m, f.id, p.plan)
          /\ decided' = [decided EXCEPT ![m] = Decided(p.plan, applied(p.plan))]
    BY <1>1, <1>3
  <2>2. p.plan = Decide(p.rules, p.content) /\ p.rules \in Stores
    BY DEF Plans
  <2>3. p.plan.allowed \in Seq(MayDo(store, p.plan.classification))
    BY <2>1, <2>2, DecisionType
  <2>. QED BY <1>3, <2>1, <2>3
<1> DEFINE sent == Sent(m, 1, plan)
<1>5. /\ sent \in Seq(ExtFrames)
      /\ \A i \in DOMAIN sent :
           /\ sent[i].mail = m
           /\ IsCommand(sent[i]) =>
                /\ sent[i].n \in DOMAIN applied(plan)
                /\ sent[i].action.kind = "move" => ~Sensitive(plan.classification)
                /\ \A j \in 1 .. i : IsCommand(sent[j])
  BY <1>3, <1>4, SentType
<1>6. Hostward /\ NoneArrives
  BY <1>1 DEF Hostward, NoneArrives
<1> HIDE DEF sent, f, applied
<1>7. ExtFrames' = ExtFrames /\ HostCommands' = HostCommands
  BY <1>1 DEF ExtFrames, HostCommands
<1>8. /\ toExt' \in Seq(ExtFrames) /\ Len(toExt) \in Nat /\ Len(sent) \in Nat
      /\ DOMAIN toExt = 1 .. Len(toExt) /\ DOMAIN sent = 1 .. Len(sent)
      /\ DOMAIN toExt' = 1 .. Len(toExt) + Len(sent)
      /\ \A i \in 1 .. Len(toExt) : toExt'[i] = toExt[i]
      /\ \A i \in 1 .. Len(toExt) + Len(sent) : i > Len(toExt) => toExt'[i] = sent[i - Len(toExt)]
  <2>1. toExt \in Seq(ExtFrames) /\ toExt' = toExt \o sent
    BY <1>4 DEF MailInv, Types, sent
  <2>. QED BY <1>5, <2>1, Joined
<1>9. DOMAIN decided' = Messages /\ decided'[m] = Decided(plan, applied(plan))
      /\ \A k \in Messages : k # m => decided'[k] = decided[k]
  BY <1>3, <1>4 DEF MailInv, Types
<1>10. Types'
  <2>1. toHost' \in Seq(HostFrames)
    BY <1>6, HostwardFrames DEF MailInv
  <2>. QED BY <1>1, <1>7, <1>8, <1>9, <2>1 DEF MailInv, Types
<1>11. TasksOK' /\ BoxOK' /\ EchoInv'
  <2>1. TasksOK' /\ BoxOK'
    BY <1>1, <1>7 DEF MailInv, TasksOK, TaskOK, BoxOK
  <2>2. KeepsMail
    BY <1>1 DEF KeepsMail
  <2>3. EventsOK' /\ FramesOK' /\ FilingsOK'
    BY <1>1, <1>6, <2>1, <2>2, EventsKept, FramesKept, FilingsKept DEF MailInv, EchoInv
  <2>4. MovesRemembered'
    BY <1>1, <2>1, <2>2, TaskMail, MovesKept DEF MailInv, EchoInv
  <2>. QED BY <2>1, <2>3, <2>4 DEF EchoInv
<1>12. ReportedOnce'
  BY <1>6, HostwardReports DEF MailInv, DecisionInv
<1>13. /\ Unhandled(m) /\ m \notin ready
       /\ \A i \in DOMAIN toExt : toExt[i].mail # m
       /\ \A t \in tasks : t.command.mail # m
  BY <1>1, <1>2, <1>3 DEF Unhandled, MailInv, DecisionInv, NothingBefore, f
<1>14. ~Unhandled(m)'
  <2>1. box'[m].id # 0
    BY <1>1, <1>2, <1>3 DEF MailInv, DecisionInv, ReportedOnce, f
  <2>2. \A i \in DOMAIN toHost' : ~(IsReport(toHost'[i]) /\ toHost'[i].mail = m)
    <3>1. ASSUME NEW i \in DOMAIN toHost', IsReport(toHost'[i]), toHost'[i].mail = m
          PROVE  FALSE
      <4>1. i \in Nat /\ i > 0 /\ i + 1 \in DOMAIN toHost /\ toHost'[i] = toHost[i + 1]
        BY <1>2
      <4>2. IsReport(toHost[1]) /\ toHost[1].mail = m
        BY <1>1, <1>2, <1>3
      <4>3. i + 1 = 1
        BY <1>2, <3>1, <4>1, <4>2 DEF MailInv, DecisionInv, ReportedOnce
      <4>. QED BY <4>1, <4>3
    <3>. QED BY <3>1
  <2>. QED BY <2>1, <2>2 DEF Unhandled, IsReport
<1>15. NothingBefore'
  <2>1. \A k \in Messages : Unhandled(k)' => Unhandled(k) /\ k # m
    BY <1>6, <1>14, HostwardUnhandled DEF MailInv
  <2>2. ASSUME NEW k \in Messages, Unhandled(k), k # m, NEW i \in DOMAIN toExt'
        PROVE  toExt'[i].mail # k
    <3>1. CASE i \in 1 .. Len(toExt)
      BY <1>8, <2>2, <3>1 DEF MailInv, DecisionInv, NothingBefore
    <3>2. CASE i \notin 1 .. Len(toExt)
      <4>1. i - Len(toExt) \in DOMAIN sent /\ toExt'[i] = sent[i - Len(toExt)]
        BY <1>8, <3>2
      <4>. QED BY <1>5, <2>2, <4>1
    <3>. QED BY <3>1, <3>2
  <2>. QED BY <1>1, <2>1, <2>2 DEF MailInv, DecisionInv, NothingBefore
<1>16. ASSUME NEW c, c.mail \in Messages, c.mail # m, OfTheDecision(c)
       PROVE  OfTheDecision(c)'
  BY <1>9, <1>16 DEF OfTheDecision
<1>17. CommandsDecided'
  <2>1. ASSUME NEW i \in DOMAIN toExt', IsCommand(toExt'[i]), NEW c, c = toExt'[i]
        PROVE  OfTheDecision(c)'
    <3>1. CASE i \in 1 .. Len(toExt)
      <4>1. toExt'[i] = toExt[i] /\ i \in DOMAIN toExt
        BY <1>8, <3>1
      <4>2. toExt[i].mail \in Messages
        <5>1. \A x \in ExtFrames : x.mail \in Messages
          BY DEF ExtFrames, HostCommands
        <5>. QED BY <4>1, <5>1, Elements DEF MailInv, Types
      <4>. QED BY <1>13, <1>16, <2>1, <4>1, <4>2 DEF MailInv, DecisionInv, CommandsDecided
    <3>2. CASE i \notin 1 .. Len(toExt)
      <4>1. i - Len(toExt) \in DOMAIN sent /\ toExt'[i] = sent[i - Len(toExt)]
        BY <1>8, <3>2
      <4>2. /\ toExt'[i].mail = m /\ toExt'[i].n \in DOMAIN applied(plan)
            /\ toExt'[i].action.kind = "move" => ~Sensitive(plan.classification)
        BY <1>5, <2>1, <4>1
      <4>3. decided'[m].applied = applied(plan) /\ decided'[m].classification = plan.classification
        BY <1>9 DEF Decided
      <4>. QED BY <2>1, <4>2, <4>3 DEF OfTheDecision
    <3>. QED BY <3>1, <3>2
  <2>2. \A t \in tasks : ~ByUser(t.command) => OfTheDecision(t.command)'
    BY <1>13, <1>16, TaskMail DEF MailInv, DecisionInv, CommandsDecided
  <2>. QED BY <1>1, <2>1, <2>2 DEF CommandsDecided, OfTheDecision, IsCommand
<1>18. ReadyIsLast'
  <2>1. ASSUME NEW i \in DOMAIN toExt', IsCommand(toExt'[i])
        PROVE  /\ toExt'[i].mail \notin ready
               /\ \A j \in 1 .. i : IsCommand(toExt'[j]) \/ toExt'[j].mail # toExt'[i].mail
    <3>1. CASE i \in 1 .. Len(toExt)
      <4>1. \A j \in 1 .. i : j \in 1 .. Len(toExt)
        BY <1>8, <3>1
      <4>. QED BY <1>8, <2>1, <3>1, <4>1 DEF MailInv, DecisionInv, ReadyIsLast
    <3>2. CASE i \notin 1 .. Len(toExt)
      <4>1. i - Len(toExt) \in DOMAIN sent /\ toExt'[i] = sent[i - Len(toExt)]
        BY <1>8, <3>2
      <4>2. toExt'[i].mail = m
        BY <1>5, <4>1
      <4>3. ASSUME NEW j \in 1 .. i
            PROVE  IsCommand(toExt'[j]) \/ toExt'[j].mail # m
        <5>1. CASE j \in 1 .. Len(toExt)
          BY <1>8, <1>13, <5>1
        <5>2. CASE j \notin 1 .. Len(toExt)
          <6>1. /\ j - Len(toExt) \in 1 .. i - Len(toExt)
                /\ toExt'[j] = sent[j - Len(toExt)]
            BY <1>8, <5>2
          <6>. QED BY <1>5, <2>1, <4>1, <6>1
        <5>. QED BY <5>1, <5>2
      <4>. QED BY <1>13, <4>2, <4>3
    <3>. QED BY <3>1, <3>2
  <2>. QED BY <1>1, <2>1 DEF ReadyIsLast, IsCommand
<1>. QED BY <1>10, <1>11, <1>12, <1>15, <1>17, <1>18 DEF MailInv, DecisionInv

-----------------------------------------------------------------------------
LEMMA StepOK == MailInv /\ [Next]_vars => MailInv'
<1> SUFFICES ASSUME MailInv, [Next]_vars
             PROVE  MailInv'
  OBVIOUS
<1>1. ASSUME NEW m \in Messages, NewMail(m) PROVE MailInv'
  BY <1>1, NewMailOK
<1>2. ASSUME NEW m \in Messages, NEW folder \in UserFolders, UserMoves(m, folder) PROVE MailInv'
  BY <1>2, UserMovesOK
<1>3. ASSUME NEW m \in Messages, Accept(m) PROVE MailInv'
  BY <1>3, ActOnCardOK DEF Accept
<1>4. ASSUME NEW m \in Messages, UndoTag(m) PROVE MailInv'
  <2>1. PICK a : a.kind = "tag" /\ ActOnCard(m, [a EXCEPT !.kind = "untag"])
    BY <1>4 DEF UndoTag
  <2>2. [a EXCEPT !.kind = "untag"].kind # "moving"
    BY <2>1
  <2>. QED BY <2>1, <2>2, ActOnCardOK
<1>5. CASE SetPause
  BY <1>5, SetPauseOK
<1>6. CASE LosePort
  BY <1>6, LosePortOK
<1>16. CASE SuspendPage
  BY <1>16, SuspendPageOK
<1>7. CASE HandleNewMail
  BY <1>7, HandleNewMailOK
<1>8. CASE HandleRecord
  BY <1>8, HandleRecordOK
<1>9. CASE ReceiveReady
  BY <1>9, ReceiveReadyOK
<1>10. CASE ReceiveCommand
  BY <1>10, ReceiveCommandOK
<1>11. CASE MarkJunk
  BY <1>11, MarkJunkOK
<1>12. CASE Observe
  BY <1>12, ObserveOK
<1>13. ASSUME NEW t \in tasks, WriteTags(t) \/ RememberHostMove(t) \/ MoveMessage(t)
       PROVE  MailInv'
  BY <1>13, WriteTagsOK, RememberHostMoveOK, MoveMessageOK
<1>14. CASE UNCHANGED vars
  <2>1. UNCHANGED <<box, events, tasks, hostMoves, ready, forgotten, store, filings, decided, toHost, toExt, spent>>
    BY <1>14 DEF vars, thunderbird, extension, host, wire
  <2>2. Taskward
    BY <2>1, TasksEnd
  <2>3. Quiet
    BY <2>1, <2>2 DEF Quiet, Hostward, NoneArrives, KeepsMail, Extward, Readyward
  <2>4. BoxOK' /\ spent' \in [acts : Nat, pauses : Nat, losses : Nat]
    BY <2>1 DEF MailInv, Types, BoxOK
  <2>. QED BY <2>1, <2>3, <2>4, StillOK
<1>15. ASSUME ExtensionSteps PROVE MailInv'
  BY <1>9, <1>10, <1>11, <1>12, <1>13, <1>15 DEF ExtensionSteps
<1>. QED BY <1>1, <1>2, <1>3, <1>4, <1>5, <1>6, <1>7, <1>8, <1>14, <1>15, <1>16 DEF Next

LEMMA Invariance == Spec => []MailInv
<1>. QED BY InitOK, StepOK, PTL DEF Spec

\* A command on its way, or being run, is one of the host's.
LEMMA InFlightOK ==
  ASSUME MailInv, NEW c \in InFlight
  PROVE  /\ c \in HostCommands /\ OfTheDecision(c)
         /\ c \in Range(toExt) => c.mail \notin ready
<1>1. ASSUME c \in Range(toExt), c.kind = "mail_command"
      PROVE  c \in HostCommands /\ OfTheDecision(c) /\ c.mail \notin ready
  <2>1. PICK i \in DOMAIN toExt : c = toExt[i]
    BY <1>1 DEF Range
  <2>2. c \in ExtFrames
    BY <2>1, Elements DEF MailInv, Types
  <2>3. c \in HostCommands
    BY <1>1, <2>2 DEF ExtFrames
  <2>. QED BY <1>1, <2>1, <2>3 DEF MailInv, DecisionInv, CommandsDecided, ReadyIsLast, IsCommand
<1>2. ASSUME NEW t \in tasks, c = t.command, ~ByUser(c)
      PROVE  c \in HostCommands /\ OfTheDecision(c)
  BY <1>2 DEF MailInv, TasksOK, TaskOK, DecisionInv, CommandsDecided
<1>3. c \in HostCommands => c.kind = "mail_command"
  BY DEF HostCommands
<1>. QED BY <1>1, <1>2, <1>3 DEF InFlight

\* The policy at the far end of the wire: for all rules, mails and bounds, the
\* handlers of the extension run effects of active rules only, and move no
\* mail that was classified as sensitive.
THEOREM PolicyHoldsAtTheMailbox == Spec => []SafetyFloor
<1>1. MailInv => SafetyFloor
  <2> SUFFICES ASSUME MailInv, NEW c \in InFlight
               PROVE  /\ c.action.kind = "move" => ~Sensitive(decided[c.mail].classification)
                      /\ \E i \in DOMAIN store :
                           /\ store[i].kind = "action" /\ store[i].status = "active"
                           /\ c.action \in Range(Translate(store[i].effect))
    BY DEF SafetyFloor
  <2>1. c \in HostCommands /\ OfTheDecision(c)
    BY InFlightOK
  <2>2. c.action \in ActiveEffects(store)
    BY <2>1 DEF HostCommands
  <2>. QED BY <2>1, <2>2 DEF OfTheDecision, ActiveEffects
<1>. QED BY <1>1, Invariance, PTL

\* No command of a mail comes behind its card, and a paused host sends none:
\* what runs is one of the actions the card says were applied.
THEOREM CardsFollowTheirCommands == Spec => []CardFollowsCommands
<1>1. MailInv => CardFollowsCommands
  BY InFlightOK DEF CardFollowsCommands, OfTheDecision
<1>. QED BY <1>1, Invariance, PTL

\* For all rules, mails and bounds: of the moves the host made, the extension
\* reports as the user's only those of mails it cannot tell apart, whatever
\* else is moved, fails, is lost or delivered meanwhile.
THEOREM EchoesAreNotLearned == Spec => []HostMovesAreNotLearned
<1>1. MailInv => HostMovesAreNotLearned
  BY DEF MailInv, EchoInv, FilingsOK, HostMovesAreNotLearned
<1>. QED BY <1>1, Invariance, PTL

-----------------------------------------------------------------------------
(* Conditions *)

\* Induction over the nodes of a condition: what holds of a node as soon as it
\* holds of all before it holds of each.
LEMMA NodeByNode ==
  ASSUME NEW n \in Nat, NEW T, \A k \in 1 .. n : 1 .. k - 1 \subseteq T => k \in T
  PROVE  1 .. n \subseteq T
<1> DEFINE S == {k \in 0 .. n : 1 .. k \subseteq T}
<1>1. 0 \in S
  OBVIOUS
<1>2. ASSUME NEW k \in 1 .. n, k - 1 \in S PROVE k \in S
  <2>1. k \in T
    BY <1>2
  <2>2. 1 .. k = 1 .. (k - 1) \cup {k}
    OBVIOUS
  <2>. QED BY <1>2, <2>1, <2>2
<1>3. 0 .. n \subseteq S
  <2>. HIDE DEF S
  <2>. QED BY <1>1, <1>2, UpTo
<1>. QED BY <1>3

\* A node holds by what holds of the nodes it stands over.
NodeHolds(c, fields, h, n) ==
  \/ c[n].node = "all" /\ \A i \in DOMAIN c[n].of : h[c[n].of[i]]
  \/ c[n].node = "any" /\ \E i \in DOMAIN c[n].of : h[c[n].of[i]]
  \/ c[n].node = "not" /\ ~h[c[n].of[1]]
  \/ c[n].node = "is" /\ EvaluatePredicate(c[n].is, fields)

Evaluation(c, fields, h) == h = [n \in DOMAIN c |-> NodeHolds(c, fields, h, n)]

LEMMA NotStandsOverOne ==
  ASSUME NEW c, IsCondition(c), NEW n \in DOMAIN c, c[n].node = "not"
  PROVE  DOMAIN c[n].of = {1}
<1>. SUFFICES ASSUME NEW of, of = c[n].of PROVE DOMAIN of = {1}
  OBVIOUS
<1>1. DOMAIN of = 1 .. Len(of) /\ Len(of) = 1
  BY DEF IsCondition
<1>. QED BY <1>1

\* Nodes it does not stand over do not matter.
LEMMA OnlyPartsMatter ==
  ASSUME NEW c, IsCondition(c), NEW fields, NEW n \in DOMAIN c, NEW g, NEW h,
         \A k \in 1 .. n - 1 : g[k] = h[k]
  PROVE  NodeHolds(c, fields, g, n) = NodeHolds(c, fields, h, n)
<1>1. c[n].node \in Nodes /\ \A i \in DOMAIN c[n].of : g[c[n].of[i]] = h[c[n].of[i]]
  <2>1. c[n].node \in Nodes /\ \A i \in DOMAIN c[n].of : c[n].of[i] \in 1 .. n - 1
    BY DEF IsCondition
  <2>. QED BY <2>1
<1>2. CASE c[n].node = "all"
  BY <1>1, <1>2 DEF NodeHolds
<1>3. CASE c[n].node = "any"
  BY <1>1, <1>3 DEF NodeHolds
<1>4. CASE c[n].node = "not"
  BY <1>1, <1>4, NotStandsOverOne DEF NodeHolds
<1>5. CASE c[n].node = "is"
  BY <1>5 DEF NodeHolds
<1>. QED BY <1>1, <1>2, <1>3, <1>4, <1>5 DEF Nodes

LEMMA EvaluationExists ==
  ASSUME NEW c, IsCondition(c), NEW fields
  PROVE  \E h : Evaluation(c, fields, h)
<1>. DEFINE N == Len(c)
            Right(h, m) == \A k \in 1 .. m : h[k] = NodeHolds(c, fields, h, k)
            T == {m \in 0 .. N : \E h : h = [k \in 1 .. N |-> h[k]] /\ Right(h, m)}
<1>1. N \in Nat /\ DOMAIN c = 1 .. N
  BY DEF IsCondition
<1>2. 0 \in T
  <2>. DEFINE h == [k \in 1 .. N |-> TRUE]
  <2>1. h = [k \in 1 .. N |-> h[k]]
    OBVIOUS
  <2>. HIDE DEF h
  <2>2. Right(h, 0)
    OBVIOUS
  <2>. HIDE DEF Right
  <2>. QED BY <1>1, <2>1, <2>2
<1>3. ASSUME NEW m \in 1 .. N, m - 1 \in T PROVE m \in T
  <2>1. PICK h : h = [k \in 1 .. N |-> h[k]] /\ Right(h, m - 1)
    BY <1>3
  <2>. DEFINE g == [k \in 1 .. N |-> IF k = m THEN NodeHolds(c, fields, h, m) ELSE h[k]]
  <2>2. g = [k \in 1 .. N |-> g[k]]
    OBVIOUS
  <2>3. \A k \in 1 .. N : k # m => g[k] = h[k]
    OBVIOUS
  <2>4. g[m] = NodeHolds(c, fields, h, m)
    OBVIOUS
  <2>. HIDE DEF g
  <2>5. ASSUME NEW k \in 1 .. m PROVE g[k] = NodeHolds(c, fields, g, k)
    <3>1. k \in DOMAIN c /\ \A j \in 1 .. k - 1 : g[j] = h[j]
      BY <1>1, <2>3
    <3>2. NodeHolds(c, fields, g, k) = NodeHolds(c, fields, h, k)
      BY <3>1, OnlyPartsMatter
    <3>3. CASE k = m
      BY <2>4, <3>2, <3>3
    <3>4. CASE k # m
      <4>1. k \in 1 .. m - 1 /\ k \in 1 .. N
        BY <1>1, <3>4
      <4>2. h[k] = NodeHolds(c, fields, h, k)
        BY <2>1, <4>1
      <4>. QED BY <2>3, <3>2, <3>4, <4>1, <4>2
    <3>. QED BY <3>3, <3>4
  <2>. HIDE DEF Right
  <2>6. Right(g, m)
    BY <2>5 DEF Right
  <2>. QED BY <1>1, <2>2, <2>6
<1>4. 0 .. N \subseteq T
  <2>. HIDE DEF T, N
  <2>. QED BY <1>1, <1>2, <1>3, UpTo
<1>5. PICK h : h = [k \in 1 .. N |-> h[k]] /\ Right(h, N)
  BY <1>1, <1>4
<1>6. [k \in 1 .. N |-> h[k]] = [k \in 1 .. N |-> NodeHolds(c, fields, h, k)]
  BY <1>5
<1>. QED BY <1>1, <1>5, <1>6 DEF Evaluation

\* What a condition evaluates to is what its last node evaluates to.
LEMMA Evaluated ==
  ASSUME NEW c, IsCondition(c), NEW fields
  PROVE  \E h : /\ \A n \in DOMAIN c : h[n] = NodeHolds(c, fields, h, n)
                /\ EvaluateCondition(c, fields) = h[Len(c)]
<1>. DEFINE holds == CHOOSE h : Evaluation(c, fields, h)
<1>1. EvaluateCondition(c, fields) = holds[Len(c)]
  BY DEF EvaluateCondition, Evaluation, NodeHolds
<1>2. Evaluation(c, fields, holds)
  BY EvaluationExists
<1>. HIDE DEF holds
<1>3. \A n \in DOMAIN c : holds[n] = NodeHolds(c, fields, holds, n)
  BY <1>2 DEF Evaluation
<1>. QED BY <1>1, <1>3

-----------------------------------------------------------------------------
(* Rules on a message that becomes known *)

\* What a predicate saw it sees again.
LEMMA PredicateSurvives ==
  ASSUME NEW is, EvaluatePredicate(is, env), NEW field, NEW value, With(field, value)
  PROVE  EvaluatePredicate(is, env')
<1>1. is.field \in DOMAIN env' /\ env'[is.field] = env[is.field]
  BY DEF EvaluatePredicate, With
<1>. QED BY <1>1 DEF EvaluatePredicate

LEMMA ConditionSurvives ==
  ASSUME NEW c, IsCondition(c), Positive(c), EvaluateCondition(c, env),
         NEW field, NEW value, With(field, value)
  PROVE  EvaluateCondition(c, env')
<1>1. PICK g : /\ \A n \in DOMAIN c : g[n] = NodeHolds(c, env, g, n)
               /\ EvaluateCondition(c, env) = g[Len(c)]
  BY Evaluated
<1>2. PICK h : /\ \A n \in DOMAIN c : h[n] = NodeHolds(c, env', h, n)
               /\ EvaluateCondition(c, env') = h[Len(c)]
  BY Evaluated
<1>3. Len(c) \in Nat \ {0} /\ DOMAIN c = 1 .. Len(c)
  BY DEF IsCondition
<1>. DEFINE T == {n \in 1 .. Len(c) : g[n] => h[n]}
<1>4. ASSUME NEW n \in 1 .. Len(c), 1 .. n - 1 \subseteq T PROVE n \in T
  <2>1. \A i \in DOMAIN c[n].of : g[c[n].of[i]] => h[c[n].of[i]]
    BY <1>3, <1>4 DEF IsCondition
  <2>2. c[n].node \in {"all", "any", "is"}
    BY <1>3 DEF IsCondition, Positive, Nodes
  <2>3. NodeHolds(c, env, g, n) => NodeHolds(c, env', h, n)
    BY <2>1, <2>2, PredicateSurvives DEF NodeHolds
  <2>. QED BY <1>1, <1>2, <1>3, <2>3
<1>5. Len(c) \in T
  <2>1. 1 .. Len(c) \subseteq T
    <3>. HIDE DEF T
    <3>. QED BY <1>3, <1>4, NodeByNode
  <2>. QED BY <1>3, <2>1
<1>. QED BY <1>1, <1>2, <1>5

CandidatesInv == candidate \in Candidates /\ existing \in Candidates

LEMMA CandidatesStay ==
  /\ EngineInit => CandidatesInv
  /\ CandidatesInv /\ [EngineNext]_engineVars => CandidatesInv'
BY DEF EngineInit, EngineNext, With, CandidatesInv, engineVars

\* For every condition without negation, however deep, and every message: a
\* rule that fires goes on firing as more is known (evaluate_condition).
THEOREM RulesNeverFireForWant == EngineSpec => MatchSurvivesMoreFields
<1>1. CandidatesInv /\ [EngineNext]_engineVars
        => [Positive(candidate.condition) /\ EvaluateCondition(candidate.condition, env)
              => EvaluateCondition(candidate.condition, env')]_engineVars
  <2>. SUFFICES ASSUME CandidatesInv, EngineNext, Positive(candidate.condition),
                       EvaluateCondition(candidate.condition, env)
                PROVE  EvaluateCondition(candidate.condition, env')
    BY DEF engineVars
  <2>1. IsCondition(candidate.condition)
    BY EngineAssumption DEF CandidatesInv
  <2>. QED BY <2>1, ConditionSurvives DEF EngineNext
<1>. QED BY <1>1, CandidatesStay, PTL DEF EngineSpec, MatchSurvivesMoreFields

-----------------------------------------------------------------------------
(* Rules that are reported as contradicting each other *)

\* Two nodes are the same if what they stand over is, in some order.
SameNode(a, b, s, m, n) ==
  /\ a[m].node = b[n].node /\ a[m].is = b[n].is
  /\ \E order \in Bijection(DOMAIN a[m].of, DOMAIN b[n].of) :
       \A i \in DOMAIN a[m].of : s[a[m].of[i]][b[n].of[order[i]]]

Comparison(a, b, s) == s = [m \in DOMAIN a |-> [n \in DOMAIN b |-> SameNode(a, b, s, m, n)]]

LEMMA SameByParts ==
  ASSUME NEW a, IsCondition(a), NEW b, NEW m \in DOMAIN a, NEW n, NEW r, NEW s,
         \A k \in 1 .. m - 1 : r[k] = s[k]
  PROVE  SameNode(a, b, r, m, n) = SameNode(a, b, s, m, n)
<1>1. \A i \in DOMAIN a[m].of : a[m].of[i] \in 1 .. m - 1
  BY DEF IsCondition
<1>2. \A i \in DOMAIN a[m].of : r[a[m].of[i]] = s[a[m].of[i]]
  BY <1>1
<1>. QED BY <1>2 DEF SameNode

LEMMA ComparisonExists ==
  ASSUME NEW a, IsCondition(a), NEW b
  PROVE  \E s : Comparison(a, b, s)
<1>. DEFINE N == Len(a)
            Row(s, m) == [n \in DOMAIN b |-> SameNode(a, b, s, m, n)]
            Right(s, m) == \A k \in 1 .. m : s[k] = Row(s, k)
            T == {m \in 0 .. N : \E s : s = [k \in 1 .. N |-> s[k]] /\ Right(s, m)}
<1>1. N \in Nat /\ DOMAIN a = 1 .. N
  BY DEF IsCondition
<1>2. 0 \in T
  <2>. DEFINE s == [k \in 1 .. N |-> TRUE]
  <2>1. s = [k \in 1 .. N |-> s[k]]
    OBVIOUS
  <2>. HIDE DEF s
  <2>2. Right(s, 0)
    OBVIOUS
  <2>. HIDE DEF Right
  <2>. QED BY <1>1, <2>1, <2>2
<1>3. ASSUME NEW m \in 1 .. N, m - 1 \in T PROVE m \in T
  <2>. HIDE DEF Row
  <2>1. PICK s : s = [k \in 1 .. N |-> s[k]] /\ Right(s, m - 1)
    BY <1>3
  <2>. DEFINE r == [k \in 1 .. N |-> IF k = m THEN Row(s, m) ELSE s[k]]
  <2>2. r = [k \in 1 .. N |-> r[k]]
    OBVIOUS
  <2>3. \A k \in 1 .. N : k # m => r[k] = s[k]
    OBVIOUS
  <2>4. r[m] = Row(s, m)
    OBVIOUS
  <2>. HIDE DEF r
  <2>5. ASSUME NEW k \in 1 .. m PROVE r[k] = Row(r, k)
    <3>1. k \in DOMAIN a /\ \A j \in 1 .. k - 1 : r[j] = s[j]
      BY <1>1, <2>3
    <3>2. Row(r, k) = Row(s, k)
      <4>1. \A n \in DOMAIN b : SameNode(a, b, r, k, n) = SameNode(a, b, s, k, n)
        BY <3>1, SameByParts
      <4>. QED BY <4>1 DEF Row
    <3>3. CASE k = m
      BY <2>4, <3>2, <3>3
    <3>4. CASE k # m
      <4>1. k \in 1 .. m - 1 /\ k \in 1 .. N
        BY <1>1, <3>4
      <4>2. s[k] = Row(s, k)
        BY <2>1, <4>1
      <4>. QED BY <2>3, <3>2, <3>4, <4>1, <4>2
    <3>. QED BY <3>3, <3>4
  <2>. HIDE DEF Right
  <2>6. Right(r, m)
    BY <2>5 DEF Right
  <2>. QED BY <1>1, <2>2, <2>6
<1>4. 0 .. N \subseteq T
  <2>. HIDE DEF T, N
  <2>. QED BY <1>1, <1>2, <1>3, UpTo
<1>5. PICK s : s = [k \in 1 .. N |-> s[k]] /\ Right(s, N)
  BY <1>1, <1>4
<1>6. [k \in 1 .. N |-> s[k]] = [k \in 1 .. N |-> Row(s, k)]
  <2>. HIDE DEF Row
  <2>. QED BY <1>5
<1>. QED BY <1>1, <1>5, <1>6 DEF Comparison

LEMMA Compared ==
  ASSUME NEW a, IsCondition(a), NEW b, IsCondition(b)
  PROVE  \E s : /\ \A m \in DOMAIN a, n \in DOMAIN b : s[m][n] = SameNode(a, b, s, m, n)
                /\ ConditionsEquivalent(a, b) = s[Len(a)][Len(b)]
<1>. DEFINE same == CHOOSE s : Comparison(a, b, s)
<1>1. ConditionsEquivalent(a, b) = same[Len(a)][Len(b)]
  BY DEF ConditionsEquivalent, Comparison, SameNode
<1>2. Comparison(a, b, same)
  BY ComparisonExists
<1>. HIDE DEF same
<1>3. \A m \in DOMAIN a, n \in DOMAIN b : same[m][n] = SameNode(a, b, same, m, n)
  BY <1>2 DEF Comparison
<1>. QED BY <1>1, <1>3

\* Of two nodes that are the same, on one message, both hold or neither does.
LEMMA SameNodesAgree ==
  ASSUME NEW a, IsCondition(a), NEW b, IsCondition(b), NEW fields, NEW s, NEW g, NEW h,
         NEW m \in DOMAIN a, NEW n \in DOMAIN b, SameNode(a, b, s, m, n),
         \A k \in 1 .. m - 1 : \A l \in DOMAIN b : s[k][l] => (g[k] <=> h[l])
  PROVE  NodeHolds(a, fields, g, m) <=> NodeHolds(b, fields, h, n)
<1>1. PICK order \in Bijection(DOMAIN a[m].of, DOMAIN b[n].of) :
        \A i \in DOMAIN a[m].of : s[a[m].of[i]][b[n].of[order[i]]]
  BY DEF SameNode
<1>2. /\ \A i \in DOMAIN a[m].of : order[i] \in DOMAIN b[n].of
      /\ \A j \in DOMAIN b[n].of : \E i \in DOMAIN a[m].of : order[i] = j
  BY <1>1 DEF Bijection, Injection, Surjection
<1>3. /\ \A i \in DOMAIN a[m].of : a[m].of[i] \in 1 .. m - 1
      /\ \A j \in DOMAIN b[n].of : b[n].of[j] \in 1 .. n - 1
      /\ 1 .. n - 1 \subseteq DOMAIN b
  <2>1. Len(b) \in Nat /\ DOMAIN b = 1 .. Len(b)
    BY DEF IsCondition
  <2>2. 1 .. n - 1 \subseteq DOMAIN b
    BY <2>1
  <2>. QED BY <2>2 DEF IsCondition
<1>4. \A i \in DOMAIN a[m].of : g[a[m].of[i]] <=> h[b[n].of[order[i]]]
  BY <1>1, <1>2, <1>3
<1>5. a[m].node = b[n].node /\ a[m].is = b[n].is
  BY DEF SameNode
<1>6. CASE a[m].node = "all"
  BY <1>2, <1>4, <1>5, <1>6 DEF NodeHolds
<1>7. CASE a[m].node = "any"
  BY <1>2, <1>4, <1>5, <1>7 DEF NodeHolds
<1>8. CASE a[m].node = "not"
  <2>1. 1 \in DOMAIN a[m].of /\ DOMAIN b[n].of = {1}
    BY <1>5, <1>8, NotStandsOverOne
  <2>2. order[1] = 1
    BY <1>2, <2>1
  <2>. QED BY <1>4, <1>5, <1>8, <2>1, <2>2 DEF NodeHolds
<1>9. CASE a[m].node = "is"
  BY <1>5, <1>9 DEF NodeHolds
<1>. QED BY <1>6, <1>7, <1>8, <1>9 DEF IsCondition, Nodes

LEMMA EquivalentAgree ==
  ASSUME NEW a, IsCondition(a), NEW b, IsCondition(b), NEW fields, ConditionsEquivalent(a, b)
  PROVE  EvaluateCondition(a, fields) <=> EvaluateCondition(b, fields)
<1>1. PICK s : /\ \A m \in DOMAIN a, n \in DOMAIN b : s[m][n] = SameNode(a, b, s, m, n)
               /\ ConditionsEquivalent(a, b) = s[Len(a)][Len(b)]
  BY Compared
<1>2. PICK g : /\ \A n \in DOMAIN a : g[n] = NodeHolds(a, fields, g, n)
               /\ EvaluateCondition(a, fields) = g[Len(a)]
  BY Evaluated
<1>3. PICK h : /\ \A n \in DOMAIN b : h[n] = NodeHolds(b, fields, h, n)
               /\ EvaluateCondition(b, fields) = h[Len(b)]
  BY Evaluated
<1>4. /\ Len(a) \in Nat \ {0} /\ DOMAIN a = 1 .. Len(a)
      /\ Len(b) \in Nat \ {0} /\ DOMAIN b = 1 .. Len(b)
  BY DEF IsCondition
<1>. DEFINE T == {m \in 1 .. Len(a) : \A n \in DOMAIN b : s[m][n] => (g[m] <=> h[n])}
<1>5. ASSUME NEW m \in 1 .. Len(a), 1 .. m - 1 \subseteq T PROVE m \in T
  <2>1. \A k \in 1 .. m - 1 : \A l \in DOMAIN b : s[k][l] => (g[k] <=> h[l])
    BY <1>5
  <2>2. ASSUME NEW n \in DOMAIN b, s[m][n] PROVE g[m] <=> h[n]
    <3>1. SameNode(a, b, s, m, n)
      BY <1>1, <1>4, <2>2
    <3>2. NodeHolds(a, fields, g, m) <=> NodeHolds(b, fields, h, n)
      BY <1>4, <2>1, <3>1, SameNodesAgree
    <3>. QED BY <1>2, <1>3, <1>4, <3>2
  <2>. QED BY <2>2
<1>6. Len(a) \in T
  <2>1. 1 .. Len(a) \subseteq T
    <3>. HIDE DEF T
    <3>. QED BY <1>4, <1>5, NodeByNode
  <2>. QED BY <1>4, <2>1
<1>7. Len(b) \in DOMAIN b
  BY <1>4
<1>8. s[Len(a)][Len(b)]
  BY <1>1, Zenon
<1>9. g[Len(a)] <=> h[Len(b)]
  BY <1>6, <1>7, <1>8
<1>. QED BY <1>2, <1>3, <1>9

\* For every two conditions, however deep, and every message: a conflict that
\* is reported is one (detect_conflicts, conditions_equivalent).
THEOREM ReportedConflictsAreReal == EngineSpec => []ConflictIsReal
<1>1. CandidatesInv => ConflictIsReal
  <2>. SUFFICES ASSUME CandidatesInv, DetectConflicts(candidate, existing)
                PROVE  /\ EvaluateCondition(candidate.condition, env)
                             <=> EvaluateCondition(existing.condition, env)
                       /\ Contradicts(existing.effect, candidate.effect)
    BY DEF ConflictIsReal
  <2>1. IsCondition(candidate.condition) /\ IsCondition(existing.condition)
    BY EngineAssumption DEF CandidatesInv
  <2>2. ConditionsEquivalent(candidate.condition, existing.condition)
    BY DEF DetectConflicts
  <2>3. Contradicts(existing.effect, candidate.effect)
    BY DEF DetectConflicts, Contradicts
  <2>. QED BY <2>1, <2>2, <2>3, EquivalentAgree
<1>. QED BY <1>1, CandidatesStay, PTL DEF EngineSpec
=============================================================================

------------------------------ MODULE Conditions ------------------------------
(***************************************************************************)
(* The condition language of the rules (mailmate-common/src/rules/         *)
(* condition.rs), how the engine evaluates a condition and when it takes   *)
(* two of them for the same (mailmate-rules).                              *)
(*                                                                         *)
(* A value is [type, number, texts], texts being a sequence.  A condition  *)
(* is its tree, as the sequence of its nodes [node, of, is], the children  *)
(* before their parents and the root last: a node is all, any or not, over *)
(* the nodes at the places in of, or a predicate, which is [field, op,     *)
(* value].  What texts contain, mean as a time, and match as a pattern is  *)
(* given.                                                                  *)
(***************************************************************************)
EXTENDS Integers, SequencesExt

CONSTANTS
  Within,      \* <<needle, haystack>>
  Instants,    \* the texts that are RFC 3339 times -> when
  Matching     \* <<pattern, text>>, of the patterns that compile

-----------------------------------------------------------------------------
(* Values.                                                                 *)

Null       == [type |-> "null", number |-> 0, texts |-> <<>>]
Bool(b)    == [type |-> "bool", number |-> IF b THEN 1 ELSE 0, texts |-> <<>>]
Number(n)  == [type |-> "int", number |-> n, texts |-> <<>>]
Text(s)    == [type |-> "text", number |-> 0, texts |-> <<s>>]
TextSet(s) == [type |-> "text_set", number |-> 0, texts |-> s]

IsPresent(v) == v.type # "null"

\* as_number, as_text and as_set: the types for which they return something.
IsNumber(v) == v.type = "int"
IsText(v)   == v.type = "text"
IsSet(v)    == v.type \in {"text_set", "text"}

\* Equal numbers, or the same value; of sets, in the same order.
ValuesEqual(field, value) == field = value

ScalarInSet(field, value) ==
  IsText(field) /\ IsSet(value) /\ field.texts[1] \in Range(value.texts)

\* A set has a member, a text a part.
Has(field, needle) ==
  \/ field.type = "text_set" /\ needle \in Range(field.texts)
  \/ field.type = "text" /\ <<needle, field.texts[1]>> \in Within

ContainsText(field, value) == IsText(value) /\ Has(field, value.texts[1])

ContainsAny(field, value) ==
  IsSet(value) /\ \E needle \in Range(value.texts) : Has(field, needle)
ContainsAll(field, value) ==
  IsSet(value) /\ \A needle \in Range(value.texts) : Has(field, needle)

NumericCmp(op, field, value) ==
  /\ IsNumber(field) /\ IsNumber(value)
  /\ CASE op = "gt"  -> field.number > value.number
       [] op = "gte" -> field.number >= value.number
       [] op = "lt"  -> field.number < value.number
       [] op = "lte" -> field.number <= value.number

IsInstant(v) == IsText(v) /\ v.texts[1] \in DOMAIN Instants

DatetimeCmp(op, field, value) ==
  /\ IsInstant(field) /\ IsInstant(value)
  /\ LET a == Instants[field.texts[1]]
         b == Instants[value.texts[1]]
     IN  IF op = "before" THEN a < b ELSE a > b

MatchesRegex(field, value) ==
  IsText(field) /\ IsText(value) /\ <<value.texts[1], field.texts[1]>> \in Matching

ApplyOp(op, field, value) ==
  CASE op = "eq"            -> ValuesEqual(field, value)
    [] op = "in"            -> ScalarInSet(field, value)
    [] op = "contains"      -> ContainsText(field, value)
    [] op = "contains_any"  -> ContainsAny(field, value)
    [] op = "contains_all"  -> ContainsAll(field, value)
    [] op \in {"gt", "gte", "lt", "lte"} -> NumericCmp(op, field, value)
    [] op \in {"before", "after"}        -> DatetimeCmp(op, field, value)
    [] op = "matches_regex" -> MatchesRegex(field, value)
    [] op = "exists"        -> IsPresent(field)

-----------------------------------------------------------------------------
(* Conditions.                                                             *)

Nodes == {"all", "any", "not", "is"}

\* Every node stands over nodes before it, not over one.
IsCondition(c) ==
  /\ Len(c) \in Nat \ {0} /\ DOMAIN c = 1 .. Len(c)
  /\ \A n \in DOMAIN c :
       /\ c[n].node \in Nodes
       /\ Len(c[n].of) \in Nat /\ DOMAIN c[n].of = 1 .. Len(c[n].of)
       /\ \A i \in DOMAIN c[n].of : c[n].of[i] \in 1 .. n - 1
       /\ c[n].node = "not" => Len(c[n].of) = 1

Is(field, op, value) ==
  <<[node |-> "is", of |-> <<>>, is |-> [field |-> field, op |-> op, value |-> value]]>>

\* The nodes of the conditions, one condition after the other, and one over them.
Combined(node, conditions) ==
  LET Before(i) == Len(FlattenSeq(SubSeq(conditions, 1, i - 1)))
      Moved(i)  == [n \in DOMAIN conditions[i] |->
                      [conditions[i][n] EXCEPT !.of = [k \in DOMAIN @ |-> @[k] + Before(i)]]]
  IN  FlattenSeq([i \in DOMAIN conditions |-> Moved(i)]) \o
        <<[node |-> node, of |-> [i \in DOMAIN conditions |-> Before(i + 1)],
           is |-> [field |-> "", op |-> "", value |-> Null]]>>

\* Mutant: what the message does not say is no reason to hold a rule back.
EvaluateLeniently(is, fields) ==
  is.field \in DOMAIN fields => ApplyOp(is.op, fields[is.field], is.value)

\* An absent or null field satisfies no predicate.
EvaluatePredicate(is, fields) ==
  /\ is.field \in DOMAIN fields
  /\ IsPresent(fields[is.field])
  /\ ApplyOp(is.op, fields[is.field], is.value)

EvaluateCondition(c, fields) ==
  LET holds[n \in DOMAIN c] ==
        \/ c[n].node = "all" /\ \A i \in DOMAIN c[n].of : holds[c[n].of[i]]
        \/ c[n].node = "any" /\ \E i \in DOMAIN c[n].of : holds[c[n].of[i]]
        \/ c[n].node = "not" /\ ~holds[c[n].of[1]]
        \/ c[n].node = "is" /\ EvaluatePredicate(c[n].is, fields)
  IN  holds[Len(c)]

\* The same tree, but for the order of what all and any stand over.
ConditionsEquivalent(a, b) ==
  LET same[m \in DOMAIN a] ==
        [n \in DOMAIN b |->
           /\ a[m].node = b[n].node /\ a[m].is = b[n].is
           /\ \E order \in Bijection(DOMAIN a[m].of, DOMAIN b[n].of) :
                \A i \in DOMAIN a[m].of : same[a[m].of[i]][b[n].of[order[i]]]]
  IN  same[Len(a)][Len(b)]
===============================================================================

------------------------------ MODULE MCTraining ------------------------------
(* Two instances side by side, of which a behaviour follows one.  Training:  *)
(* two runs with different objectives over four rows, two of them held out;  *)
(* a strict policy and the loosest one.  Export: datasets of two examples.   *)
EXTENDS Training

CONSTANTS strict, loose, taught, agreed, kept, review, Labels, Bodies, MaxExamples

VARIABLES side, exported

MCRequest == [r \in Runs |->
  IF r = strict
    THEN [objective |-> "sft", tasks |-> {}, minQuality |-> 70, maxFailures |-> 0,
          requireCompatible |-> TRUE]
    ELSE [objective |-> "preference", tasks |-> {"classification", "filing"},
          minQuality |-> 0, maxFailures |-> 1, requireCompatible |-> FALSE]]

\* taught: a correction to train on; agreed: an answer the user confirmed; kept:
\* a filing to hold out; review: the outcome of a proposal, held out as well.
MCTaskOf  == [row \in Rows |-> CASE row \in {taught, agreed} -> "classification"
                                 [] row = kept   -> "filing"
                                 [] OTHER        -> "rule_proposal"]
MCSplitOf == [row \in Rows |-> IF row \in {taught, agreed} THEN "train"
                               ELSE IF row = kept THEN "test" ELSE "holdout"]

\* A label; a body with an address and a telephone number, and a harmless one.
SomeLabels == {<<"a">>}
SomeTexts == {<<"a", "@", "a", ":", " ", "9", "9", "9", " ", "9", "9", "9", "9", " ", "a">>, <<"a", " ">>}
OddTexts  == {<<"@", "a", "@", "a">>}
OddNumber == {<<"@", "9", "9", "9", "9", "9", "9", "9", "a", "@", "a">>}

E == INSTANCE Export WITH examples <- exported

MCInit ==
  /\ side \in {"runs", "export"}
  /\ Init
  /\ E!ExportInit

MCNext ==
  \/ side = "runs" /\ Next /\ UNCHANGED <<side, exported>>
  \/ side = "export" /\ E!ExportNext /\ UNCHANGED <<side, vars>>

MCSpec == MCInit /\ [][MCNext]_<<vars, side, exported>>

\* The property of Export, of the behaviours that follow it.
ExportIsAsDeclared == side = "export" => E!ExportIsAsDeclared

\* What the code does not keep, see README.
AddressesAreScrubbed  == E!AddressesAreScrubbed
RedactionIsIdempotent == E!RedactionIsIdempotent
===============================================================================

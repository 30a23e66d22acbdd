---------------------------- MODULE MCMailActions ----------------------------
(***************************************************************************)
(* Small instances of MailActions: mails of a vendor that the local model  *)
(* clears or not, and hosts launched with different rules about them, of   *)
(* which one files two mails, perhaps copies of each other; and of         *)
(* RuleEngine: two rules, and a message whose fields become known.         *)
(***************************************************************************)
EXTENDS MailActions, RuleEngine

CONSTANTS m1, m2

TwoMails == {m1, m2}

Mail(cleared, header) ==
  [fields |-> {<<"sender_domain", "vendor.example">>},
   model |-> [top |-> "ham", confident |-> cleared, phishing_clear |-> TRUE],
   header |-> header]
SomeContents == {Mail(TRUE, "a"), Mail(FALSE, "a"), Mail(TRUE, "b"), Mail(TRUE, "")}

Effect0 == [set_labels |-> {}, priority |-> Unset, tag |-> <<>>, move |-> Unset,
            mark_junk |-> Unset, review_for |-> <<>>]
IsVendor == {[field |-> "sender_domain", value |-> "vendor.example", negated |-> FALSE]}
Labelled(l, negated) == {[field |-> "classification.labels", value |-> l, negated |-> negated]}

Rule(kind, status, band, condition, effect) ==
  [kind |-> kind, status |-> status, band |-> band, condition |-> condition, effect |-> effect]

\* Vendors send invoices, which a learned rule files and a shadow rule would
\* mark as junk.
Invoices ==
  <<Rule("classification", "active", 2, IsVendor,
         [Effect0 EXCEPT !.set_labels = {"invoice"}, !.priority = "high"]),
    Rule("action", "active", 2, IsVendor,
         [Effect0 EXCEPT !.move = "Receipts", !.tag = <<"receipt">>]),
    Rule("action", "shadow_mode", 3, IsVendor, [Effect0 EXCEPT !.mark_junk = "yes"])>>

\* A learned rule files what is not an invoice; a hard rule disagrees.
Contradiction ==
  <<Rule("action", "active", 2, Labelled("invoice", TRUE),
         [Effect0 EXCEPT !.move = "Vendors", !.mark_junk = "yes"]),
    Rule("action", "active", 1, IsVendor,
         [Effect0 EXCEPT !.move = "Projects", !.mark_junk = "no"])>>

\* Two tags, and a rule that holds moves back.
Held ==
  <<Rule("action", "active", 1, IsVendor, [Effect0 EXCEPT !.review_for = <<"move">>]),
    Rule("action", "active", 2, IsVendor,
         [Effect0 EXCEPT !.move = "Vendors", !.tag = <<"vendor", "todo">>])>>

Filing ==
  <<Rule("action", "active", 2, IsVendor, [Effect0 EXCEPT !.move = "Vendors"])>>

SomeStores == {Invoices, Contradiction, Held, Filing}
OneFolder  == {"Projects"}

-----------------------------------------------------------------------------
VARIABLE side

SomeReadings ==
  [from   |-> {Text("ann"), Text("bob")},
   labels |-> {TextSet(<<"spam", "offer">>), TextSet(<<"offer">>)},
   size   |-> {Number(1), Number(2)},
   date   |-> {Text("June"), Text("soon")}]
SomeWithin   == {<<"ann", "ann">>, <<"an", "ann">>, <<"bob", "bob">>}
SomeInstants == [June |-> 6, July |-> 7]
SomeMatching == {<<"a.*", "ann">>}

OfTheMail ==
  {Is("from", "eq", Text("ann")), Is("from", "in", TextSet(<<"ann", "eve">>)),
   Is("from", "contains", Text("an")), Is("from", "matches_regex", Text("a.*")),
   Is("labels", "contains_any", TextSet(<<"spam", "ham">>)),
   Is("labels", "contains_all", TextSet(<<"spam", "offer">>)),
   Is("size", "gt", Number(1)), Is("size", "lte", Number(1)), Is("size", "eq", Bool(TRUE)),
   Is("date", "before", Text("July")), Is("date", "exists", Null)}

IsAnn  == Is("from", "eq", Text("ann"))
IsSpam == Is("labels", "contains", Text("spam"))
Nested(p, q) == Combined("all", <<Combined("any", <<p, q>>), Combined("not", <<q>>)>>)
Turned(p, q) == Combined("all", <<Combined("not", <<q>>), Combined("any", <<q, p>>)>>)

SomeConditions ==
  OfTheMail
    \cup {Combined(n, <<IsAnn, IsSpam>>) : n \in {"all", "any"}}
    \cup {Combined(n, <<IsSpam, IsAnn>>) : n \in {"all", "any"}}
    \cup {Combined("all", <<>>), Combined("all", <<IsAnn>>), Combined("not", <<IsAnn>>)}
    \cup {Nested(IsAnn, IsSpam), Turned(IsAnn, IsSpam), Nested(IsSpam, IsAnn)}

SomeEffects == {[move |-> "Projects", mark_junk |-> ""], [move |-> "Vendors", mark_junk |-> "no"],
                [move |-> "", mark_junk |-> "yes"]}
SomeCandidates == [condition : SomeConditions, effect : SomeEffects]

allVars    == <<vars, engineVars, side>>

\* Only the filing host gets the second mail: a copy of the first, another mail
\* or one without a Message-ID.
Pair ==
  /\ box[m1].content.header = "a"
  /\ IF store = Filing THEN box[m1].content.model.confident /\ box[m2].content.model.confident
     ELSE box[m2].content = Mail(TRUE, "b")

\* The same pair of rules twice is not asked about, nor which of them is which.
MCInit ==
  \/ side = "mail" /\ Init /\ Pair /\ env = <<>>
       /\ candidate = (CHOOSE r \in Candidates : TRUE) /\ existing = candidate
  \/ side = "engine" /\ Init /\ store = Filing /\ ~paused /\ EngineInit
       /\ \A m \in Messages : box[m].content = Mail(TRUE, "a")
       /\ candidate.effect.move = "Projects" /\ existing.effect.move # "Projects"

AtMail(A) == side = "mail" /\ A /\ UNCHANGED <<engineVars, side>>

MCNext ==
  \/ AtMail(Next) /\ (store = Filing \/ m2 \notin Arrived')
  \/ side = "engine" /\ EngineNext /\ UNCHANGED <<vars, side>>

MCFairness ==
  /\ WF_allVars(AtMail(HandleNewMail \/ HandleRecord))
  /\ WF_allVars(AtMail(ExtensionSteps))

MCSpec == MCInit /\ [][MCNext]_allVars /\ MCFairness

=============================================================================

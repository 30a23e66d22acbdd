-------------------------------- MODULE Records -------------------------------
(***************************************************************************)
(* The repositories that have no fake to be compared with: mail, senders,  *)
(* proposals with their evidence, feedback, recorded conflicts and shadow  *)
(* firings, and the tables of the training layer                           *)
(* (mailmate-storage/src/repositories).  Their tables are set against what *)
(* their callers were told, which is all a caller has to go by.            *)
(*                                                                         *)
(* As in Stores, a row is named by its place and "at" is its time, of which*)
(* the table has the text.  A place that no row has is an id that no row   *)
(* has.  Columns that no query looks at are left out.                      *)
(***************************************************************************)
EXTENDS Stores

VARIABLES
  kept,  \* the tables
  told   \* of each row, the last that a caller was told of it

recordsVars == <<storesVars, kept, told>>

-----------------------------------------------------------------------------
(* The words of the TEXT columns, which as_str writes and from_db_str reads*)
(* back.                                                                   *)

RetentionLevels        == {"metadata", "bodies", "summaries"}
ClassificationStatuses == {"pending", "processing", "done", "failed"}
TrustLevels            == {"unknown", "trusted", "suspicious", "blocked"}
DraftStatuses          == {"generated", "edited", "sent", "discarded"}
ProposalStatuses       == {"draft", "pending_review", "accepted", "rejected", "shadowing"}
ConflictStatuses       == {"open", "resolved", "ignored"}
AdapterStatuses        == {"candidate", "active", "retired", "failed_eval"}
FeedbackKinds          == {"classification", "filing"}

RetainsBody(retention) == retention \in {"bodies", "summaries"}

(* The rows.                                                               *)

Times  == 0 .. MaxTime
Places == Nat \ {0}
Opt(S) == S \cup {NULL}

ThreadRows   == [count : Nat, at : Times]
MessageRows  == [thread : Opt(Places), status : ClassificationStatuses,
                 retained : BOOLEAN, body : BOOLEAN, at : Times]
FeatureRows  == [message : Places, name : Keys]
SenderRows   == [email : Keys, trust : TrustLevels, at : Times]
DraftRows    == [message : Opt(Places), thread : Opt(Places), review : {TRUE},
                 status : DraftStatuses, at : Times]
Reviews      == [status : ProposalStatuses, reviewed : Opt(Times)]
ProposalRows == [json : Reviews, status : ProposalStatuses, reviewed : Opt(Times), at : Times]
EvidenceRows == [proposal : Places, source : Keys, at : Times]
FeedbackRows == [kind : FeedbackKinds, subject : Keys, verdict : Keys, at : Times]
DecisionRows == [proposal : Keys, at : Times]
ShadowRows   == [rule : Keys, at : Times]
ConflictRows == [status : ConflictStatuses, resolved : Opt(Times), at : Times]
DatasetRows  == [at : Times]
AdapterRows  == [dataset : Opt(Places), status : AdapterStatuses, at : Times]
RunRows      == [adapter : Places, dataset : Places, approved : BOOLEAN, at : Times]

Empty(tables) == [table \in tables |-> <<>>]

RecordsInit ==
  /\ StoresInit
  /\ kept = Empty({"threads", "messages", "features", "senders", "drafts", "proposals", "evidence",
                   "feedback", "decisions", "shadow", "conflicts", "datasets", "adapters", "runs"})
  /\ told = Empty({"messages", "features", "senders", "drafts", "proposals", "conflicts",
                   "adapters"})

-----------------------------------------------------------------------------
(* Writes.                                                                 *)

Written(k, t) ==
  /\ calls < MaxCalls /\ calls' = calls + 1
  /\ kept' = k /\ told' = t
  /\ UNCHANGED <<clock, sql, fake, refused>>

\* The places of a table and one that no row has.
Ids(table) == 1 .. Len(kept[table]) + 1

\* A foreign key names a row that is there, or is NULL.
Refers(table, place) == place = NULL \/ place \in DOMAIN kept[table]

\* A row that refers to one that is missing fails the statement.
Insert(table, row, refers) ==
  Written(IF refers THEN [kept EXCEPT ![table] = Append(@, row)] ELSE kept, told)

InsertTold(table, row, word, refers) ==
  Written(IF refers THEN [kept EXCEPT ![table] = Append(@, row)] ELSE kept,
          IF refers THEN [told EXCEPT ![table] = Append(@, word)] ELSE told)

\* A row with the columns that were set.
Over(set, row) == [c \in DOMAIN row |-> IF c \in DOMAIN set THEN set[c] ELSE row[c]]

OverAt(rows, place, set) == [p \in DOMAIN rows |-> IF p = place THEN Over(set, rows[p]) ELSE rows[p]]

\* UPDATE ... WHERE id: of no row if there is none, and all but one of the
\* repositories answer Ok to that too.
Update(table, place, row, word) ==
  Written([kept EXCEPT ![table] = OverAt(@, place, row)], [told EXCEPT ![table] = OverAt(@, place, word)])

InsertThread == Insert("threads", [count |-> 1, at |-> clock], TRUE)

\* The time is the message's own, and may be an earlier one.
RecordMessageSeen(t, seen) ==
  Written([kept EXCEPT !.threads =
             [p \in DOMAIN @ |-> IF p = t THEN [count |-> @[p].count + 1, at |-> seen] ELSE @[p]]],
          told)

\* What the adapter hands over; that it has a body is understood.
NewMessages ==
  [thread : Opt(Ids("threads")), retention : RetentionLevels, received : {0, clock}]

\* Mutant: the body is written whatever the retention.
Ungated(new) ==
  [thread |-> new.thread, status |-> "pending", retained |-> RetainsBody(new.retention),
   body |-> TRUE, at |-> new.received]

\* The privacy gate: the repository, not the caller, drops the body.
Gated(new) ==
  [thread |-> new.thread, status |-> "pending", retained |-> RetainsBody(new.retention),
   body |-> RetainsBody(new.retention), at |-> new.received]

InsertMessage(new) ==
  InsertTold("messages", Gated(new), [status |-> "pending", retention |-> new.retention],
             Refers("threads", new.thread))

SetClassificationStatus(m, status) ==
  Update("messages", m, [status |-> status], [status |-> status])

\* One INSERT for each feature and no transaction around them: what fails
\* after some of them leaves these, and the caller is told of none.
AddFeatures(m, names, done) ==
  LET rows(n) == [k \in 1 .. n |-> [message |-> m, name |-> names[k]]]
  IN  Written(IF Refers("messages", m) THEN [kept EXCEPT !.features = @ \o rows(done)] ELSE kept,
              IF Refers("messages", m) /\ done = Len(names)
                THEN [told EXCEPT !.features = @ \o rows(done)] ELSE told)

\* Nothing keeps a second profile of an address out.
InsertSender(email) ==
  LET row == [email |-> email, trust |-> "unknown", at |-> clock]
  IN  InsertTold("senders", row, row, TRUE)

SetTrustLevel(s, trust) ==
  Update("senders", s, [trust |-> trust, at |-> clock], [trust |-> trust, at |-> clock])

\* requires_review is the literal 1 of the statement.
InsertDraft(message, thread) ==
  InsertTold("drafts", [message |-> message, thread |-> thread, review |-> TRUE,
                        status |-> "generated", at |-> clock],
             [status |-> "generated"], Refers("messages", message) /\ Refers("threads", thread))

SetDraftStatus(d, status) ==
  Update("drafts", d, [status |-> status, at |-> clock], [status |-> status])

\* The link to the proposal is the repository's to make.
Links(p, sources) ==
  [k \in DOMAIN sources |-> [proposal |-> p, source |-> sources[k], at |-> clock]]

\* The proposal goes into its JSON whole and into its columns; its evidence
\* goes with it in one transaction, or neither does.
SaveProposal(status, sources, fails) ==
  LET word == [status |-> status, reviewed |-> NULL]
      row  == [json |-> word, status |-> status, reviewed |-> NULL, at |-> clock]
  IN  IF fails THEN Written(kept, told)
      ELSE Written([kept EXCEPT !.proposals = Append(@, row),
                                !.evidence = @ \o Links(Len(kept.proposals) + 1, sources)],
                   [told EXCEPT !.proposals = Append(@, [status |-> status, reviewed |-> NULL,
                                                         evidence |-> sources])])

\* The columns are written, and the JSON is left as it was.
SetProposalStatus(p, status, reviewed) ==
  LET word == [status |-> status, reviewed |-> reviewed]
  IN  Update("proposals", p, word, word)

AppendFeedback(kind, subject, verdict) ==
  Insert("feedback", [kind |-> kind, subject |-> subject, verdict |-> verdict, at |-> clock], TRUE)

AppendDecision(proposal) == Insert("decisions", [proposal |-> proposal, at |-> clock], TRUE)

AppendShadow(rule) == Insert("shadow", [rule |-> rule, at |-> clock], TRUE)

AppendConflict ==
  InsertTold("conflicts", [status |-> "open", resolved |-> NULL, at |-> clock],
             [status |-> "open"], TRUE)

SetConflictStatus(c, status, resolved) ==
  Update("conflicts", c, [status |-> status, resolved |-> resolved], [status |-> status])

AppendDataset == Insert("datasets", [at |-> clock], TRUE)

\* An adapter of another machine's making names no dataset.
AppendAdapter(dataset) ==
  InsertTold("adapters", [dataset |-> dataset, status |-> "candidate", at |-> clock],
             [status |-> "candidate"], Refers("datasets", dataset))

\* The one update that answers with an error when the row is missing.
SetAdapterStatus(a, status) ==
  Update("adapters", a, [status |-> status], [status |-> status])

AppendRun(adapter, dataset, approved) ==
  Insert("runs", [adapter |-> adapter, dataset |-> dataset, approved |-> approved, at |-> clock],
         Refers("adapters", adapter) /\ Refers("datasets", dataset))

Passes == clock < MaxTime /\ clock' = clock + 1 /\ UNCHANGED <<sql, fake, refused, calls, kept, told>>

-----------------------------------------------------------------------------
(* Calls of one family: no foreign key and no query joins two.             *)

Families == {"mail", "senders", "proposals", "feedback", "training"}

RecordsNext(family) ==
  \/ family = "mail" /\
       \/ InsertThread
       \/ \E t \in Ids("threads"), seen \in {0, clock} : RecordMessageSeen(t, seen)
       \/ \E new \in NewMessages : InsertMessage(new)
       \/ \E m \in Ids("messages"), status \in ClassificationStatuses :
            SetClassificationStatus(m, status)
       \/ \E m \in Ids("messages"), names \in {SetToSeq(Keys)} : \E done \in 0 .. Len(names) :
            AddFeatures(m, names, done)
       \/ \E message \in Opt(Ids("messages")), thread \in Opt(Ids("threads")) :
            InsertDraft(message, thread)
       \/ \E d \in Ids("drafts"), status \in DraftStatuses : SetDraftStatus(d, status)
  \/ family = "senders" /\
       \/ \E email \in Keys : InsertSender(email)
       \/ \E s \in Ids("senders"), trust \in TrustLevels : SetTrustLevel(s, trust)
  \/ family = "proposals" /\
       \/ \E status \in {"draft", "pending_review"}, n \in 0 .. Cardinality(Keys), fails \in BOOLEAN :
            SaveProposal(status, [k \in 1 .. n |-> SetToSeq(Keys)[k]], fails)
       \/ \E p \in Ids("proposals"), status \in ProposalStatuses, reviewed \in {NULL, clock} :
            SetProposalStatus(p, status, reviewed)
       \/ AppendConflict
       \/ \E c \in Ids("conflicts"), status \in ConflictStatuses, resolved \in {NULL, clock} :
            SetConflictStatus(c, status, resolved)
  \/ family = "feedback" /\
       \/ \E kind \in FeedbackKinds, subject, verdict \in Keys : AppendFeedback(kind, subject, verdict)
       \/ \E proposal \in Keys : AppendDecision(proposal)
       \/ \E rule \in Keys : AppendShadow(rule)
  \/ family = "training" /\
       \/ AppendDataset
       \/ \E dataset \in Opt(Ids("datasets")) : AppendAdapter(dataset)
       \/ \E a \in Ids("adapters"), status \in AdapterStatuses : SetAdapterStatus(a, status)
       \/ \E a \in Ids("adapters"), d \in Ids("datasets"), approved \in BOOLEAN :
            AppendRun(a, d, approved)
  \/ Passes

RecordsSpec == RecordsInit /\ [][\E family \in Families : RecordsNext(family)]_recordsVars

-----------------------------------------------------------------------------
(* Reads, as places.                                                       *)

Ascending(table, S)  == Sorted(S, [r \in S |-> Text(kept[table][r].at)])
Descending(table, S) == Sorted(S, [r \in S |-> -Text(kept[table][r].at)])

Limited(rows, limit) == IF limit = NULL THEN rows ELSE SubSeq(rows, 1, Min({limit, Len(rows)}))

ListByStatus(status) ==
  Ascending("messages", {m \in DOMAIN kept.messages : kept.messages[m].status = status})

GetFeatures(m) == {f \in DOMAIN kept.features : kept.features[f].message = m}

GetByEmail(email) ==
  Limited(Descending("senders", {s \in DOMAIN kept.senders : kept.senders[s].email = email}), 1)

\* Mutant: the JSON as it was saved.
ReadProposalJson(p) == kept.proposals[p].json

\* The JSON, with what may have changed since taken from the columns.
ReadProposal(p) ==
  Over([status |-> kept.proposals[p].status, reviewed |-> kept.proposals[p].reviewed],
       kept.proposals[p].json)

ListProposals(status) ==
  Descending("proposals", {p \in DOMAIN kept.proposals : kept.proposals[p].status = status})

EvidenceFor(p) ==
  Ascending("evidence", {e \in DOMAIN kept.evidence : kept.evidence[e].proposal = p})

\* A query names a subject, a verdict, both or neither.
QueryFeedback(kind, subjects, verdicts, limit) ==
  Limited(Descending("feedback",
            {f \in DOMAIN kept.feedback : /\ kept.feedback[f].kind = kind
                                          /\ kept.feedback[f].subject \in subjects
                                          /\ kept.feedback[f].verdict \in verdicts}), limit)

QueryDecisions(proposals, limit) ==
  Limited(Descending("decisions",
            {d \in DOMAIN kept.decisions : kept.decisions[d].proposal \in proposals}), limit)

ListForRule(rule) == Ascending("shadow", {s \in DOMAIN kept.shadow : kept.shadow[s].rule = rule})

ListOpen ==
  Descending("conflicts", {c \in DOMAIN kept.conflicts : kept.conflicts[c].status = "open"})

ListDatasets == Descending("datasets", DOMAIN kept.datasets)

ListAdapters == Descending("adapters", DOMAIN kept.adapters)

ListForAdapter(a) == Descending("runs", {r \in DOMAIN kept.runs : kept.runs[r].adapter = a})

-----------------------------------------------------------------------------
(* Properties.                                                             *)

RecordsTypeOK ==
  kept \in [threads : Seq(ThreadRows), messages : Seq(MessageRows), features : Seq(FeatureRows),
            senders : Seq(SenderRows), drafts : Seq(DraftRows), proposals : Seq(ProposalRows),
            evidence : Seq(EvidenceRows), feedback : Seq(FeedbackRows),
            decisions : Seq(DecisionRows), shadow : Seq(ShadowRows),
            conflicts : Seq(ConflictRows), datasets : Seq(DatasetRows),
            adapters : Seq(AdapterRows), runs : Seq(RunRows)]

\* A body is on disk only if the retention in force when its message came in
\* allowed it, whatever has been written to the message since, and the column
\* body_retained says so ("a body cannot be persisted by mistake", ports,
\* messages.rs).
BodiesByConsent ==
  \A m \in DOMAIN kept.messages :
    /\ kept.messages[m].body => RetainsBody(told.messages[m].retention)
    /\ kept.messages[m].retained <=> RetainsBody(told.messages[m].retention)

\* No row points at a row that is not there.
NothingDangles ==
  /\ \A m \in DOMAIN kept.messages : Refers("threads", kept.messages[m].thread)
  /\ \A f \in DOMAIN kept.features : Refers("messages", kept.features[f].message)
  /\ \A d \in DOMAIN kept.drafts :
       Refers("messages", kept.drafts[d].message) /\ Refers("threads", kept.drafts[d].thread)
  /\ \A a \in DOMAIN kept.adapters : Refers("datasets", kept.adapters[a].dataset)
  /\ \A r \in DOMAIN kept.runs :
       Refers("adapters", kept.runs[r].adapter) /\ Refers("datasets", kept.runs[r].dataset)

\* What is read back is the last that a caller was told is written, in the
\* row and in the list it is asked for under; the row's JSON, which is older,
\* does not count.  A feature that was told is among those listed.
LastWordCounts ==
  /\ \A status \in ClassificationStatuses :
       ToSet(ListByStatus(status)) = {m \in DOMAIN told.messages : told.messages[m].status = status}
  /\ \A f \in DOMAIN told.features :
       \E g \in GetFeatures(told.features[f].message) : kept.features[g].name = told.features[f].name
  /\ \A s \in DOMAIN told.senders : kept.senders[s] = told.senders[s]
  /\ \A d \in DOMAIN told.drafts : kept.drafts[d].status = told.drafts[d].status
  /\ \A p \in DOMAIN told.proposals, column \in {"status", "reviewed"} :
       ReadProposal(p)[column] = told.proposals[p][column]
  /\ \A status \in ProposalStatuses :
       ToSet(ListProposals(status)) =
         {p \in DOMAIN told.proposals : told.proposals[p].status = status}
  /\ ToSet(ListOpen) = {c \in DOMAIN told.conflicts : told.conflicts[c].status = "open"}
  /\ \A a \in ToSet(ListAdapters) : kept.adapters[a].status = told.adapters[a].status

\* A proposal is there with the whole of its evidence or it is not there, and
\* no evidence is there without it ("never orphaned", ports, proposals.rs).
EvidenceIsWhole ==
  /\ DOMAIN kept.proposals = DOMAIN told.proposals
  /\ \A e \in DOMAIN kept.evidence : kept.evidence[e].proposal \in DOMAIN kept.proposals
  /\ \A p \in DOMAIN kept.proposals :
       {kept.evidence[e].source : e \in ToSet(EvidenceFor(p))} = ToSet(told.proposals[p].evidence)

\* No later second before an earlier one, and the reverse.
Rising(table, rows) ==
  \A m, n \in DOMAIN rows :
    m < n => Second(kept[table][rows[m]].at) <= Second(kept[table][rows[n]].at)
Falling(table, rows) ==
  \A m, n \in DOMAIN rows :
    m < n => Second(kept[table][rows[m]].at) >= Second(kept[table][rows[n]].at)

Cut(table, all, cut) ==
  Falling(table, all) /\ Falling(table, cut \o all) /\ (all # <<>> => cut # <<>>)

\* The queue drains the oldest message first, the newest comes first where
\* the ports say so, an answer that is cut off lacks nothing newer than what
\* it has, and the profile of an address is the one written last: each to the
\* second, because the texts of two fractions do not compare as they should.
InOrderToTheSecond ==
  /\ \A status \in ClassificationStatuses : Rising("messages", ListByStatus(status))
  /\ \A rule \in Keys : Rising("shadow", ListForRule(rule))
  /\ \A status \in ProposalStatuses : Falling("proposals", ListProposals(status))
  /\ Falling("conflicts", ListOpen)
  /\ Falling("datasets", ListDatasets) /\ Falling("adapters", ListAdapters)
  /\ \A a \in DOMAIN kept.adapters : Falling("runs", ListForAdapter(a))
  /\ \A some \in {{k} : k \in Keys} \cup {Keys} :
       /\ \A kind \in FeedbackKinds, verdicts \in {{k} : k \in Keys} \cup {Keys} :
            Cut("feedback", QueryFeedback(kind, some, verdicts, NULL),
                            QueryFeedback(kind, some, verdicts, 1))
       /\ Cut("decisions", QueryDecisions(some, NULL), QueryDecisions(some, 1))
  /\ \A email \in Keys :
       LET profiles == {s \in DOMAIN told.senders : told.senders[s].email = email}
       IN  IF profiles = {} THEN GetByEmail(email) = <<>>
           ELSE \A s \in profiles :
                  Second(told.senders[s].at) <= Second(kept.senders[Head(GetByEmail(email))].at)

\* All of it together.
RecordsHold ==
  /\ RecordsTypeOK /\ BodiesByConsent /\ NothingDangles
  /\ LastWordCounts /\ EvidenceIsWhole /\ InOrderToTheSecond
===============================================================================

---------------------------- MODULE AdaptersOfRules ----------------------------
(***************************************************************************)
(* The adapters that follow rulemakings and legislation: Federal Register, *)
(* regulations.gov, CELLAR, OEIL, Have Your Say and LegiScan. For each one *)
(* the documents it makes of a record, and whether a run that asks for     *)
(* changes from day `since` on is given the record at all.                 *)
(***************************************************************************)
EXTENDS Normalized

NativeType   == [ProposedRule |-> "PRORULE", Rule |-> "RULE"]
NativeTrack  == [PRORULE |-> "proposed", RULE |-> "final"]
PublishedAs  == [PRORULE |-> "proposal_date", RULE |-> "adopted"]

\* Agency-wide RINs shared by routine actions identify nothing.
UmbrellaRins == {"2120-AA64", "1625-AA00"}
RinSentinels == {Blank, "not assigned", "pending"}

Keyed(type, name, vain) == IF name \in vain THEN {} ELSE {<<type, name>>}

\* The words of an action that make a document supplementary to a rulemaking.
SupplementWords == {"extension", "correction", "reopen", "withdraw", "delay"}

\* federal_register._normalize_doc. Advance notices are out by default. Only a root
\* document is dated by its publication, and a correction never moves a deadline.
FederalRegister(doc) ==
  LET native  == NativeType[doc.type]
      root    == doc.words \cap SupplementWords = {}
      correct == "correction" \in doc.words
      stated  == {On("comment_close", doc.closes), On("effective", doc.takes)}
  IN  Only(doc.type \in DOMAIN NativeType /\ "advance notice" \notin doc.words
             /\ InScope(doc.title, doc.body),
        {[Document("federal_register", <<"fr_doc_number", doc.number>>, NativeTrack[native], native)
            EXCEPT !.action = IF "withdraw" \in doc.words THEN "withdraw" ELSE "rule",
                   !.keys = Keyed("rin", doc.rin, UmbrellaRins \cup {Blank})
                              \cup Keyed("docket_id", doc.docket, {Blank}),
                   !.dates = Dated((IF root THEN {On(PublishedAs[native], doc.published)} ELSE {})
                                     \cup (IF correct THEN {} ELSE stated)),
                   !.supplementary = ~ root,
                   !.notes = correct /\ \E t \in stated : t[3] # NoDate]})
FederalRegisterLists(doc, since, today) == doc.published >= since

\* regulations_gov._normalize_doc: every document of a rulemaking docket enriches the
\* item its Federal Register number, its docket or its RIN leads to.
RegulationsGov(doc) ==
  LET native == NativeType[doc.type]
  IN  Only(doc.type \in DOMAIN NativeType /\ doc.docketType \in {Blank, "Rulemaking"},
        {[Document("regulations_gov", <<"regsgov_doc", doc.id>>, NativeTrack[native], native)
            EXCEPT !.keys = Keyed("fr_doc_number", doc.fr, {Blank})
                              \cup Keyed("docket_id", doc.docket, {Blank})
                              \cup Keyed("rin", doc.rin, RinSentinels),
                   !.dates = Dated({On("comment_close", doc.closes)}),
                   !.supplementary = TRUE]})
\* The window is on the day of the last modification, so a changed document returns.
RegulationsGovLists(doc, since, today) == doc.modified >= since

\* Days numbered in their order: `label` is a sequence of labels.
Numbered(type, label, days) ==
  {<<type, label[Cardinality({e \in days : e <= d})], d>> : d \in days}

Applications == <<"application-1", "application-2", "application-3">>
Deadlines    == <<"deadline-1", "deadline-2", "deadline-3">>

ActDates(doc) ==
  LET force == First(doc.forces)
  IN  {On("adopted", doc.date), On("entry_into_force", force)}
        \cup Numbered("phased_compliance", Applications, doc.forces \ {force})
        \cup Numbered("transition_deadline", Deadlines, doc.deadlines)

\* cellar._normalize_row. A corrigendum becomes a dateless document under the number
\* of the act it corrects; the celex numbers of CELEX_OBLIGATION_MAP pass the scope gate.
Cellar(doc) ==
  LET act == [Document("cellar", <<"celex", doc.celex>>, "final", "act")
                EXCEPT !.obligation = doc.owner]
  IN  Only(doc.date # NoDate /\ (doc.owner # Blank \/ InScope(doc.title, {})),
        IF doc.corrigendum THEN {[act EXCEPT !.notes = TRUE]}
        ELSE IF doc.proposal THEN
          {[act EXCEPT !.track = "proposed", !.status = "proposal",
                       !.dates = Dated({On("proposal_date", doc.date)})]}
        ELSE {[act EXCEPT !.dates = Dated(ActDates(doc))]})
\* The window is on the date of the document: an older one never returns.
CellarLists(doc, since, today) == doc.date >= since /\ doc.date <= today + 1

\* oeil.normalize: the stage a watched procedure has reached.
Oeil(doc) ==
  {[Document("oeil", <<"oeil_procedure", doc.reference>>, "proposed",
             IF doc.stage = Blank THEN "unknown" ELSE doc.stage)
      EXCEPT !.notes = doc.stage = Blank]}

\* have_your_say._normalize_initiative: of the feedback windows <<end, start>> the one
\* that ends last; without one the entry is only a plan.
HaveYourSay(doc) ==
  LET last == Latest({w[1] : w \in doc.windows})
      open == Latest({w[2] : w \in {v \in doc.windows : v[1] = last}})
  IN  Only(doc.windows # {} /\ InScope(doc.title, {}),
        {[Document("have_your_say", <<"hys_initiative", doc.id>>, "proposed", "initiative")
            EXCEPT !.dates = Dated({On("comment_open", open), On("comment_close", last)})]})

\* Mutant of BillStatus: weak signals come in under a status of their own.
BillStatusOfAll ==
  [introduced |-> "introduced", enrolled |-> "passed", passed |-> "passed", vetoed |-> "vetoed"]

\* legiscan._normalize_bill: introduced and engrossed bills are weak signals. (An
\* enrolled bill reads like a passed one everywhere.)
BillStatus == [enrolled |-> "passed", passed |-> "passed", vetoed |-> "vetoed"]
Legiscan(doc) ==
  Only(doc.status \in DOMAIN BillStatus,
    {[Document("legiscan", <<"legiscan_bill", doc.bill>>, "final", BillStatus[doc.status])
        EXCEPT !.keys = {<<"bill_id", doc.number>>},
               !.dates = IF doc.status = "vetoed" THEN <<>>
                         ELSE Dated({On("adopted", doc.statusDate)})]})
\* fetch_raw: details are fetched for the first hits of the search, as far as the
\* budget of a run reaches. (No caller passes the known_hashes it could skip by.)
MaxBillFetches == 25
LegiscanLists(doc, since, today) == doc.rank <= MaxBillFetches
===============================================================================

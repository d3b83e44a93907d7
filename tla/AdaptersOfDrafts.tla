---------------------------- MODULE AdaptersOfDrafts ----------------------------
(***************************************************************************)
(* The adapters that follow drafts under consultation: EDPB, ESMA, EBA,    *)
(* CPPA, PCI SSC, AICPA and the NIST CSRC drafts. Each reads a whole feed, *)
(* page or sitemap, so a run is given every record still on it; only the   *)
(* AICPA sitemap is cut to the window.                                     *)
(***************************************************************************)
EXTENDS Normalized

\* edpb.normalize: a title that announces both is a consultation.
Edpb(doc) ==
  LET item == Document("edpb", <<"edpb_item", doc.link>>, "proposed", "consultation")
  IN  IF "consultation" \in doc.words THEN
        {[item EXCEPT !.obligation = "gdpr", !.notes = doc.deadline = NoDate,
            !.dates = Dated({On("comment_open", doc.published), On("comment_close", doc.deadline)})]}
      ELSE Only("adopted" \in doc.words,
        {[item EXCEPT !.obligation = "gdpr", !.track = "final", !.status = "adopted",
            !.dates = Dated({On("adopted", doc.published)})]})

\* esma.normalize: the feed never states the deadline, and every item says so.
Esma(doc) ==
  Only("consultation" \in doc.words,
    {[Document("esma", <<"esma_item", doc.link>>, "proposed", "consultation")
        EXCEPT !.obligation = IF "dora" \in doc.words THEN "dora" ELSE Blank,
               !.dates = Dated({On("comment_open", doc.published)}), !.notes = TRUE]})

\* The row a page yields instead of its documents when nothing on it is recognised.
Sentinel(source, key) ==
  [Document(source, key, "default", "unknown") EXCEPT !.notes = TRUE]

\* Mutant of EbaKeys: a row that has a reference is known by nothing else.
EbaKeysOfReference(doc) ==
  IF doc.reference = Blank THEN {<<"eba_page", doc.page>>} ELSE {<<"eba_cp", doc.reference>>}

\* A row is known by its consultation paper once it names one, and by its page always.
EbaKeys(doc) ==
  {<<"eba_page", doc.page>>}
    \cup (IF doc.reference = Blank THEN {} ELSE {<<"eba_cp", doc.reference>>})

\* eba.normalize: the rows of the rendered listing with their windows.
Eba(doc) ==
  LET external == IF doc.reference = Blank THEN <<"eba_page", doc.page>>
                  ELSE <<"eba_cp", doc.reference>>
  IN  IF ~ doc.listed THEN {Sentinel("eba", <<"eba_page", "listing">>)}
      ELSE {[Document("eba", external, "proposed", "consultation")
               EXCEPT !.keys = EbaKeys(doc) \ {external},
                      !.obligation = IF "dora" \in doc.words THEN "dora" ELSE Blank,
                      !.dates = Dated({On("comment_open", doc.opens), On("comment_close", doc.closes)}),
                      !.notes = NoDate \in {doc.opens, doc.closes}]}

\* cppa.normalize: the section of the page a package is linked from is its status.
\* (A month is dated on its first day.)
SectionStatus == [Proposed |-> "proposed", Completed |-> "completed"]
SectionTrack  == [Proposed |-> "proposed", Completed |-> "final"]
Cppa(doc) ==
  IF ~ doc.recognised THEN
    {[Sentinel("cppa", <<"cppa_page", "regulations">>) EXCEPT !.obligation = "ccpa"]}
  ELSE Only(doc.section \in DOMAIN SectionStatus,
    {[Document("cppa", <<"cppa_page", doc.page>>, SectionTrack[doc.section],
               SectionStatus[doc.section])
        EXCEPT !.obligation = "ccpa",
               !.dates = IF doc.section = "Completed" THEN Dated({On("adopted", doc.month)})
                         ELSE <<>>]})

\* pci_ssc: a request for comments runs for the stated window, else for RFC_MIN_DAYS
\* from the post; a publication needs a standard and a version, and none of the words
\* of a supporting document.
RfcWindow(doc, minimum) ==
  IF doc.closes # NoDate /\ doc.published # NoDate
  THEN {On("comment_open", doc.opens), On("comment_close", doc.closes)}
  ELSE IF doc.published = NoDate THEN {}
  ELSE {On("comment_open", doc.published), On("comment_close", doc.published + minimum)}

RfcMinDays == 1
PciSsc(doc) ==
  IF "request for comments" \in doc.words THEN
    {[Document("pci_ssc", <<"pci_doc", doc.subject>>, "proposed", "rfc")
        EXCEPT !.obligation = doc.standard, !.version = doc.names,
               !.dates = Dated(RfcWindow(doc, RfcMinDays)), !.notes = doc.published = NoDate]}
  ELSE Only("published" \in doc.words /\ "supporting" \notin doc.words
              /\ doc.names # 0 /\ doc.standard # Blank,
    {[Document("pci_ssc", <<"pci_pub", doc.subject>>, "final", "publication")
        EXCEPT !.obligation = doc.standard, !.version = doc.names,
               !.dates = Dated({On("effective", doc.published)})]})

\* aicpa.normalize: exposure drafts on assurance, not ethics and not news about drafts.
Aicpa(doc) ==
  Only({"exposure draft", "assurance"} \subseteq doc.words
         /\ doc.words \cap {"news", "ethics"} = {},
    {[Document("aicpa", <<"aicpa_page", doc.page>>, "proposed", "exposure_draft")
        EXCEPT !.obligation = IF "soc" \in doc.words THEN "soc2" ELSE Blank,
               !.dates = Dated({On("proposal_date", doc.lastmod)})]})
AicpaLists(doc, since, today) == Touched(doc.lastmod, since)

KnownStages == {"iwd", "iprd", "prd", "2prd", "ipd", "2pd", "3pd", "fpd", "final"}

\* _split_stage: the stages of one publication share its address without the stage; an
\* address whose stage is unknown is taken whole.
NistKey(doc) ==
  <<"nist_pub_url", IF doc.stage \in KnownStages THEN doc.base ELSE doc.address>>

\* Mutant of NistRetracts: an open-ended period is not told apart from a missing date.
NistRetractsNothing(doc) == {}

\* "No Due Date" is a statement; saying nothing is none.
NistRetracts(doc) == IF doc.due = NoDate /\ doc.openEnded THEN {"comment_close"} ELSE {}

\* nist_csrc._normalize_entry.
NistCsrc(doc) ==
  {[Document("nist_csrc", NistKey(doc), "proposed",
             IF doc.stage = "final" THEN "final" ELSE "draft")
      EXCEPT !.obligation = doc.owner,
             !.dates = Dated({On("comment_close", doc.due), On("proposal_date", doc.published)}),
             !.retract = NistRetracts(doc),
             !.notes = doc.stage \notin KnownStages \/ (doc.due = NoDate /\ ~ doc.openEnded)]}
===============================================================================

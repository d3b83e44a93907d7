---------------------------- MODULE AdaptersOfRecord ----------------------------
(***************************************************************************)
(* The adapters that follow texts of record, where the document is already *)
(* in force and the news is that it changed: the NIST and ISO catalogues,  *)
(* the CFR, UK statutes, the watched standard pages, the PCI document      *)
(* feed, CIS, HITRUST, FedRAMP and AIUC-1.                                 *)
(***************************************************************************)
EXTENDS Normalized

\* nist_pubs.normalize: a row of a series index, if its number is watched. The page of
\* a publication is its identity, and only a revision that was read is a version claim.
NistPubs(doc) ==
  Only(doc.owner # Blank,
    {[Document("nist_pubs", <<"nist_pub", doc.page>>, "final", doc.status)
        EXCEPT !.obligation = doc.owner, !.version = doc.revision,
               !.dates = Dated({On("effective", doc.released)})]})

\* iso_catalog.normalize: references that are the standard itself or a supplement to
\* it. The base standard keeps its address as identity whatever its edition.
IsoCatalog(doc) ==
  Only(doc.kind \in {"standard", "supplement"},
    {[Document("iso_catalog",
               IF doc.kind = "supplement" THEN <<"iec_pub", doc.id>>
               ELSE <<"iso_project", doc.address>>,
               "final", IF doc.status = Blank THEN "published" ELSE doc.status)
        EXCEPT !.obligation = doc.owner]})
\* The search is asked for publications in force only.
IsoCatalogLists(doc, since, today) == doc.status # "withdrawn"

\* ecfr.normalize: one row per watched rule, dated by the last amendment of a wanted
\* section; removals count. A rule that names no sections wants its whole part.
Ecfr(doc) ==
  LET wanted == {a \in doc.amendments : doc.sections = {} \/ a.section \in doc.sections}
      last   == Latest({a.day : a \in wanted})
  IN  Only(last # NoDate,
        {[Document("ecfr", <<"cfr_target", doc.rule>>, "final", "in_force")
            EXCEPT !.obligation = doc.owner, !.dates = Dated({On("effective", last)})]})

\* _in_force and _item: an instrument is in force once its first effect commences. Each
\* effect is the set of days it states; one that is not commenced states none.
CommencesFirst(effects) == First(UNION effects)

\* uk_legislation.normalize: one row per watched act and amending instrument, whose
\* status is decided on the day it is read.
UkLegislation(doc, today) ==
  LET first == CommencesFirst(doc.effects)
  IN  Only(doc.effects # {},
        {[Document("uk_legislation", <<"uk_effect", doc.instrument>>, "final",
                   IF first # NoDate /\ first <= today THEN "in_force" ELSE "pending")
            EXCEPT !.obligation = doc.owner, !.dates = Dated({On("effective", first)})]})

\* _best_match: the version a page mentions most often, ties to the highest. `mentions`
\* is a function from versions to how often the page has them.
BestMatch(mentions) ==
  LET most == {v \in DOMAIN mentions : \A w \in DOMAIN mentions : mentions[v] >= mentions[w]}
  IN  Max(most)

\* standard_pages.normalize: a page that calls itself superseded says nothing; where
\* the address is what states the text, the file's date says nothing of its effect.
StandardPages(doc) ==
  Only(DOMAIN doc.mentions # {} /\ (doc.byAddress \/ ~ doc.superseded),
    {[Document("standard_pages", <<"watched_page", doc.page>>, "final", "current")
        EXCEPT !.obligation = doc.owner, !.version = BestMatch(doc.mentions),
               !.dates = IF doc.byAddress THEN <<>> ELSE Dated({On("effective", doc.released)})]})

\* pci_docs.normalize: the standards of DOCUMENT_OBLIGATIONS without their satellites.
PciDocs(doc) ==
  Only(doc.type = "Standard" /\ ~ doc.satellite /\ doc.owner # Blank,
    {[Document("pci_docs", <<"pci_document", doc.document>>, "final", "standard")
        EXCEPT !.obligation = doc.owner, !.dates = Dated({On("effective", doc.released)})]})

\* cis.normalize: posts that announce a release of the Controls.
Cis(doc) ==
  Only(doc.names # 0,
    {[Document("cis", <<"cis_release", doc.names>>, "final", "release")
        EXCEPT !.obligation = "cis-controls", !.dates = Dated({On("effective", doc.published)})]})

\* hitrust: an address or the title of a bare advisory page names a version of the CSF;
\* an announcement of its release is known by the version, another advisory by its id.
HitrustMinMajor == 9
Hitrust(doc) ==
  LET releases == doc.section \in {"press-releases", "blog"} \/ "release" \in doc.words
      item(key, status) == [Document("hitrust", key, "final", status) EXCEPT !.obligation = "hitrust-csf"]
  IN  Only(doc.names >= HitrustMinMajor,
        IF releases
        THEN {[item(<<"hitrust_release", doc.names>>, "release") EXCEPT !.version = doc.names]}
        ELSE Only(doc.section = "advisories", {item(<<"hitrust_advisory", doc.id>>, "advisory")}))
\* fetch_raw: the sitemap is read whole, and the newest pages it names only by their id.
BareFetchLimit == 12
HitrustLists(doc, since, today) == doc.bare => doc.rank <= BareFetchLimit

\* fedramp.normalize: dated announcements that change an obligation and are not news.
Fedramp(doc) ==
  Only("signal" \in doc.words /\ "news" \notin doc.words,
    {[Document("fedramp", <<"fedramp_announcement", doc.slug>>, "final", "announcement")
        EXCEPT !.obligation = "fedramp", !.dates = Dated({On("adopted", doc.announced)})]})
FedrampLists(doc, since, today) == Touched(doc.lastmod, since)

AiucKey(day, status) == <<"aiuc_release", day>>

\* aiuc.normalize: every release on the changelog, and the next one while it is not yet
\* among them. A scheduled release carries the key its released form will have.
Aiuc(doc) ==
  LET released == doc.history \cup ({doc.current} \ {NoDate})
      item(day, track, status, type) ==
        [Document("aiuc", AiucKey(day, status), track, status)
           EXCEPT !.obligation = "aiuc-1", !.dates = Dated({On(type, day)})]
  IN  {[item(d, "final", "release", "effective") EXCEPT !.version = d] : d \in released}
        \cup {item(d, "proposed", "scheduled", "projected_final") :
                d \in {doc.next} \ (released \cup {NoDate})}

\* milestones.seed_milestones: a curated timeline, read again at every boot. Its days
\* are triples <<type, label, day>>.
Timeline(doc) ==
  {[Document("curated", <<"curated_timeline", doc.name>>, "final", "timeline")
      EXCEPT !.obligation = doc.owner, !.dates = Dated(doc.days)]}
===============================================================================

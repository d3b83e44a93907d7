----------------------------- MODULE MCTickReplay -----------------------------
(* What each source may publish over three days, for TLC. Only facts the       *)
(* adapters tell apart vary; a document is what stands at one address.         *)
EXTENDS TickReplay

Day   == 1..3
Maybe == 0..3
Strong == {"strong"}

MCEditions ==
  [ federal_register |->
      [type : {"ProposedRule"}, words : {{}, {"extension"}, {"correction"}, {"withdraw"}},
       title : {Strong}, body : {{}}, number : {"doc"}, rin : {"rin"}, docket : {Blank},
       published : {1}, closes : Maybe, takes : {NoDate}]
      \cup
      [type : {"Rule"}, words : {{}, {"delay"}}, title : {{}}, body : {Strong}, number : {"doc"},
       rin : {Blank}, docket : {"docket"}, published : {1}, closes : {NoDate}, takes : Maybe],
    regulations_gov |->
      [type : {"ProposedRule", "Rule"}, docketType : {"Rulemaking"}, id : {"doc"}, fr : {Blank, "doc"},
       docket : {"docket"}, rin : {"pending"}, closes : Maybe, modified : Day],
    cellar |->
      [celex : {"celex"}, date : {1}, owner : {"gdpr"}, title : {{}}, corrigendum : {FALSE},
       proposal : {TRUE}, forces : {{}}, deadlines : {{}}]
      \cup
      [celex : {"celex"}, date : {1}, owner : {Blank}, title : {Strong}, corrigendum : {FALSE},
       proposal : {FALSE}, forces : SUBSET Day, deadlines : {{}, {3}}],
    oeil |-> [reference : {"procedure"}, stage : DOMAIN FixedState.oeil \cup {Blank}],
    have_your_say |->
      [id : {"initiative"}, title : {Strong}, windows : {{}} \cup {{<<e, 1>>} : e \in Day}
         \cup {{<<1, 1>>, <<e, 2>>} : e \in 2..3}],
    legiscan |->
      [bill : {"bill"}, number : {"HB 1"}, rank : {1, 26}, statusDate : Day,
       status : {"introduced"} \cup DOMAIN BillStatus],
    edpb |->
      [link : {"link"}, words : {{"consultation"}, {"adopted"}, {"consultation", "adopted"}, {}},
       published : {1}, deadline : Maybe],
    esma |-> [link : {"link"}, words : {{"consultation"}, {"consultation", "dora"}, {}}, published : Maybe],
    eba |->
      [listed : BOOLEAN, page : {"page"}, reference : {Blank, "paper"}, words : {{"dora"}},
       opens : {1}, closes : Maybe],
    cppa |-> [recognised : BOOLEAN, page : {"package"}, section : {"Proposed", "Completed", "Other"},
              month : {NoDate, 1}],
    pci_ssc |->
      [words : {{"request for comments"}, {"published"}, {"published", "supporting"}},
       subject : {"subject"}, standard : {"pci-dss"}, names : {0, 4}, published : {NoDate, 1},
       opens : {1}, closes : Maybe],
    aicpa |-> [page : {"page"}, words : {{"exposure draft", "assurance"}, {"exposure draft", "ethics"}},
               lastmod : Maybe],
    nist_csrc |->
      [base : {"sp"}, address : {"sp/ipd"}, stage : {"ipd", "2pd", "final"}, due : Maybe, openEnded : BOOLEAN,
       published : {1}, owner : {"nist"}],
    nist_pubs |-> [page : {"page"}, status : DOMAIN FixedState.nist_pubs, owner : {"nist"},
                   released : {NoDate, 1}, revision : {5}],
    iso_catalog |->
      [kind : {"standard", "supplement", "handbook"}, id : {"id"}, address : {"address"},
       owner : {"iso"}, status : {Blank, "published", "withdrawn"}],
    ecfr |-> [rule : {"rule"}, owner : {"sox"}, sections : {{}, {"s"}},
              amendments : SUBSET [section : {"s", "t"}, day : 1..2]],
    uk_legislation |-> [instrument : {"act"}, owner : {"uk-gdpr"}, effects : SUBSET ({{}} \cup {{d} : d \in Day})],
    standard_pages |->
      [page : {"page"}, owner : {"cis"}, byAddress : BOOLEAN, superseded : BOOLEAN, released : {NoDate, 1},
       mentions : [{1, 2} -> 1..2] \cup {<<>>}],
    pci_docs |-> [type : {"Standard"}, satellite : BOOLEAN, owner : {Blank, "pci-dss"},
                  document : {"pci_dss"}, released : Maybe],
    cis |-> [names : {0, 8}, published : Maybe],
    hitrust |-> [section : {"blog", "advisories"}, words : {{}, {"release"}}, names : {0, 8, 11},
                 id : {"haa"}, bare : BOOLEAN, rank : {1, 13}],
    fedramp |-> [slug : {"slug"}, words : {{"signal"}, {"signal", "news"}}, announced : {NoDate, 1}, lastmod : Maybe],
    aiuc |-> [history : SUBSET {1, 2}, current : Maybe, next : Maybe],
    curated |-> [name : {"timeline"}, owner : {"act"},
                 days : {{<<"entry_into_force", NoLabel, d>>, <<"application", "phase", e>>} : d, e \in Day}
                          \cup {{<<"application", "phase", e>>} : e \in Day}] ]

\* The day an edition carries is the day it appears.
MCAppears(s, e, day) ==
  CASE s = "regulations_gov" -> e.modified = day
    [] s = "legiscan"        -> e.statusDate = day
    [] s = "aicpa"           -> e.lastmod \in {NoDate, day}
    [] s = "fedramp"         -> e.lastmod \in {NoDate, day}
    [] s = "aiuc"            -> /\ e.current <= day /\ \A d \in e.history : d < e.current
                                /\ e.next = NoDate \/ e.next > e.current
    [] OTHER                 -> TRUE

Dated0(d, e) == d # NoDate => e # NoDate   \* a stated day is not silently dropped

Reaches(order, d, e) == d = e \/ \E i, j \in DOMAIN order : i < j /\ d \in order[i] /\ e \in order[j]

\* The facts named may change; the others are the document's for good.
Same(d, e, but) == \A f \in DOMAIN d \ but : d[f] = e[f]

MCFollows(s, d, e) ==
  CASE s = "regulations_gov" -> Same(d, e, {"closes", "modified", "fr"}) /\ Dated0(d.closes, e.closes)
                                  /\ (d.fr # Blank => e.fr = d.fr)
    [] s = "cellar"          -> Same(d, e, {"forces", "deadlines"}) /\ (d.forces # {} => e.forces # {})
    [] s = "oeil"            -> Reaches(<<{"awaiting"}, {Blank}, {"awaiting_signature"}, {"procedure_completed",
                                        "rejected", "lapsed_or_withdrawn"}>>, d.stage, e.stage)
    [] s = "have_your_say"   -> e.windows # {}
    [] s = "legiscan"        -> d.rank = e.rank /\ Reaches(<<{"introduced"}, {"enrolled"}, {"passed", "vetoed"}>>,
                                                       d.status, e.status)
    [] s = "edpb"            -> Same(d, e, {"deadline"}) /\ Dated0(d.deadline, e.deadline)
    [] s = "eba"             -> Dated0(d.closes, e.closes) /\ (d.reference # Blank => e.reference = d.reference)
    [] s = "cppa"            -> Reaches(<<{"Other"}, {"Proposed"}, {"Completed"}>>, d.section, e.section)
    [] s = "pci_ssc"         -> Same(d, e, {"closes"}) /\ Dated0(d.closes, e.closes)
    [] s = "aicpa"           -> Same(d, e, {"lastmod"}) /\ Dated0(d.lastmod, e.lastmod)
    [] s = "nist_csrc"       -> /\ Reaches(<<{"ipd"}, {"2pd"}, {"final"}>>, d.stage, e.stage)
                                /\ e.due = NoDate /\ ~ e.openEnded => d.due = NoDate /\ ~ d.openEnded
    [] s = "nist_pubs"       -> Reaches(<<{"draft"}, {"final"}, {"withdrawn"}>>, d.status, e.status)
    [] s = "iso_catalog"     -> Same(d, e, {"status"}) /\ d.status # "withdrawn"
    [] s = "ecfr"            -> Same(d, e, {"amendments"}) /\ d.amendments \subseteq e.amendments
    [] s = "uk_legislation"  -> d.effects \ {{}} \subseteq e.effects /\ (d.effects # {} => e.effects # {})
    [] s = "standard_pages"  -> Same(d, e, {"mentions", "released", "superseded"})
    [] s = "pci_docs"        -> Same(d, e, {"released"}) /\ d.released < e.released
    [] s = "fedramp"         -> Same(d, e, {"lastmod"}) /\ d.lastmod < e.lastmod
    [] s = "aiuc"            -> \/ Same(d, e, {"next"}) /\ d.next = NoDate
                                \/ /\ e.current = d.next /\ d.next # NoDate
                                   /\ e.history = d.history \cup ({d.current} \ {NoDate})
    [] s = "curated"         -> \A t \in d.days : \E u \in e.days : <<t[1], t[2]>> = <<u[1], u[2]>>
    [] OTHER                 -> FALSE

\* The phase of the document that is listed under a key in an edition, on a day.
MCPhase(s, d, day, k) ==
  CASE s = "federal_register" -> IF "withdraw" \in d.words THEN 4 ELSE IF d.type = "Rule" THEN 2 ELSE 1
    [] s = "regulations_gov"  -> IF d.type = "Rule" THEN 2 ELSE 1
    [] s = "cellar"           -> IF d.proposal THEN 0 ELSE 2
    [] s = "oeil"             -> IF d.stage \in {"awaiting", Blank} THEN 0
                                 ELSE IF d.stage = "awaiting_signature" THEN 2
                                 ELSE IF d.stage = "procedure_completed" THEN 3 ELSE 4
    [] s = "legiscan"         -> IF d.status = "vetoed" THEN 4 ELSE 2
    [] s = "edpb"             -> IF "consultation" \in d.words THEN 1 ELSE 3
    [] s = "cppa"             -> IF d.section = "Completed" THEN 3 ELSE 1
    [] s = "pci_ssc"          -> IF "request for comments" \in d.words THEN 1 ELSE 3
    [] s = "nist_csrc"        -> IF d.stage = "final" THEN 3 ELSE 1
    [] s = "nist_pubs"        -> IF d.status = "draft" THEN 0 ELSE IF d.status = "final" THEN 3 ELSE 4
    [] s = "iso_catalog"      -> IF d.status = "withdrawn" THEN 4 ELSE 3
    [] s = "uk_legislation"   -> IF CommencesFirst(d.effects) \in 1..day THEN 3 ELSE 2
    [] s = "aiuc"             -> IF k[2] \in d.history \cup {d.current} THEN 3 ELSE 0
    [] s = "curated"          -> 2
    [] s \in {"have_your_say", "esma", "eba", "aicpa"} -> 1
    [] OTHER                  -> 3
MCStage ==
  [s \in DOMAIN MCEditions |->
     LET keys == KeysOf(s)
     IN  [d \in MCEditions[s] |-> [day \in Day |-> [k \in keys |-> MCPhase(s, d, day, k)]]]]
ASSUME EditionsAreRealistic ==
  EditionsAdvance(MCStage) /\ EndsAreFinal(MCStage) /\ KnownWords /\ NamesAreKept /\ DaysAreKept

Windowed == {"federal_register", "regulations_gov", "have_your_say", "edpb", "esma", "eba", "cppa",
             "pci_ssc", "aicpa", "nist_csrc"}

\* What people move: the days the statemap of the source looks at.
MCStated ==
  [s \in DOMAIN MCEditions |->
     (IF s \in Windowed THEN {<<"comment_close", NoLabel>>} ELSE {})
     \cup (IF s \in {"federal_register", "regulations_gov", "legiscan", "curated"}
           THEN {<<"effective", NoLabel>>} ELSE {})
     \cup (IF s \in {"cellar", "curated"} THEN {<<"entry_into_force", NoLabel>>} ELSE {})
     \cup (IF s = "have_your_say" THEN {<<"adopted", "act">>} ELSE {})]
===============================================================================

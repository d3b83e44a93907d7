------------------------------ MODULE ReplayProofs ------------------------------
(***************************************************************************)
(* Proofs about the days of an item, for any editions a source may publish *)
(* in any order that does not take a document back: the tick contradicts   *)
(* no row, and no adapter hands on a status its statemap does not know.    *)
(***************************************************************************)
EXTENDS TickReplay, TLAPS

\* The fields of a document and of a row.
DocumentFields == {"source", "key", "track", "status", "keys", "action", "dates", "retract",
                   "supplementary", "obligation", "version", "notes"}
RowFields == {"held", "keys", "track", "status", "action", "dates", "state"}

\* A status that the statemap of its source names.
Mapped(s, status) ==
  \/ IsConsultation(s, status) \/ IsProposal(s, status) \/ IsFinalAct(s, status)
  \/ <<s, status>> \in {<<"legiscan", "passed">>, <<"curated", "timeline">>}
  \/ s \in DOMAIN FixedState /\ status \in DOMAIN FixedState[s]

\* Sources whose proposals count as open only once their window is known, and sources whose
\* days are never taken back.
ProposalSources == {"federal_register", "regulations_gov", "aicpa", "have_your_say"}
Keepers == ProposalSources \cup {"legiscan", "curated"}

NoAdoption(dates) == \A slot \in DOMAIN dates : slot[1] # "adopted"

\* What a document of a source looks like.
Readable(s, ni) ==
  /\ DOMAIN ni = DocumentFields
  /\ s \in Keepers => ni.retract = {} /\ \A slot \in DOMAIN ni.dates : ni.dates[slot] # NoDate
  /\ s = "federal_register" => ni.action # "unstated"
  /\ s = "have_your_say" => NoAdoption(ni.dates)

\* A date map made of triples knows no missing day and no slot of its own.
LEMMA DatedIsStated ==
  ASSUME NEW triples
  PROVE  \A slot \in DOMAIN Dated(triples) :
           Dated(triples)[slot] # NoDate /\ \E t \in triples : slot = <<t[1], t[2]>>
<1> DEFINE stated == {t \in triples : t[3] # NoDate}
<1> SUFFICES ASSUME NEW slot \in {<<t[1], t[2]>> : t \in stated}
             PROVE  /\ (CHOOSE t \in stated : <<t[1], t[2]>> = slot)[3] # NoDate
                    /\ \E t \in triples : slot = <<t[1], t[2]>>
  BY DEF Dated
<1>1. \E t \in stated : <<t[1], t[2]>> = slot
  OBVIOUS
<1>2. (CHOOSE t \in stated : <<t[1], t[2]>> = slot) \in stated
  BY <1>1
<1> QED
  BY <1>2

\* The documents of some sources state days only, and take none back.
LEMMA KeeperReadings ==
  ASSUME NEW s \in Keepers, NEW d, NEW day, NEW ni \in Normalize(s, d, day)
  PROVE  Readable(s, ni)
<1>1. CASE s = "federal_register"
  <2> DEFINE native == NativeType[d.type]
             root   == d.words \cap SupplementWords = {}
             stated == {On("comment_close", d.closes), On("effective", d.takes)}
             days   == (IF root THEN {On(PublishedAs[native], d.published)} ELSE {})
                         \cup (IF "correction" \in d.words THEN {} ELSE stated)
  <2>1. ni \in FederalRegister(d)
    BY <1>1 DEF Normalize
  <2>2. ni.dates = Dated(days)
    BY <2>1 DEF FederalRegister, Only, Document
  <2>3. DOMAIN ni = DocumentFields /\ ni.retract = {}
    BY <2>1 DEF FederalRegister, Only, Document, DocumentFields
  <2>4. ni.action = IF "withdraw" \in d.words THEN "withdraw" ELSE "rule"
    BY <2>1 DEF FederalRegister, Only, Document
  <2> QED
    BY <1>1, <2>2, <2>3, <2>4, DatedIsStated DEF Readable
<1>2. CASE s = "regulations_gov"
  <2>1. ni \in RegulationsGov(d)
    BY <1>2 DEF Normalize
  <2>2. ni.dates = Dated({On("comment_close", d.closes)})
    BY <2>1 DEF RegulationsGov, Only, Document
  <2>3. DOMAIN ni = DocumentFields /\ ni.retract = {}
    BY <2>1 DEF RegulationsGov, Only, Document, DocumentFields
  <2> QED
    BY <1>2, <2>2, <2>3, DatedIsStated DEF Readable
<1>3. CASE s = "aicpa"
  <2>1. ni \in Aicpa(d)
    BY <1>3 DEF Normalize
  <2>2. ni.dates = Dated({On("proposal_date", d.lastmod)})
    BY <2>1 DEF Aicpa, Only, Document
  <2>3. DOMAIN ni = DocumentFields /\ ni.retract = {}
    BY <2>1 DEF Aicpa, Only, Document, DocumentFields
  <2> QED
    BY <1>3, <2>2, <2>3, DatedIsStated DEF Readable
<1>4. CASE s = "have_your_say"
  <2>1. ni \in HaveYourSay(d)
    BY <1>4 DEF Normalize
  <2> DEFINE last == Latest({w[1] : w \in d.windows})
             open == Latest({w[2] : w \in {v \in d.windows : v[1] = last}})
  <2>2. ni.dates = Dated({On("comment_open", open), On("comment_close", last)})
    BY <2>1 DEF HaveYourSay, Only, Document
  <2> HIDE DEF open, last
  <2>3. DOMAIN ni = DocumentFields /\ ni.retract = {}
    BY <2>1 DEF HaveYourSay, Only, Document, DocumentFields
  <2>4. \A slot \in DOMAIN ni.dates : ni.dates[slot] # NoDate /\ slot[1] # "adopted"
    BY <2>2, DatedIsStated DEF On
  <2> QED
    BY <1>4, <2>3, <2>4 DEF Readable, NoAdoption
<1>5. CASE s = "legiscan"
  <2>1. ni \in Legiscan(d)
    BY <1>5 DEF Normalize
  <2>2. ni.dates = <<>> \/ ni.dates = Dated({On("adopted", d.statusDate)})
    BY <2>1 DEF Legiscan, Only, Document
  <2>3. DOMAIN ni = DocumentFields /\ ni.retract = {}
    BY <2>1 DEF Legiscan, Only, Document, DocumentFields
  <2> QED
    BY <1>5, <2>2, <2>3, DatedIsStated DEF Readable
<1>6. CASE s = "curated"
  <2>1. ni \in Timeline(d)
    BY <1>6 DEF Normalize
  <2>2. ni.dates = Dated(d.days)
    BY <2>1 DEF Timeline, Document
  <2>3. DOMAIN ni = DocumentFields /\ ni.retract = {}
    BY <2>1 DEF Timeline, Document, DocumentFields
  <2> QED
    BY <1>6, <2>2, <2>3, DatedIsStated DEF Readable
<1> QED
  BY <1>1, <1>2, <1>3, <1>4, <1>5, <1>6 DEF Keepers, ProposalSources

\* Every adapter fills the fields of a document.
LEMMA ReadingIsReadable ==
  ASSUME NEW s \in Registered, NEW d, NEW day, NEW ni \in Normalize(s, d, day)
  PROVE  Readable(s, ni)
<1>1. CASE s \in Keepers
  BY <1>1, KeeperReadings
<1> SUFFICES ASSUME s \notin Keepers PROVE DOMAIN ni = DocumentFields
  BY <1>1 DEF Readable, Keepers, ProposalSources
<1> USE DEF Only, Document, DocumentFields, Normalize
<1>2. CASE s = "cellar"         BY <1>2 DEF Cellar
<1>3. CASE s = "oeil"           BY <1>3 DEF Oeil
<1>5. CASE s = "edpb"           BY <1>5 DEF Edpb
<1>6. CASE s = "esma"           BY <1>6 DEF Esma
<1>7. CASE s = "eba"            BY <1>7 DEF Eba, Sentinel
<1>8. CASE s = "cppa"           BY <1>8 DEF Cppa, Sentinel
<1>9. CASE s = "pci_ssc"        BY <1>9 DEF PciSsc
<1>10. CASE s = "nist_csrc"     BY <1>10 DEF NistCsrc
<1>11. CASE s = "nist_pubs"     BY <1>11 DEF NistPubs
<1>12. CASE s = "iso_catalog"   BY <1>12 DEF IsoCatalog
<1>13. CASE s = "ecfr"          BY <1>13 DEF Ecfr
<1>14. CASE s = "uk_legislation" BY <1>14 DEF UkLegislation
<1>15. CASE s = "standard_pages" BY <1>15 DEF StandardPages
<1>16. CASE s = "pci_docs"      BY <1>16 DEF PciDocs
<1>17. CASE s = "cis"           BY <1>17 DEF Cis
<1>18. CASE s = "hitrust"       BY <1>18 DEF Hitrust
<1>19. CASE s = "fedramp"       BY <1>19 DEF Fedramp
<1>20. CASE s = "aiuc"          BY <1>20 DEF Aiuc
<1> QED
  BY <1>2, <1>3, <1>5, <1>6, <1>7, <1>8, <1>9, <1>10, <1>11, <1>12, <1>13, <1>14,
     <1>15, <1>16, <1>17, <1>18, <1>19, <1>20 DEF Registered, Keepers, ProposalSources
-------------------------------------------------------------------------------
\* A state is reached by the time a document is in a phase.
Within(state, phase) == state \in DOMAIN Phase => Phase[state] <= phase

\* A state derived for a document in a phase: that of the phase, none, or a last one. Only
\* proposals without a known window are still proposed when they are under consultation.
Target(s, dates, phase, to) ==
  /\ \/ to \in {Unknown, "effective", "withdrawn"}
     \/ to \in DOMAIN Phase /\ Phase[to] = phase
     \/ /\ to = "proposed" /\ phase = 1
        /\ s \in ProposalSources /\ Get(dates, "comment_close") = NoDate
  /\ to \in {"comment_open", "comment_closed"} /\ s \in ProposalSources =>
       Get(dates, "comment_close") # NoDate

\* The dates of a final act or a timeline put it in force.
InForce(s, dates, day) ==
  \/ s \in DOMAIN InForceDate /\ ~ (Get(dates, InForceDate[s]) > day)
  \/ s = "legiscan" /\ \E d \in {Get(dates, "effective")} \ {NoDate} : d <= day
  \/ s = "curated" /\ \E d \in OfTypes(dates, InForceTypes) : d <= day

\* A derived state that ends a life, or comes before the end of one, and where it comes from.
EndTarget(s, dates, phase, day, to) ==
  /\ to = "withdrawn" => phase = WithdrawnPhase
  /\ to = "effective" => phase = InForcePhase \/ (phase = 2 /\ InForce(s, dates, day))
  /\ to = "final_pending_effective" => ~ InForce(s, dates, day)

IsDatedAct(s, status) ==
  IsFinalAct(s, status) \/ <<s, status>> \in {<<"legiscan", "passed">>, <<"curated", "timeline">>}

\* compute_state, case by case.
LEMMA DerivedCases ==
  ASSUME NEW s, NEW status, NEW action, NEW dates, NEW day
  PROVE  LET to == ComputeState(s, status, action, dates, day)
             withdraws == s = "federal_register" /\ action = "withdraw"
         IN  \/ withdraws /\ to = "withdrawn"
             \/ s = "have_your_say" /\ Adopted(dates, day) /\ to = "effective"
             \/ /\ ~ withdraws /\ IsConsultation(s, status) /\ s \notin ProposalSources
                /\ to \in {"comment_open", "comment_closed"}
             \/ /\ ~ withdraws /\ IsProposal(s, status) /\ s \in ProposalSources
                /\ to = WindowState(dates, "proposed", day)
             \/ /\ ~ withdraws /\ IsDatedAct(s, status)
                /\ to = IF InForce(s, dates, day) THEN "effective" ELSE "final_pending_effective"
             \/ /\ ~ withdraws /\ s \in DOMAIN FixedState /\ status \in DOMAIN FixedState[s]
                /\ s \notin ProposalSources /\ to = FixedState[s][status]
             \/ to = Unknown
<1> DEFINE to == ComputeState(s, status, action, dates, day)
           withdraws == s = "federal_register" /\ action = "withdraw"
           adopts == s = "have_your_say" /\ Adopted(dates, day)
           fixed == s \in DOMAIN FixedState /\ status \in DOMAIN FixedState[s]
<1>1. CASE withdraws
  BY <1>1 DEF ComputeState
<1>2. CASE ~ withdraws /\ adopts
  BY <1>2 DEF ComputeState
<1>3. CASE ~ withdraws /\ ~ adopts /\ IsConsultation(s, status)
  <2>1. to = WindowState(dates, "comment_open", day)
    BY <1>3 DEF ComputeState
  <2>2. s \notin ProposalSources
    BY <1>3 DEF IsConsultation, ProposalSources
  <2>3. WindowState(dates, "comment_open", day) \in {"comment_open", "comment_closed"}
    BY DEF WindowState
  <2> QED
    BY <1>3, <2>1, <2>2, <2>3
<1>4. CASE ~ withdraws /\ ~ adopts /\ ~ IsConsultation(s, status) /\ IsProposal(s, status)
  <2>1. to = WindowState(dates, "proposed", day)
    BY <1>4 DEF ComputeState
  <2>2. s \in ProposalSources
    BY <1>4 DEF IsProposal, ProposalSources
  <2> QED
    BY <1>4, <2>1, <2>2
<1> DEFINE rest == ~ withdraws /\ ~ adopts /\ ~ IsConsultation(s, status) /\ ~ IsProposal(s, status)
<1>5. CASE rest /\ IsFinalAct(s, status)
  <2>1. to = UnlessAhead(Get(dates, InForceDate[s]), day)
    BY <1>5 DEF ComputeState
  <2>2. s \in DOMAIN InForceDate /\ s # "legiscan" /\ s # "curated"
    BY <1>5 DEF IsFinalAct, InForceDate
  <2> HIDE DEF to
  <2>3. to = IF InForce(s, dates, day) THEN "effective" ELSE "final_pending_effective"
    BY <2>1, <2>2 DEF UnlessAhead, InForce
  <2> QED
    BY <1>5, <2>3 DEF to, IsDatedAct
<1>6. CASE rest /\ ~ IsFinalAct(s, status) /\ s = "legiscan" /\ status = "passed"
  <2>1. to = OncePassed({Get(dates, "effective")} \ {NoDate}, day)
    BY <1>6 DEF ComputeState
  <2>2. s \notin DOMAIN InForceDate /\ s # "curated"
    BY <1>6 DEF InForceDate
  <2> HIDE DEF to
  <2>3. to = IF InForce(s, dates, day) THEN "effective" ELSE "final_pending_effective"
    BY <1>6, <2>1, <2>2 DEF OncePassed, InForce
  <2> QED
    BY <1>6, <2>3 DEF to, IsDatedAct
<1>7. CASE rest /\ ~ IsFinalAct(s, status) /\ s = "curated" /\ status = "timeline"
  <2>1. to = OncePassed(OfTypes(dates, {"entry_into_force", "effective", "application"}), day)
    BY <1>7 DEF ComputeState
  <2>2. s \notin DOMAIN InForceDate /\ s # "legiscan"
    BY <1>7 DEF InForceDate
  <2>3. InForceTypes = {"entry_into_force", "effective", "application"}
    BY DEF InForceTypes
  <2> HIDE DEF to
  <2>4. to = IF InForce(s, dates, day) THEN "effective" ELSE "final_pending_effective"
    BY <1>7, <2>1, <2>2, <2>3 DEF OncePassed, InForce
  <2> QED
    BY <1>7, <2>4 DEF to, IsDatedAct
<1>8. CASE /\ rest /\ ~ IsFinalAct(s, status)
           /\ ~ (s = "legiscan" /\ status = "passed") /\ ~ (s = "curated" /\ status = "timeline")
  <2>1. to = IF fixed THEN FixedState[s][status] ELSE Unknown
    BY <1>8 DEF ComputeState
  <2>2. fixed => s \notin ProposalSources
    BY DEF FixedState, CellarFixes, OeilFixes, EdpbFixes, CppaFixes, LegiscanFixes,
    PciSscFixes, IsoFixes, NistCsrcFixes, ProposalSources
  <2> QED
    BY <1>8, <2>1, <2>2
<1> QED
  BY <1>1, <1>2, <1>3, <1>4, <1>5, <1>6, <1>7, <1>8

\* What a statemap derives fits the phase the reading fits.
LEMMA DerivedFits ==
  ASSUME NEW s, NEW r, NEW dates, NEW day, NEW phase \in 0..WithdrawnPhase, Fits(s, r, phase)
  PROVE  Target(s, dates, phase, ComputeState(s, r.status, r.action, dates, day))
<1> DEFINE to == ComputeState(s, r.status, r.action, dates, day)
<1>0. SUFFICES Target(s, dates, phase, to)
  OBVIOUS
<1>1. CASE to \in {Unknown, "effective", "withdrawn"}
  BY <1>1 DEF Target, Unknown
<1>2. CASE ~ Withdraws(s, r) /\ IsConsultation(s, r.status) /\ s \notin ProposalSources
           /\ to \in {"comment_open", "comment_closed"}
  <2>1. phase = 1
    BY <1>2 DEF Fits
  <2> HIDE DEF to
  <2> QED
    BY <1>2, <2>1 DEF Target, Phase
<1>3. CASE ~ Withdraws(s, r) /\ IsProposal(s, r.status) /\ s \in ProposalSources
           /\ to = WindowState(dates, "proposed", day)
  <2>1. phase = 1
    BY <1>3 DEF Fits
  <2> HIDE DEF to
  <2> QED
    BY <1>3, <2>1 DEF Target, Phase, WindowState, Unknown
<1>4. CASE ~ Withdraws(s, r) /\ IsDatedAct(s, r.status) /\ to = "final_pending_effective"
  <2>1. phase = 2
    BY <1>4 DEF Fits, IsDatedAct
  <2> HIDE DEF to
  <2> QED
    BY <1>4, <2>1 DEF Target, Phase
<1>5. CASE ~ Withdraws(s, r) /\ s \in DOMAIN FixedState /\ r.status \in DOMAIN FixedState[s]
           /\ s \notin ProposalSources /\ to = FixedState[s][r.status]
  <2>1. to \in DOMAIN Phase \cup {"effective", "withdrawn"}
    BY <1>5 DEF FixedState, CellarFixes, OeilFixes, EdpbFixes, CppaFixes, LegiscanFixes,
    PciSscFixes, IsoFixes, NistCsrcFixes, Phase
  <2>2. to \in DOMAIN Phase => Phase[to] = phase
    BY <1>5 DEF Fits, FixedTo
  <2> HIDE DEF to
  <2> QED
    BY <1>5, <2>1, <2>2 DEF Target
<1> QED
  <2> HIDE DEF to
  <2>1. \/ to = "withdrawn" \/ to = "effective"
        \/ /\ ~ Withdraws(s, r) /\ IsConsultation(s, r.status) /\ s \notin ProposalSources
           /\ to \in {"comment_open", "comment_closed"}
        \/ /\ ~ Withdraws(s, r) /\ IsProposal(s, r.status) /\ s \in ProposalSources
           /\ to = WindowState(dates, "proposed", day)
        \/ ~ Withdraws(s, r) /\ IsDatedAct(s, r.status) /\ to = "final_pending_effective"
        \/ /\ ~ Withdraws(s, r) /\ s \in DOMAIN FixedState /\ r.status \in DOMAIN FixedState[s]
           /\ s \notin ProposalSources /\ to = FixedState[s][r.status]
        \/ to = Unknown
    BY DerivedCases DEF to, Withdraws
  <2> QED
    BY <1>1, <1>2, <1>3, <1>4, <1>5, <2>1

\* And it ends a life, or comes before the end of one, where the reading does.
LEMMA DerivedEnds ==
  ASSUME NEW s, NEW r, NEW dates, NEW day, NEW phase \in 0..WithdrawnPhase,
         Fits(s, r, phase), Ends(s, r, phase), s = "have_your_say" => NoAdoption(dates)
  PROVE  EndTarget(s, dates, phase, day, ComputeState(s, r.status, r.action, dates, day))
<1> DEFINE to == ComputeState(s, r.status, r.action, dates, day)
<1>0. SUFFICES EndTarget(s, dates, phase, day, to)
  OBVIOUS
<1>1. CASE Withdraws(s, r) /\ to = "withdrawn"
  BY <1>1 DEF EndTarget, Ends
<1>2. ~ (s = "have_your_say" /\ Adopted(dates, day))
  BY DEF NoAdoption, Adopted, OfTypes
<1>3. CASE to \in {Unknown, "comment_open", "comment_closed", "proposed"}
  BY <1>3 DEF EndTarget, Unknown
<1>4. CASE /\ ~ Withdraws(s, r) /\ IsDatedAct(s, r.status)
           /\ to = IF InForce(s, dates, day) THEN "effective" ELSE "final_pending_effective"
  <2>1. phase = 2
    BY <1>4 DEF Fits, IsDatedAct
  <2> HIDE DEF to
  <2> QED
    BY <1>4, <2>1 DEF EndTarget
<1>5. CASE /\ ~ Withdraws(s, r) /\ s \in DOMAIN FixedState /\ r.status \in DOMAIN FixedState[s]
           /\ s \notin ProposalSources /\ to = FixedState[s][r.status]
  <2>1. /\ to = "effective" => phase = InForcePhase
        /\ to = "withdrawn" => phase = WithdrawnPhase
    BY <1>5 DEF Ends, FixedTo
  <2>2. to = "final_pending_effective" => s \in {"oeil", "uk_legislation", "iso_catalog"}
    BY <1>5 DEF FixedState, CellarFixes, OeilFixes, EdpbFixes, CppaFixes, LegiscanFixes,
    PciSscFixes, IsoFixes, NistCsrcFixes
  <2>3. s \in {"oeil", "uk_legislation", "iso_catalog"} => ~ InForce(s, dates, day)
    BY DEF InForce, InForceDate
  <2> HIDE DEF to
  <2> QED
    BY <2>1, <2>2, <2>3 DEF EndTarget
<1> QED
  <2>1. WindowState(dates, "proposed", day) \in {"comment_open", "comment_closed", "proposed"}
    BY DEF WindowState
  <2> HIDE DEF to
  <2>2. \/ Withdraws(s, r) /\ to = "withdrawn"
        \/ to \in {"comment_open", "comment_closed"}
        \/ to = WindowState(dates, "proposed", day)
        \/ /\ ~ Withdraws(s, r) /\ IsDatedAct(s, r.status)
           /\ to = IF InForce(s, dates, day) THEN "effective" ELSE "final_pending_effective"
        \/ /\ ~ Withdraws(s, r) /\ s \in DOMAIN FixedState /\ r.status \in DOMAIN FixedState[s]
           /\ s \notin ProposalSources /\ to = FixedState[s][r.status]
        \/ to = Unknown
    BY <1>2, DerivedCases DEF to, Withdraws
  <2> QED
    BY <1>1, <1>3, <1>4, <1>5, <2>1, <2>2

\* The lifecycle allows a move to what the phase of the document asks for, and the state
\* moved to is one of the phase.
LEMMA PhaseMoves ==
  ASSUME NEW s, NEW dates, NEW phase \in 0..WithdrawnPhase, NEW state \in State, NEW to,
         Within(state, phase), Target(s, dates, phase, to),
         s \in ProposalSources /\ state \in {"comment_open", "comment_closed"} =>
           Get(dates, "comment_close") # NoDate
  PROVE  /\ state \in ActiveStates => to = Unknown \/ Verdict(state, to) # "anomaly"
         /\ Settled(state, to) \in State /\ Within(Settled(state, to), phase)
         /\ s \in ProposalSources /\ Settled(state, to) \in {"comment_open", "comment_closed"} =>
              Get(dates, "comment_close") # NoDate
<1>1. to \in State \cup {Unknown} /\ (to \in DOMAIN Phase => Within(to, phase))
  BY DEF Target, Phase, State, Mainline, Side, Within, Unknown
<1>2. Settled(state, to) \in {state, to} /\ (Settled(state, to) = Unknown => state = Unknown)
  BY DEF Settled
<1>3. ASSUME state \in ActiveStates, to # Unknown PROVE Verdict(state, to) # "anomaly"
  <2> USE DEF Verdict, Echo, Advances, ActiveStates, State, Mainline, Side, Terminal, BackwardOk, Rank
  <2>1. CASE to \in {"effective", "withdrawn"}
    BY <1>3, <2>1
  <2>2. CASE to \in DOMAIN Phase /\ Phase[to] = phase
    BY <1>3, <2>2 DEF Within, Phase
  <2>3. CASE /\ to = "proposed" /\ phase = 1
             /\ s \in ProposalSources /\ Get(dates, "comment_close") = NoDate
    BY <1>3, <2>3 DEF Within, Phase
  <2> QED
    BY <1>3, <2>1, <2>2, <2>3 DEF Target
<1>4. "unknown" \notin State
  BY DEF State, Mainline, Side
<1> QED
  BY <1>1, <1>2, <1>3, <1>4 DEF Within, Target, Unknown
\* Where a state may be the last one of a life.
EndsWithin(s, dates, phase, day, state) ==
  /\ state \in Mainline \cup {"withdrawn"}
  /\ state = "withdrawn" => phase = WithdrawnPhase
  /\ state = "effective" => phase >= InForcePhase \/ (phase = 2 /\ InForce(s, dates, day))

\* A reading that fits the phase contradicts no state that belongs to the phase.
LEMMA EndMoves ==
  ASSUME NEW s, NEW dates, NEW day, NEW phase \in 0..WithdrawnPhase, NEW state, NEW to,
         Within(state, phase), Target(s, dates, phase, to), EndTarget(s, dates, phase, day, to),
         EndsWithin(s, dates, phase, day, state),
         s \in ProposalSources /\ state \in {"comment_open", "comment_closed"} =>
           Get(dates, "comment_close") # NoDate
  PROVE  /\ to = Unknown \/ Verdict(state, to) # "anomaly"
         /\ EndsWithin(s, dates, phase, day, Settled(state, to))
<1>1. to \in Mainline \cup {"withdrawn", Unknown}
  BY DEF Target, Phase, Mainline
<1>2. EndsWithin(s, dates, phase, day, Settled(state, to))
  <2>1. CASE Settled(state, to) = state
    BY <2>1
  <2>2. CASE to # Unknown /\ Settled(state, to) = to
    BY <1>1, <2>2 DEF EndsWithin, EndTarget, InForcePhase
  <2> QED
    BY <2>1, <2>2 DEF Settled
<1>3. ASSUME to # Unknown PROVE Verdict(state, to) # "anomaly"
  <2> USE DEF Verdict, Echo, Advances, Mainline, Side, Terminal, BackwardOk, Rank, InForcePhase,
              WithdrawnPhase
  <2>1. CASE to = "withdrawn"
    BY <2>1 DEF EndsWithin
  <2>2. CASE to = "effective"
    BY <2>2 DEF EndsWithin, EndTarget
  <2>3. CASE to = "final_pending_effective"
    <3>1. phase = 2
      BY <2>3 DEF Target, Phase, Unknown
    <3>2. state \notin {"effective", "withdrawn"}
      BY <2>3, <3>1 DEF EndsWithin, EndTarget
    <3> QED
      BY <2>3, <3>2 DEF EndsWithin
  <2>4. CASE to \in {"comment_open", "comment_closed"}
    <3>1. phase = 1
      BY <2>4 DEF Target, Phase, Unknown
    <3>2. state \in {"proposed", "comment_open", "comment_closed"}
      BY <3>1 DEF EndsWithin, Within, Phase
    <3> QED
      BY <2>4, <3>2
  <2>5. CASE to = "proposed"
    <3>1. phase \in {0, 1} /\ (phase = 1 => s \in ProposalSources /\ Get(dates, "comment_close") = NoDate)
      BY <2>5 DEF Target, Phase, Unknown
    <3>2. state \in {"proposed", "comment_open", "comment_closed"}
      BY <3>1 DEF EndsWithin, Within, Phase
    <3>3. state = "proposed"
      BY <3>1, <3>2 DEF Within, Phase
    <3> QED
      BY <2>5, <3>3
  <2> QED
    BY <1>1, <1>3, <2>1, <2>2, <2>3, <2>4, <2>5
<1> QED
  BY <1>2, <1>3
-------------------------------------------------------------------------------
\* m is what is known of the document of row r once ni is read.
Read(s, m, r, ni) ==
  /\ DOMAIN m = RowFields /\ m.held = TRUE /\ m.status = ni.status /\ m.state = r.state
  /\ m.keys = r.keys \cup {ni.key} \cup ni.keys
  /\ s = "federal_register" => m.action = ni.action
  /\ s \in Keepers => \A slot \in DOMAIN r.dates :
       slot \in DOMAIN m.dates /\ (r.dates[slot] # NoDate => m.dates[slot] # NoDate)
  /\ \A slot \in DOMAIN m.dates :
       \/ slot \in DOMAIN ni.dates /\ m.dates[slot] = ni.dates[slot]
       \/ slot \in DOMAIN r.dates /\ m.dates[slot] = r.dates[slot]

\* A reading leaves the fields of the row as the document has them.
LEMMA MergedFields ==
  ASSUME NEW r, DOMAIN r = RowFields, NEW s \in Registered, NEW ni, Readable(s, ni)
  PROVE  Read(s, Merged(r, ni), r, ni)
<1> DEFINE m == Merged(r, ni)
           kept == {slot \in DOMAIN r.dates \cup DOMAIN ni.dates : slot[1] \notin ni.retract}
<1>1. /\ DOMAIN m = RowFields /\ m.held = TRUE /\ m.status = ni.status /\ m.state = r.state
      /\ m.action = IF ni.action = "unstated" THEN r.action ELSE ni.action
  BY DEF Merged, RowFields
<1>2. m.dates = [slot \in kept |-> IF slot \in DOMAIN ni.dates THEN ni.dates[slot] ELSE r.dates[slot]]
  BY DEF Merged, RowFields
<1>3. m.keys = r.keys \cup {ni.key} \cup ni.keys
  BY DEF Merged, RowFields
<1> HIDE DEF m
<1>4. \A slot \in DOMAIN m.dates :
        \/ slot \in DOMAIN ni.dates /\ m.dates[slot] = ni.dates[slot]
        \/ slot \in DOMAIN r.dates /\ m.dates[slot] = r.dates[slot]
  BY <1>2
<1>5. ASSUME s \in Keepers, NEW slot \in DOMAIN r.dates
      PROVE  slot \in DOMAIN m.dates /\ (r.dates[slot] # NoDate => m.dates[slot] # NoDate)
  <2>1. slot \in kept
    BY <1>5 DEF Readable
  <2> HIDE DEF kept
  <2>2. slot \in DOMAIN m.dates
    BY <1>2, <2>1
  <2>3. CASE slot \in DOMAIN ni.dates
    BY <1>2, <1>5, <2>1, <2>3 DEF Readable
  <2>4. CASE slot \notin DOMAIN ni.dates
    BY <1>2, <2>1, <2>4
  <2> QED
    BY <2>2, <2>3, <2>4
<1>6. s = "federal_register" => m.action = ni.action
  BY <1>1 DEF Readable
<1> QED
  <2>1. Read(s, m, r, ni)
    BY <1>1, <1>3, <1>4, <1>5, <1>6 DEF Read
  <2> QED
    BY <2>1 DEF m

\* A known close of comment stays known.
LEMMA CloseIsKept ==
  ASSUME NEW r, NEW m, \A slot \in DOMAIN r.dates :
           slot \in DOMAIN m.dates /\ (r.dates[slot] # NoDate => m.dates[slot] # NoDate),
         Get(r.dates, "comment_close") # NoDate
  PROVE  Get(m.dates, "comment_close") # NoDate
<1> DEFINE close == <<"comment_close", NoLabel>>
<1>1. close \in DOMAIN r.dates /\ r.dates[close] # NoDate
  BY DEF Get
<1>2. close \in DOMAIN m.dates /\ m.dates[close] # NoDate
  BY <1>1
<1> QED
  BY <1>2 DEF Get

\* A text in force stays in force unless the reading puts it off.
LEMMA InForceIsKept ==
  ASSUME NEW r, NEW m, NEW day \in Nat, NEW s,
         r.held, r.state = "effective", InForce(s, r.dates, day),
         ~ \E slot \in DOMAIN m.dates :
             /\ slot[1] \in InForceTypes /\ m.dates[slot] > day
             /\ slot \in DOMAIN r.dates => r.dates[slot] <= day,
         \A slot \in DOMAIN r.dates : r.dates[slot] \in Nat,
         \A slot \in DOMAIN m.dates : m.dates[slot] \in Nat,
         s \in Keepers => \A slot \in DOMAIN r.dates :
           slot \in DOMAIN m.dates /\ (r.dates[slot] # NoDate => m.dates[slot] # NoDate)
  PROVE  InForce(s, m.dates, day)
<1>1. ASSUME NEW slot \in DOMAIN m.dates, slot[1] \in InForceTypes, m.dates[slot] > day
      PROVE  slot \in DOMAIN r.dates /\ r.dates[slot] > day
  BY <1>1
<1>2. CASE s \in DOMAIN InForceDate /\ ~ (Get(r.dates, InForceDate[s]) > day)
  <2> DEFINE slot == <<InForceDate[s], NoLabel>>
  <2>1. slot[1] \in InForceTypes
    BY <1>2 DEF InForceDate, InForceTypes
  <2>2. SUFFICES ASSUME Get(m.dates, InForceDate[s]) > day PROVE FALSE
    BY <1>2 DEF InForce
  <2>3. slot \in DOMAIN m.dates /\ m.dates[slot] > day
    BY <2>2 DEF Get, NoDate
  <2>4. slot \in DOMAIN r.dates /\ r.dates[slot] > day
    BY <1>1, <2>1, <2>3
  <2> QED
    BY <1>2, <2>4 DEF Get
<1>3. ASSUME s \in Keepers, NEW slot \in DOMAIN r.dates, slot[1] \in InForceTypes,
             r.dates[slot] # NoDate, r.dates[slot] <= day
      PROVE  slot \in DOMAIN m.dates /\ m.dates[slot] # NoDate /\ m.dates[slot] <= day
  BY <1>1, <1>3
<1>4. CASE s = "legiscan" /\ \E d \in {Get(r.dates, "effective")} \ {NoDate} : d <= day
  <2> DEFINE slot == <<"effective", NoLabel>>
  <2>1. slot \in DOMAIN r.dates /\ r.dates[slot] # NoDate /\ r.dates[slot] <= day
    BY <1>4 DEF Get
  <2>2. slot[1] \in InForceTypes
    BY DEF InForceTypes
  <2>3. slot \in DOMAIN m.dates /\ m.dates[slot] # NoDate /\ m.dates[slot] <= day
    BY <1>3, <1>4, <2>1, <2>2 DEF Keepers
  <2> QED
    BY <1>4, <2>3 DEF InForce, Get
<1>5. CASE s = "curated" /\ \E d \in OfTypes(r.dates, InForceTypes) : d <= day
  <2>1. PICK slot \in DOMAIN r.dates :
          slot[1] \in InForceTypes /\ r.dates[slot] # NoDate /\ r.dates[slot] <= day
    BY <1>5 DEF OfTypes
  <2>2. slot \in DOMAIN m.dates /\ m.dates[slot] # NoDate /\ m.dates[slot] <= day
    BY <1>3, <1>5, <2>1 DEF Keepers
  <2>3. m.dates[slot] \in OfTypes(m.dates, InForceTypes)
    BY <2>1, <2>2 DEF OfTypes
  <2> QED
    BY <1>5, <2>2, <2>3 DEF InForce
<1> QED
  BY <1>2, <1>4, <1>5 DEF InForce
-------------------------------------------------------------------------------
\* The type of a replay: one edition of one source, a day, and a row.
ReplayType ==
  /\ source \in DOMAIN Editions /\ doc \in Editions[source] /\ today \in 1..MaxDay
  /\ DOMAIN row = RowFields /\ row.state \in State

\* A row fits a phase, and what its source opened or closed for comment has a window.
RowFits(r, phase) ==
  /\ Fits(source, r, phase)
  /\ r.state \in State /\ Within(r.state, phase)
  /\ source \in ProposalSources /\ r.state \in {"comment_open", "comment_closed"} =>
       Get(r.dates, "comment_close") # NoDate

\* The same of the end of a life.
RowEnds(r, phase, day) ==
  /\ Ends(source, r, phase)
  /\ EndsWithin(source, r.dates, phase, day, r.state)
  /\ source = "have_your_say" => NoAdoption(r.dates)
  /\ \A slot \in DOMAIN r.dates : r.dates[slot] \in Nat

\* The keys of a row are of one document, which has reached a phase.
KeysReach(stage, keys, phase) ==
  /\ keys \subseteq KeysOf(source)
  /\ \A k \in keys : phase <= stage[source][doc][today][k]
  /\ \A k, l \in keys : \A e \in Editions[source], then \in 1..MaxDay :
       stage[source][e][then][k] = stage[source][e][then][l]

\* Nothing has put off what the body said, in a world where ends are final.
Undisturbed(stage) == EndsAreFinal(stage) /\ ~ moved /\ ~ postponed

RowIsInPhase(stage) ==
  row.held => \E x \in 0..WithdrawnPhase :
    /\ KeysReach(stage, row.keys, x) /\ RowFits(row, x)
    /\ Undisturbed(stage) => RowEnds(row, x, today)

NoObjection(stage) == TickNeverObjects /\ (Undisturbed(stage) => "read" \notin objected)

\* The inductive invariant of a replay.
ReplayInv(stage) == ReplayType /\ RowIsInPhase(stage) /\ NoObjection(stage)

\* The state a row is moved to, derived from what it knows, is one of its phase, and no
\* tick objects to it; nor does a reading, unless what was settled is put off.
LEMMA SettledFits ==
  ASSUME NEW r, NEW phase \in 0..WithdrawnPhase, NEW day, RowFits(r, phase)
  PROVE  LET to == Settled(r.state, Derived(r, day))
         IN  /\ r.state \in ActiveStates => ~ Objects(r, Derived(r, day))
             /\ to \in State /\ Within(to, phase)
             /\ source \in ProposalSources /\ to \in {"comment_open", "comment_closed"} =>
                  Get(r.dates, "comment_close") # NoDate
             /\ RowEnds(r, phase, day) => /\ ~ Objects(r, Derived(r, day))
                                          /\ EndsWithin(source, r.dates, phase, day, to)
<1>1. Target(source, r.dates, phase, Derived(r, day))
  BY DerivedFits DEF Derived, RowFits
<1>2. RowEnds(r, phase, day) => EndTarget(source, r.dates, phase, day, Derived(r, day))
  BY DerivedEnds DEF Derived, RowFits, RowEnds
<1> HIDE DEF Derived
<1>3. r.state \in State /\ Within(r.state, phase)
  BY DEF RowFits
<1>4. source \in ProposalSources /\ r.state \in {"comment_open", "comment_closed"} =>
        Get(r.dates, "comment_close") # NoDate
  BY DEF RowFits
<1>5. RowEnds(r, phase, day) =>
        /\ ~ Objects(r, Derived(r, day))
        /\ EndsWithin(source, r.dates, phase, day, Settled(r.state, Derived(r, day)))
  BY <1>1, <1>2, <1>3, <1>4, EndMoves DEF Objects, RowEnds
<1>6. r.state \in ActiveStates => ~ Objects(r, Derived(r, day))
  BY <1>1, <1>3, <1>4, PhaseMoves DEF Objects
<1> QED
  BY <1>1, <1>3, <1>4, <1>5, <1>6, PhaseMoves

\* A row with other fields of the same value fits the same phase.
LEMMA FitsIsOfStatus ==
  ASSUME NEW s, NEW r, NEW ni, r.status = ni.status, s = "federal_register" => r.action = ni.action,
         NEW phase
  PROVE  /\ Fits(s, ni, phase) => Fits(s, r, phase)
         /\ Ends(s, ni, phase) => Ends(s, r, phase)
BY DEF Fits, Ends, Withdraws

\* The keys of every reading are keys of the source.
LEMMA KeysAreListed ==
  ASSUME NEW s, NEW d \in Editions[s], NEW day \in 1..MaxDay, NEW ni \in Normalize(s, d, day)
  PROVE  {ni.key} \cup ni.keys \subseteq KeysOf(s)
<1> DEFINE listed(e, then) == {{nj.key} \cup nj.keys : nj \in Normalize(s, e, then)}
           all == {UNION listed(e, then) : e \in Editions[s], then \in 1..MaxDay}
<1>1. {ni.key} \cup ni.keys \in listed(d, day) /\ KeysOf(s) = UNION all
  BY DEF KeysOf
<1> HIDE DEF listed
<1>2. {ni.key} \cup ni.keys \subseteq UNION listed(d, day)
  BY <1>1
<1>3. UNION listed(d, day) \in all
  OBVIOUS
<1> HIDE DEF all
<1> QED
  BY <1>1, <1>2, <1>3

\* The keys of a reading that finds the row reach the phase of the edition, on that day.
LEMMA FoundKeysReach ==
  ASSUME NEW stage, ReplayType, EditionsAdvance(stage), NEW x \in 0..WithdrawnPhase,
         KeysReach(stage, row.keys, x), NEW ni \in Found(row, doc, today)
  PROVE  LET y == stage[source][doc][today][ni.key]
         IN  x <= y /\ KeysReach(stage, row.keys \cup {ni.key} \cup ni.keys, y)
<1> DEFINE y == stage[source][doc][today][ni.key]
           same(k, l) == \A e \in Editions[source], then \in 1..MaxDay :
                           stage[source][e][then][k] = stage[source][e][then][l]
<1>1. ni \in Normalize(source, doc, today)
  BY DEF Found
<1>2. {ni.key} \cup ni.keys \subseteq KeysOf(source)
  BY <1>1, KeysAreListed DEF ReplayType
<1>3. \A k \in ni.keys : same(k, ni.key)
  BY <1>1 DEF EditionsAdvance, ReplayType
<1>4. PICK k \in row.keys : k = ni.key \/ k \in ni.keys
  BY DEF Found, Finds
<1>5. same(k, ni.key)
  BY <1>3, <1>4
<1>6. \A l \in row.keys : same(k, l)
  BY <1>4 DEF KeysReach
<1>7. \A l \in row.keys \cup {ni.key} \cup ni.keys : same(l, ni.key)
  BY <1>3, <1>5, <1>6
<1>8. \A l \in row.keys \cup {ni.key} \cup ni.keys : stage[source][doc][today][l] = y
  BY <1>7 DEF ReplayType
<1>9. x <= y /\ y \in 0..WithdrawnPhase
  BY <1>2, <1>4, <1>8 DEF KeysReach, EditionsAdvance, ReplayType
<1> QED
  BY <1>2, <1>7, <1>8, <1>9 DEF KeysReach
\* A row read again fits the phase of the edition it was read from, on the day of the reading;
\* and the reading is not objected to unless it puts off what was in force.
LEMMA ReadFits ==
  ASSUME NEW stage, ReplayType, EditionsAdvance(stage), row.held,
         NEW x \in 0..WithdrawnPhase, KeysReach(stage, row.keys, x), RowFits(row, x),
         NEW ni \in Found(row, doc, today)
  PROVE  LET r == Updated(row, ni, today)
             y == stage[source][doc][today][ni.key]
         IN  /\ DOMAIN r = RowFields /\ r.held = TRUE /\ y \in 0..WithdrawnPhase
             /\ KeysReach(stage, r.keys, y) /\ RowFits(r, y)
             /\ EndsAreFinal(stage) /\ RowEnds(row, x, today) /\ ~ Postpones(row, r) =>
                  RowEnds(r, y, today) /\ ~ Objects(row, Derived(r, today))
<1> DEFINE m == Merged(row, ni)
           y == stage[source][doc][today][ni.key]
           to == Settled(m.state, Derived(m, today))
           r == Updated(row, ni, today)
<1>1. /\ source \in Registered /\ ni \in Normalize(source, doc, today)
      /\ Fits(source, ni, y) /\ today \in Nat
  BY ReplayAssumption DEF ReplayType, EditionsAdvance, Found
<1>2. Readable(source, ni)
  BY <1>1, ReadingIsReadable
<1>3. /\ DOMAIN m = RowFields /\ m.held = TRUE /\ m.status = ni.status /\ m.state = row.state
      /\ m.keys = row.keys \cup {ni.key} \cup ni.keys
      /\ source = "federal_register" => m.action = ni.action
      /\ source \in Keepers => \A slot \in DOMAIN row.dates :
           slot \in DOMAIN m.dates /\ (row.dates[slot] # NoDate => m.dates[slot] # NoDate)
      /\ \A slot \in DOMAIN m.dates :
           \/ slot \in DOMAIN ni.dates /\ m.dates[slot] = ni.dates[slot]
           \/ slot \in DOMAIN row.dates /\ m.dates[slot] = row.dates[slot]
  <2>1. Read(source, m, row, ni)
    BY <1>1, <1>2, MergedFields DEF ReplayType
  <2> HIDE DEF m
  <2> QED
    BY <2>1 DEF Read
<1>4. x <= y /\ KeysReach(stage, m.keys, y)
  BY <1>3, FoundKeysReach
<1>5. y \in 0..WithdrawnPhase
  BY <1>1, KeysAreListed DEF ReplayType, EditionsAdvance
<1>6. r = [m EXCEPT !.state = to]
  BY <1>3 DEF Updated, RowFields
<1> HIDE DEF m, r
<1>7. /\ DOMAIN r = RowFields /\ r.held = TRUE /\ r.status = m.status /\ r.action = m.action
      /\ r.dates = m.dates /\ r.keys = m.keys /\ r.state = to
  BY <1>3, <1>6 DEF RowFields
<1> HIDE DEF y
<1>8. source \in ProposalSources /\ m.state \in {"comment_open", "comment_closed"} =>
        Get(m.dates, "comment_close") # NoDate
  BY <1>3, CloseIsKept DEF RowFits, Keepers
<1>9. RowFits(m, y)
  BY <1>1, <1>3, <1>4, <1>5, <1>8, FitsIsOfStatus DEF RowFits, Within, Phase
<1> HIDE DEF to
<1>10. /\ to \in State /\ Within(to, y)
       /\ source \in ProposalSources /\ to \in {"comment_open", "comment_closed"} =>
            Get(m.dates, "comment_close") # NoDate
  BY <1>5, <1>9, SettledFits DEF to
<1>11. RowFits(r, y)
  <2>1. Fits(source, r, y)
    BY <1>7, <1>9, FitsIsOfStatus DEF RowFits
  <2> QED
    BY <1>7, <1>10, <2>1 DEF RowFits
<1>12. ASSUME EndsAreFinal(stage), RowEnds(row, x, today), ~ Postpones(row, r)
       PROVE  RowEnds(r, y, today) /\ ~ Objects(row, Derived(r, today))
  <2>1. Ends(source, ni, y) /\ \A slot \in DOMAIN ni.dates : ni.dates[slot] \in Nat
    BY <1>1, <1>12 DEF EndsAreFinal, ReplayType, y
  <2>2. \A slot \in DOMAIN m.dates : m.dates[slot] \in Nat
    BY <1>3, <1>12, <2>1 DEF RowEnds
  <2>3. source = "have_your_say" => NoAdoption(m.dates)
    BY <1>2, <1>3, <1>12 DEF RowEnds, NoAdoption, Readable
  <2>4. row.state = "effective" /\ InForce(source, row.dates, today) => InForce(source, m.dates, today)
    <3>1. row.state = "effective" =>
            ~ \E slot \in DOMAIN m.dates :
                /\ slot[1] \in InForceTypes /\ m.dates[slot] > today
                /\ slot \in DOMAIN row.dates => row.dates[slot] <= today
      BY <1>7, <1>12 DEF Postpones
    <3> QED
      BY <1>1, <1>3, <1>12, <2>2, <3>1, InForceIsKept DEF RowEnds
  <2>5. EndsWithin(source, m.dates, y, today, m.state)
    BY <1>3, <1>4, <1>5, <1>12, <2>4 DEF RowEnds, EndsWithin, InForcePhase, WithdrawnPhase
  <2>6. Ends(source, m, y)
    BY <1>3, <2>1, FitsIsOfStatus
  <2>7. RowEnds(m, y, today)
    BY <2>2, <2>3, <2>5, <2>6 DEF RowEnds
  <2>8. ~ Objects(m, Derived(m, today)) /\ EndsWithin(source, m.dates, y, today, to)
    BY <1>5, <1>9, <2>7, SettledFits DEF to
  <2>9. Ends(source, r, y)
    BY <1>7, <2>6, FitsIsOfStatus
  <2>10. RowEnds(r, y, today)
    BY <1>7, <2>2, <2>3, <2>8, <2>9 DEF RowEnds
  <2>11. Derived(r, today) = Derived(m, today)
    BY <1>7 DEF Derived
  <2> QED
    BY <1>3, <2>8, <2>10, <2>11 DEF Objects
<1> QED
  BY <1>4, <1>5, <1>7, <1>11, <1>12 DEF r, y

\* So does the row of a document that had none.
LEMMA CreatedFits ==
  ASSUME NEW stage, ReplayType, EditionsAdvance(stage), NEW ni \in Normalize(source, doc, today)
  PROVE  LET r == Created(ni, today)
             y == stage[source][doc][today][ni.key]
         IN  /\ DOMAIN r = RowFields /\ r.held = TRUE /\ y \in 0..WithdrawnPhase
             /\ KeysReach(stage, r.keys, y) /\ RowFits(r, y)
             /\ EndsAreFinal(stage) => RowEnds(r, y, today)
<1> DEFINE nj == [ni EXCEPT !.retract = {}]
           m == Merged(NoRow, nj)
           y == stage[source][doc][today][ni.key]
           to == IF Derived(m, today) = Unknown THEN "proposed" ELSE Derived(m, today)
           r == Created(ni, today)
<1>1. source \in Registered /\ Fits(source, ni, y)
  BY ReplayAssumption DEF ReplayType, EditionsAdvance
<1>2. Readable(source, ni)
  BY <1>1, ReadingIsReadable
<1>3. /\ Readable(source, nj) /\ nj.status = ni.status /\ nj.action = ni.action
      /\ nj.dates = ni.dates /\ nj.key = ni.key /\ nj.keys = ni.keys
  BY <1>2 DEF Readable, DocumentFields
<1>4. DOMAIN NoRow = RowFields /\ NoRow.keys = {} /\ NoRow.dates = <<>>
  BY DEF NoRow, RowFields
<1>5. {ni.key} \cup ni.keys \subseteq KeysOf(source) /\ y \in 0..WithdrawnPhase
  BY KeysAreListed DEF ReplayType, EditionsAdvance
<1>6. \A k \in ni.keys : \A e \in Editions[source], then \in 1..MaxDay :
        stage[source][e][then][k] = stage[source][e][then][ni.key]
  BY DEF ReplayType, EditionsAdvance
<1> HIDE DEF nj
<1>7. /\ DOMAIN m = RowFields /\ m.held = TRUE /\ m.status = ni.status
      /\ m.keys = {ni.key} \cup ni.keys
      /\ source = "federal_register" => m.action = ni.action
      /\ \A slot \in DOMAIN m.dates : slot \in DOMAIN ni.dates /\ m.dates[slot] = ni.dates[slot]
  <2>1. Read(source, m, NoRow, nj)
    BY <1>1, <1>3, <1>4, MergedFields
  <2> HIDE DEF m
  <2> QED
    BY <1>3, <1>4, <2>1 DEF Read
<1>8. r = [m EXCEPT !.state = to]
  BY DEF Created, nj
<1> HIDE DEF m, r, y
<1>9. /\ DOMAIN r = RowFields /\ r.held = TRUE /\ r.status = m.status /\ r.action = m.action
      /\ r.dates = m.dates /\ r.keys = m.keys /\ r.state = to
  BY <1>7, <1>8 DEF RowFields
<1>10. KeysReach(stage, r.keys, y)
  <2>1. \A k \in {ni.key} \cup ni.keys : stage[source][doc][today][k] = y
    BY <1>6 DEF ReplayType, y
  <2>2. \A k, l \in {ni.key} \cup ni.keys : \A e \in Editions[source], then \in 1..MaxDay :
          stage[source][e][then][k] = stage[source][e][then][l]
    BY <1>6
  <2> QED
    BY <1>5, <1>7, <1>9, <2>1, <2>2 DEF KeysReach
<1>11. Fits(source, m, y)
  BY <1>1, <1>7, FitsIsOfStatus DEF y
<1>12. Target(source, m.dates, y, Derived(m, today))
  BY <1>5, <1>11, DerivedFits DEF Derived
<1>13. RowFits(r, y)
  <2>1. /\ to \in State /\ Within(to, y)
        /\ source \in ProposalSources /\ to \in {"comment_open", "comment_closed"} =>
             Get(m.dates, "comment_close") # NoDate
    BY <1>5, <1>12 DEF Target, Within, Phase, State, Mainline, Side, Unknown
  <2>2. Fits(source, r, y)
    BY <1>9, <1>11, FitsIsOfStatus
  <2> QED
    BY <1>9, <2>1, <2>2 DEF RowFits
<1>14. ASSUME EndsAreFinal(stage) PROVE RowEnds(r, y, today)
  <2>1. Ends(source, ni, y) /\ \A slot \in DOMAIN ni.dates : ni.dates[slot] \in Nat
    BY <1>14 DEF EndsAreFinal, ReplayType, y
  <2>2. Ends(source, m, y) /\ \A slot \in DOMAIN m.dates : m.dates[slot] \in Nat
    BY <1>7, <2>1, FitsIsOfStatus
  <2>3. source = "have_your_say" => NoAdoption(m.dates)
    BY <1>2, <1>7 DEF NoAdoption, Readable
  <2>4. EndTarget(source, m.dates, y, today, Derived(m, today))
    BY <1>5, <1>11, <2>2, <2>3, DerivedEnds DEF Derived
  <2>5. EndsWithin(source, m.dates, y, today, to)
    BY <1>5, <1>12, <2>4 DEF EndsWithin, EndTarget, Target, Phase, Mainline, InForcePhase, Unknown
  <2>6. Ends(source, r, y)
    BY <1>9, <2>2, FitsIsOfStatus
  <2> QED
    BY <1>9, <2>2, <2>3, <2>5, <2>6 DEF RowEnds
<1> QED
  BY <1>5, <1>9, <1>10, <1>13, <1>14 DEF r, y
\* At the start there is no row.
LEMMA ReplayStart == ASSUME NEW stage, Init PROVE ReplayInv(stage)
<1>1. DOMAIN NoRow = RowFields /\ NoRow.state \in State /\ NoRow.held = FALSE
  BY DEF NoRow, RowFields, State, Mainline
<1> QED
  BY <1>1, ReplayAssumption
  DEF Init, ReplayInv, ReplayType, RowIsInPhase, NoObjection, TickNeverObjects

\* A step that neither disturbs the row nor takes its document back keeps its phase.
LEMMA PhaseStays ==
  ASSUME NEW stage, ReplayInv(stage), source' = source, row' = row, objected' = objected,
         moved' = moved, postponed' = postponed, doc' \in Editions[source], today' \in 1..MaxDay,
         today <= today',
         \A k \in KeysOf(source) : stage[source][doc][today][k] <= stage[source][doc'][today'][k],
         EditionsAdvance(stage)
  PROVE  ReplayInv(stage)'
<1>1. ReplayType'
  BY DEF ReplayInv, ReplayType
<1>2. NoObjection(stage)'
  BY DEF ReplayInv, NoObjection, TickNeverObjects, Undisturbed
<1>3. ASSUME row.held
      PROVE  \E x \in 0..WithdrawnPhase :
               /\ KeysReach(stage, row.keys, x)' /\ RowFits(row, x)'
               /\ Undisturbed(stage)' => RowEnds(row, x, today)'
  <2>1. PICK x \in 0..WithdrawnPhase :
               /\ KeysReach(stage, row.keys, x) /\ RowFits(row, x)
               /\ Undisturbed(stage) => RowEnds(row, x, today)
    BY <1>3 DEF ReplayInv, RowIsInPhase
  <2>2. \A k \in KeysOf(source) : /\ stage[source][doc][today][k] \in 0..WithdrawnPhase
                                  /\ stage[source][doc'][today'][k] \in 0..WithdrawnPhase
    BY DEF EditionsAdvance, ReplayInv, ReplayType
  <2>3. \A k \in row.keys : x <= stage[source][doc'][today'][k]
    BY <2>1, <2>2 DEF KeysReach
  <2>4. KeysOf(source)' = KeysOf(source)
    BY DEF KeysOf
  <2>5. KeysReach(stage, row.keys, x)'
    BY <2>1, <2>3, <2>4 DEF KeysReach
  <2>6. RowFits(row, x)'
    BY <2>1 DEF RowFits
  <2>7. ASSUME Undisturbed(stage)' PROVE RowEnds(row, x, today)'
    <3>1. RowEnds(row, x, today)
      BY <2>1, <2>7 DEF Undisturbed
    <3>2. InForce(source, row.dates, today) => InForce(source, row.dates, today')
      <4>1. \A slot \in DOMAIN row.dates : row.dates[slot] > today' => row.dates[slot] > today
        BY <3>1 DEF RowEnds, ReplayInv, ReplayType
      <4>2. \A type : Get(row.dates, type) > today' => Get(row.dates, type) > today
        BY <4>1 DEF Get, NoDate, ReplayInv, ReplayType
      <4>3. \A slot \in DOMAIN row.dates : row.dates[slot] <= today => row.dates[slot] <= today'
        BY <3>1 DEF RowEnds, ReplayInv, ReplayType
      <4>4. \A d \in OfTypes(row.dates, InForceTypes) : d <= today => d <= today'
        BY <4>3 DEF OfTypes
      <4>5. \A d \in {Get(row.dates, "effective")} \ {NoDate} : d <= today => d <= today'
        BY <4>3 DEF Get
      <4> QED
        BY <4>2, <4>4, <4>5 DEF InForce
    <3> QED
      BY <3>1, <3>2 DEF RowEnds, EndsWithin
  <2> QED
    BY <2>5, <2>6, <2>7
<1> QED
  BY <1>1, <1>2, <1>3 DEF ReplayInv, RowIsInPhase

\* A step that leaves a row in the phase of its document, at the edition that stands.
LEMMA RowInPhase ==
  ASSUME NEW stage, ReplayType, source' = source, doc' = doc, today' = today,
         DOMAIN row' = RowFields, NEW x \in 0..WithdrawnPhase,
         KeysReach(stage, row'.keys, x), RowFits(row', x),
         Undisturbed(stage)' => RowEnds(row', x, today), NoObjection(stage)'
  PROVE  ReplayInv(stage)'
<1>1. KeysOf(source)' = KeysOf(source)
  BY DEF KeysOf
<1>2. KeysReach(stage, row.keys, x)'
  BY <1>1 DEF KeysReach
<1>3. RowFits(row, x)' /\ row'.state \in State
  BY DEF RowFits
<1>4. Undisturbed(stage)' => RowEnds(row, x, today)'
  BY DEF RowEnds
<1>5. ReplayType'
  BY <1>3 DEF ReplayType
<1> QED
  BY <1>2, <1>3, <1>4, <1>5 DEF ReplayInv, RowIsInPhase

\* Another edition does not take the row back.
LEMMA PublishStep ==
  ASSUME NEW stage, EditionsAdvance(stage), ReplayInv(stage), NEW e \in Editions[source], Publish(e)
  PROVE  ReplayInv(stage)'
<1>1. /\ source' = source /\ row' = row /\ objected' = objected /\ moved' = moved
      /\ postponed' = postponed /\ doc' = e /\ today' = today /\ Follows(source, doc, e)
  BY DEF Publish
<1>2. \A k \in KeysOf(source) : stage[source][doc][today][k] <= stage[source][e][today][k]
  BY <1>1 DEF EditionsAdvance, ReplayInv, ReplayType
<1>3. today \in 1..MaxDay /\ today <= today
  BY DEF ReplayInv, ReplayType
<1> QED
  BY <1>1, <1>2, <1>3, PhaseStays

\* Nor does another day.
LEMMA NewDayStep ==
  ASSUME NEW stage, EditionsAdvance(stage), ReplayInv(stage), NewDay
  PROVE  ReplayInv(stage)'
<1>1. /\ source' = source /\ row' = row /\ objected' = objected /\ moved' = moved
      /\ postponed' = postponed /\ doc' = doc /\ today' = today + 1 /\ today < MaxDay
  BY DEF NewDay
<1>2. \A k \in KeysOf(source) : stage[source][doc][today][k] <= stage[source][doc][today + 1][k]
  BY <1>1 DEF EditionsAdvance, ReplayInv, ReplayType
<1>3. today + 1 \in 1..MaxDay /\ today <= today + 1 /\ doc \in Editions[source]
  BY <1>1, ReplayAssumption DEF ReplayInv, ReplayType
<1> QED
  BY <1>1, <1>2, <1>3, PhaseStays

\* A reading takes the row to the phase of the edition.
LEMMA ReadStep ==
  ASSUME NEW stage, EditionsAdvance(stage), ReplayInv(stage), ReadSource
  PROVE  ReplayInv(stage)'
<1>0. ReplayType /\ source' = source /\ doc' = doc /\ today' = today /\ moved' = moved
  BY DEF ReplayInv, ReadSource
<1>1. TickNeverObjects'
  BY DEF ReplayInv, NoObjection, TickNeverObjects, ReadSource
<1>2. ASSUME Undisturbed(stage)'
      PROVE  Undisturbed(stage) /\ ~ Postpones(row, row') /\ "read" \notin objected
  <2>1. EndsAreFinal(stage) /\ ~ moved /\ ~ postponed'
    BY <1>0, <1>2 DEF Undisturbed, EndsAreFinal
  <2>2. postponed' = (postponed \/ Postpones(row, row'))
    BY DEF ReadSource
  <2>3. ~ postponed /\ ~ Postpones(row, row')
    BY <2>1, <2>2, Zenon
  <2> QED
    BY <2>1, <2>3 DEF Undisturbed, ReplayInv, NoObjection
<1>3. "read" \in objected' =>
        \/ "read" \in objected
        \/ row.held /\ Found(row, doc, today) # {} /\ Objects(row, Derived(row', today))
  BY DEF ReadSource
<1>4. CASE ~ row.held
  <2>1. PICK ni \in Normalize(source, doc, today) : row' = Created(ni, today)
    BY <1>4 DEF ReadSource
  <2> DEFINE y == stage[source][doc][today][ni.key]
  <2>2. /\ DOMAIN row' = RowFields /\ y \in 0..WithdrawnPhase
        /\ KeysReach(stage, row'.keys, y) /\ RowFits(row', y)
        /\ EndsAreFinal(stage) => RowEnds(row', y, today)
    BY <1>0, <2>1, CreatedFits
  <2>3. Undisturbed(stage)' => RowEnds(row', y, today) /\ "read" \notin objected'
    BY <1>2, <1>3, <1>4, <2>2 DEF Undisturbed
  <2> HIDE DEF y
  <2> QED
    BY <1>0, <1>1, <2>2, <2>3, RowInPhase DEF NoObjection
<1>5. CASE row.held /\ Found(row, doc, today) = {}
  <2>1. row' = row
    BY <1>5 DEF ReadSource, Reread
  <2>2. PICK x \in 0..WithdrawnPhase :
          /\ KeysReach(stage, row.keys, x) /\ RowFits(row, x)
          /\ Undisturbed(stage) => RowEnds(row, x, today)
    BY <1>5 DEF ReplayInv, RowIsInPhase
  <2>3. DOMAIN row = RowFields
    BY <1>0 DEF ReplayType
  <2>4. NoObjection(stage)'
    BY <1>1, <1>2, <1>3, <1>5 DEF NoObjection
  <2> QED
    BY <1>0, <1>2, <2>1, <2>2, <2>3, <2>4, RowInPhase
<1>6. CASE row.held /\ Found(row, doc, today) # {}
  <2>1. PICK ni \in Found(row, doc, today) : row' = Updated(row, ni, today)
    BY <1>6 DEF ReadSource, Reread
  <2>2. PICK x \in 0..WithdrawnPhase :
          /\ KeysReach(stage, row.keys, x) /\ RowFits(row, x)
          /\ Undisturbed(stage) => RowEnds(row, x, today)
    BY <1>6 DEF ReplayInv, RowIsInPhase
  <2> DEFINE y == stage[source][doc][today][ni.key]
  <2>3. /\ DOMAIN row' = RowFields /\ y \in 0..WithdrawnPhase
        /\ KeysReach(stage, row'.keys, y) /\ RowFits(row', y)
        /\ EndsAreFinal(stage) /\ RowEnds(row, x, today) /\ ~ Postpones(row, row') =>
             RowEnds(row', y, today) /\ ~ Objects(row, Derived(row', today))
    BY <1>0, <1>6, <2>1, <2>2, ReadFits
  <2> HIDE DEF y
  <2>4. Undisturbed(stage)' => RowEnds(row', y, today) /\ "read" \notin objected'
    BY <1>2, <1>3, <2>2, <2>3 DEF Undisturbed
  <2> QED
    BY <1>0, <1>1, <2>3, <2>4, RowInPhase DEF NoObjection
<1> QED
  BY <1>4, <1>5, <1>6

\* The tick moves a row within its phase, and contradicts nothing.
LEMMA TickStep ==
  ASSUME NEW stage, EditionsAdvance(stage), ReplayInv(stage), Tick
  PROVE  ReplayInv(stage)'
<1>0. /\ source' = source /\ doc' = doc /\ today' = today /\ moved' = moved
      /\ postponed' = postponed /\ ReplayType
  BY DEF Tick, ReplayInv
<1>1. CASE ~ TicksOn(row)
  <2>1. row' = row /\ objected' = objected
    BY <1>1 DEF Tick, Ticked
  <2>2. doc \in Editions[source] /\ today \in 1..MaxDay /\ today <= today
        /\ \A k \in KeysOf(source) : stage[source][doc][today][k] <= stage[source][doc][today][k]
    BY <1>0 DEF ReplayType, EditionsAdvance
  <2> QED
    BY <1>0, <2>1, <2>2, PhaseStays
<1>2. CASE TicksOn(row)
  <2>1. PICK x \in 0..WithdrawnPhase :
          /\ KeysReach(stage, row.keys, x) /\ RowFits(row, x)
          /\ Undisturbed(stage) => RowEnds(row, x, today)
    BY <1>2 DEF ReplayInv, RowIsInPhase, TicksOn
  <2> DEFINE to == Settled(row.state, Derived(row, today))
  <2>2. /\ ~ Objects(row, Derived(row, today))
        /\ to \in State /\ Within(to, x)
        /\ source \in ProposalSources /\ to \in {"comment_open", "comment_closed"} =>
             Get(row.dates, "comment_close") # NoDate
        /\ RowEnds(row, x, today) => EndsWithin(source, row.dates, x, today, to)
    BY <1>2, <2>1, SettledFits DEF TicksOn
  <2>3. row' = [row EXCEPT !.state = to] /\ objected' = objected
    BY <1>2, <2>2 DEF Tick, Ticked
  <2> HIDE DEF to
  <2>4. /\ DOMAIN row' = RowFields /\ row'.state = to /\ row'.status = row.status
        /\ row'.action = row.action /\ row'.dates = row.dates /\ row'.keys = row.keys
    BY <1>0, <2>3 DEF RowFields, ReplayType
  <2>5. RowFits(row', x)
    BY <2>1, <2>2, <2>4, FitsIsOfStatus DEF RowFits
  <2>6. RowEnds(row, x, today) => RowEnds(row', x, today)
    BY <2>2, <2>4, FitsIsOfStatus DEF RowEnds
  <2>7. Undisturbed(stage)' => Undisturbed(stage)
    BY <1>0 DEF Undisturbed, EndsAreFinal
  <2>8. NoObjection(stage)'
    BY <2>3, <2>7 DEF ReplayInv, NoObjection, TickNeverObjects
  <2> QED
    BY <1>0, <2>1, <2>4, <2>5, <2>6, <2>7, <2>8, RowInPhase
<1> QED
  BY <1>1, <1>2

\* A date that a person moves leaves the row in its phase, and a known window known.
LEMMA AssertStep ==
  ASSUME NEW stage, ReplayInv(stage), NEW slot \in Stated[source], NEW day \in 1..MaxDay,
         AssertDate(slot, day)
  PROVE  ReplayInv(stage)'
<1>0. /\ source' = source /\ doc' = doc /\ today' = today /\ objected' = objected /\ moved' = TRUE
      /\ row.held /\ ReplayType
  BY DEF AssertDate, ReplayInv
<1> DEFINE dates == [s \in DOMAIN row.dates \cup {slot} |-> IF s = slot THEN day ELSE row.dates[s]]
<1>1. row' = [row EXCEPT !.dates = dates]
  BY <1>0 DEF AssertDate, RowFields, ReplayType
<1>2. Get(row.dates, "comment_close") # NoDate => Get(dates, "comment_close") # NoDate
  BY DEF Get, NoDate
<1> HIDE DEF dates
<1>3. /\ DOMAIN row' = RowFields /\ row'.state = row.state /\ row'.status = row.status
      /\ row'.action = row.action /\ row'.keys = row.keys /\ row'.dates = dates
  BY <1>0, <1>1 DEF RowFields, ReplayType
<1>4. PICK x \in 0..WithdrawnPhase : KeysReach(stage, row.keys, x) /\ RowFits(row, x)
  BY <1>0 DEF ReplayInv, RowIsInPhase
<1>5. RowFits(row', x)
  BY <1>2, <1>3, <1>4, FitsIsOfStatus DEF RowFits
<1>6. ~ Undisturbed(stage)'
  BY <1>0 DEF Undisturbed
<1>7. NoObjection(stage)'
  BY <1>0, <1>6 DEF ReplayInv, NoObjection, TickNeverObjects
<1> QED
  BY <1>0, <1>3, <1>4, <1>5, <1>6, <1>7, RowInPhase

\* Every step keeps the row in its phase, and finds nothing to object to.
LEMMA ReplayStep ==
  ASSUME NEW stage, EditionsAdvance(stage), ReplayInv(stage), [Next]_vars
  PROVE  ReplayInv(stage)'
<1>1. CASE UNCHANGED vars
  <2>1. /\ source' = source /\ doc' = doc /\ today' = today /\ row' = row /\ objected' = objected
        /\ moved' = moved /\ postponed' = postponed
    BY <1>1 DEF vars
  <2>2. doc \in Editions[source] /\ today \in 1..MaxDay /\ today <= today
        /\ \A k \in KeysOf(source) : stage[source][doc][today][k] <= stage[source][doc][today][k]
    BY DEF ReplayInv, ReplayType, EditionsAdvance
  <2> QED
    BY <2>1, <2>2, PhaseStays
<1> QED
  BY <1>1, PublishStep, ReadStep, TickStep, NewDayStep, AssertStep DEF Next

\* However many readings, ticks and days are missed and whatever dates people move, the tick
\* contradicts no row: what tick asks _apply_state for is a move classify_transition allows.
THEOREM TickAlwaysAgrees ==
  ASSUME NEW stage, EditionsAdvance(stage)
  PROVE  Spec => []TickNeverObjects
<1>1. ReplayInv(stage) => TickNeverObjects
  BY DEF ReplayInv, NoObjection
<1> QED
  BY <1>1, ReplayStart, ReplayStep, PTL DEF Spec

\* However many editions a reading missed, it contradicts no row either, as long as no person
\* moved a date and the body did not put off a text after its day: reduce_item never asks
\* _apply_state for a move it has to refuse.
THEOREM ReadingAlwaysAgrees ==
  ASSUME NEW stage, EditionsAdvance(stage), EndsAreFinal(stage)
  PROVE  Spec => []SourceNeverObjects
<1>1. ReplayInv(stage) => SourceNeverObjects
  BY DEF ReplayInv, NoObjection, Undisturbed, SourceNeverObjects
<1> QED
  BY <1>1, ReplayStart, ReplayStep, PTL DEF Spec
-------------------------------------------------------------------------------
\* No fixed statemap maps a status to the unknown state.
LEMMA FixedNotUnknown ==
  \A s \in DOMAIN FixedState : \A status \in DOMAIN FixedState[s] : FixedState[s][status] # Unknown
<1> DEFINE Names(f) == \A status \in DOMAIN f : f[status] # "unknown"
<1>1. /\ Names(FixedState.oeil) /\ Names(FixedState.hitrust) /\ Names(FixedState.cis)
      /\ Names(FixedState.fedramp) /\ Names(FixedState.ecfr) /\ Names(FixedState.uk_legislation)
  BY DEF FixedState, CellarFixes, OeilFixes, EdpbFixes, CppaFixes, LegiscanFixes,
    PciSscFixes, IsoFixes, NistCsrcFixes
<1>2. /\ Names(FixedState.standard_pages) /\ Names(FixedState.pci_docs)
      /\ Names(FixedState.nist_pubs) /\ Names(FixedState.aiuc) /\ Names(FixedState.edpb)
  BY DEF FixedState, CellarFixes, OeilFixes, EdpbFixes, CppaFixes, LegiscanFixes,
    PciSscFixes, IsoFixes, NistCsrcFixes
<1>3. /\ Names(FixedState.cppa) /\ Names(FixedState.pci_ssc) /\ Names(FixedState.nist_csrc)
      /\ Names(FixedState.legiscan) /\ Names(FixedState.cellar)
  BY DEF FixedState, CellarFixes, OeilFixes, EdpbFixes, CppaFixes, LegiscanFixes,
    PciSscFixes, IsoFixes, NistCsrcFixes
<1>4. Names(FixedState.iso_catalog)
  BY DEF FixedState, CellarFixes, OeilFixes, EdpbFixes, CppaFixes, LegiscanFixes,
    PciSscFixes, IsoFixes, NistCsrcFixes
<1>5. DOMAIN FixedState \subseteq
        {"oeil", "hitrust", "cis", "fedramp", "ecfr", "uk_legislation", "standard_pages", "pci_docs",
         "nist_pubs", "aiuc", "edpb", "cppa", "pci_ssc", "nist_csrc", "iso_catalog", "legiscan", "cellar"}
  BY DEF FixedState, CellarFixes, OeilFixes, EdpbFixes, CppaFixes, LegiscanFixes,
    PciSscFixes, IsoFixes, NistCsrcFixes
<1>6. ASSUME NEW s \in DOMAIN FixedState PROVE Names(FixedState[s])
  <2> HIDE DEF Names
  <2> QED
    BY <1>1, <1>2, <1>3, <1>4, <1>5, <1>6
<1> QED
  BY <1>6 DEF Unknown

\* A status that its statemap names stands for a state.
LEMMA MappedIsDerived ==
  ASSUME NEW s, NEW status, Mapped(s, status), NEW action, NEW dates, NEW day
  PROVE  ComputeState(s, status, action, dates, day) # Unknown
<1>1. \A u : u # Unknown => WindowState(dates, u, day) # Unknown
  BY DEF WindowState, Unknown
<1>2. \A d : UnlessAhead(d, day) # Unknown /\ OncePassed(d, day) # Unknown
  BY DEF UnlessAhead, OncePassed, Unknown
<1>3. s \in DOMAIN FixedState /\ status \in DOMAIN FixedState[s] => FixedState[s][status] # Unknown
  BY FixedNotUnknown
<1>4. \A u \in {"withdrawn", "effective", "comment_open", "proposed"} : u # Unknown
  BY DEF Unknown
<1> HIDE DEF Unknown
<1> QED
  BY <1>1, <1>2, <1>3, <1>4 DEF ComputeState, Mapped

\* What the fixed statemaps name.
LEMMA FixedNames ==
  /\ DOMAIN FixedState.edpb = {"adopted"} /\ DOMAIN FixedState.cppa = {"completed"}
  /\ DOMAIN FixedState.pci_ssc = {"publication"} /\ DOMAIN FixedState.nist_csrc = {"final"}
  /\ DOMAIN FixedState.ecfr = {"in_force"} /\ DOMAIN FixedState.standard_pages = {"current"}
  /\ DOMAIN FixedState.pci_docs = {"standard"} /\ DOMAIN FixedState.cis = {"release"}
  /\ DOMAIN FixedState.fedramp = {"announcement"} /\ DOMAIN FixedState.legiscan = {"vetoed"}
  /\ DOMAIN FixedState.uk_legislation = {"in_force", "pending"}
  /\ DOMAIN FixedState.hitrust = {"release", "advisory"}
  /\ DOMAIN FixedState.aiuc = {"release", "scheduled"}
  /\ DOMAIN FixedState.cellar = {"proposal"} /\ "published" \in DOMAIN FixedState.iso_catalog
  /\ {"oeil", "nist_pubs", "iso_catalog", "edpb", "cppa", "pci_ssc", "nist_csrc", "ecfr",
      "standard_pages", "pci_docs", "cis", "fedramp", "legiscan", "uk_legislation", "hitrust",
      "aiuc", "cellar"} \subseteq DOMAIN FixedState
BY DEF FixedState, CellarFixes, OeilFixes, EdpbFixes, CppaFixes, LegiscanFixes,
    PciSscFixes, IsoFixes, NistCsrcFixes

\* An adapter gives a document a status its statemap names, or notes it as odd.
LEMMA ReadingsAreMapped ==
  ASSUME KnownWords, NEW s \in DOMAIN Editions, NEW d \in Editions[s], NEW day,
         NEW ni \in Normalize(s, d, day)
  PROVE  Mapped(s, ni.status) \/ ni.notes
<1>1. CASE s = "federal_register"
  <2>1. ni.status \in {"PRORULE", "RULE"}
    <3>1. ni.status = NativeType[d.type] /\ d.type \in DOMAIN NativeType
      BY <1>1 DEF Normalize, Only, Document, FederalRegister
    <3> QED
      BY <3>1 DEF NativeType
  <2> QED
    BY <1>1, <2>1, FixedNames DEF Mapped, IsProposal, IsFinalAct
<1>2. CASE s = "regulations_gov"
  <2>1. ni.status \in {"PRORULE", "RULE"}
    <3>1. ni.status = NativeType[d.type] /\ d.type \in DOMAIN NativeType
      BY <1>2 DEF Normalize, Only, Document, RegulationsGov
    <3> QED
      BY <3>1 DEF NativeType
  <2> QED
    BY <1>2, <2>1, FixedNames DEF Mapped, IsProposal, IsFinalAct
<1>3. CASE s = "cellar"
  <2>1. ni.status \in {"act", "proposal"}
    BY <1>3 DEF Normalize, Only, Document, Cellar
  <2> QED
    BY <1>3, <2>1, FixedNames DEF Mapped, IsFinalAct
<1>4. CASE s = "have_your_say"
  <2>1. ni.status \in {"initiative"}
    BY <1>4 DEF Normalize, Only, Document, HaveYourSay
  <2> QED
    BY <1>4, <2>1, FixedNames DEF Mapped, IsProposal
<1>5. CASE s = "legiscan"
  <2>1. ni.status \in {"passed", "vetoed"}
    <3>1. ni.status = BillStatus[d.status] /\ d.status \in DOMAIN BillStatus
      BY <1>5 DEF Normalize, Only, Document, Legiscan
    <3> QED
      BY <3>1 DEF BillStatus
  <2> QED
    BY <1>5, <2>1, FixedNames DEF Mapped
<1>6. CASE s = "edpb"
  <2>1. ni.status \in {"consultation", "adopted"}
    BY <1>6 DEF Normalize, Only, Document, Edpb
  <2> QED
    BY <1>6, <2>1, FixedNames DEF Mapped, IsConsultation
<1>7. CASE s = "esma"
  <2>1. ni.status \in {"consultation"}
    BY <1>7 DEF Normalize, Only, Document, Esma
  <2> QED
    BY <1>7, <2>1, FixedNames DEF Mapped, IsConsultation
<1>8. CASE s = "pci_ssc"
  <2>1. ni.status \in {"rfc", "publication"}
    BY <1>8 DEF Normalize, Only, Document, PciSsc
  <2> QED
    BY <1>8, <2>1, FixedNames DEF Mapped, IsConsultation
<1>9. CASE s = "aicpa"
  <2>1. ni.status \in {"exposure_draft"}
    BY <1>9 DEF Normalize, Only, Document, Aicpa
  <2> QED
    BY <1>9, <2>1, FixedNames DEF Mapped, IsProposal
<1>10. CASE s = "nist_csrc"
  <2>1. ni.status \in {"draft", "final"}
    BY <1>10 DEF Normalize, Only, Document, NistCsrc
  <2> QED
    BY <1>10, <2>1, FixedNames DEF Mapped, IsConsultation
<1>11. CASE s = "ecfr"
  <2>1. ni.status \in {"in_force"}
    BY <1>11 DEF Normalize, Only, Document, Ecfr
  <2> QED
    BY <1>11, <2>1, FixedNames DEF Mapped
<1>12. CASE s = "uk_legislation"
  <2>1. ni.status \in {"in_force", "pending"}
    BY <1>12 DEF Normalize, Only, Document, UkLegislation
  <2> QED
    BY <1>12, <2>1, FixedNames DEF Mapped
<1>13. CASE s = "standard_pages"
  <2>1. ni.status \in {"current"}
    BY <1>13 DEF Normalize, Only, Document, StandardPages
  <2> QED
    BY <1>13, <2>1, FixedNames DEF Mapped
<1>14. CASE s = "pci_docs"
  <2>1. ni.status \in {"standard"}
    BY <1>14 DEF Normalize, Only, Document, PciDocs
  <2> QED
    BY <1>14, <2>1, FixedNames DEF Mapped
<1>15. CASE s = "cis"
  <2>1. ni.status \in {"release"}
    BY <1>15 DEF Normalize, Only, Document, Cis
  <2> QED
    BY <1>15, <2>1, FixedNames DEF Mapped
<1>16. CASE s = "hitrust"
  <2>1. ni.status \in {"release", "advisory"}
    BY <1>16 DEF Normalize, Only, Document, Hitrust
  <2> QED
    BY <1>16, <2>1, FixedNames DEF Mapped
<1>17. CASE s = "fedramp"
  <2>1. ni.status \in {"announcement"}
    BY <1>17 DEF Normalize, Only, Document, Fedramp
  <2> QED
    BY <1>17, <2>1, FixedNames DEF Mapped
<1>18. CASE s = "aiuc"
  <2>1. ni.status \in {"release", "scheduled"}
    BY <1>18 DEF Normalize, Only, Document, Aiuc
  <2> QED
    BY <1>18, <2>1, FixedNames DEF Mapped
<1>19. CASE s = "curated"
  <2>1. ni.status \in {"timeline"}
    BY <1>19 DEF Normalize, Only, Document, Timeline
  <2> QED
    BY <1>19, <2>1, FixedNames DEF Mapped
<1>20. CASE s = "oeil"
  <2>1. ni \in Oeil(d) /\ d.stage \in DOMAIN FixedState.oeil \cup {Blank}
    BY <1>20 DEF Normalize, KnownWords
  <2>2. d.stage = Blank => ni.notes = (d.stage = Blank)
    BY <2>1 DEF Oeil, Document
  <2>3. d.stage # Blank => ni.status = d.stage
    BY <2>1 DEF Oeil, Document
  <2> QED
    BY <1>20, <2>1, <2>2, <2>3, FixedNames DEF Mapped
<1>21. CASE s = "nist_pubs"
  <2>1. ni.status = d.status /\ d.status \in DOMAIN FixedState.nist_pubs
    BY <1>21 DEF Normalize, KnownWords, Only, Document, NistPubs
  <2> QED
    BY <1>21, <2>1, FixedNames DEF Mapped
<1>22. CASE s = "iso_catalog"
  <2>1. d.status \in DOMAIN FixedState.iso_catalog \cup {Blank}
    BY <1>22 DEF KnownWords
  <2>2. ni.status = IF d.status = Blank THEN "published" ELSE d.status
    BY <1>22 DEF Normalize, Only, Document, IsoCatalog
  <2> QED
    BY <1>22, <2>1, <2>2, FixedNames DEF Mapped
<1>23. CASE s = "eba"
  <2>1. ni.status = "consultation" \/ ni.notes = TRUE
    BY <1>23 DEF Normalize, Only, Document, Eba, Sentinel
  <2> QED
    BY <1>23, <2>1 DEF Mapped, IsConsultation
<1>24. CASE s = "cppa"
  <2>1. ni.status \in {"proposed", "completed"} \/ ni.notes = TRUE
    <3>1. CASE ~ d.recognised
      BY <1>24, <3>1 DEF Normalize, Document, Cppa, Sentinel
    <3>2. CASE d.recognised
      <4>1. ni.status = SectionStatus[d.section] /\ d.section \in DOMAIN SectionStatus
        BY <1>24, <3>2 DEF Normalize, Only, Document, Cppa
      <4> QED
        BY <4>1 DEF SectionStatus
    <3> QED
      BY <3>1, <3>2
  <2> QED
    BY <1>24, <2>1, FixedNames DEF Mapped, IsConsultation
<1> QED
  BY <1>1, <1>2, <1>3, <1>4, <1>5, <1>6, <1>7, <1>8, <1>9, <1>10, <1>11, <1>12, <1>13, <1>14,
     <1>15, <1>16, <1>17, <1>18, <1>19, <1>20, <1>21, <1>22, <1>23, <1>24, ReplayAssumption
  DEF Registered

\* A replay stays with one source and the editions of its document.
LEMMA EditionsStand ==
  Spec => [](source \in DOMAIN Editions /\ doc \in Editions[source])
<1> DEFINE Stands == source \in DOMAIN Editions /\ doc \in Editions[source]
<1>1. Init => Stands
  BY DEF Init
<1>2. Stands /\ [Next]_vars => Stands'
  BY DEF Next, Publish, ReadSource, Tick, NewDay, AssertDate, vars
<1> QED
  BY <1>1, <1>2, PTL DEF Spec

\* On every day and for every edition, what normalize hands on as a status is one the
\* source's statemap names, or the reading was noted as odd: no reading of any of the 24
\* sources ends in the unknown-status anomaly by a slip between adapter and statemap.
THEOREM StatusesStayKnown ==
  ASSUME KnownWords
  PROVE  Spec => []StatusesAreKnown
<1>1. source \in DOMAIN Editions /\ doc \in Editions[source] => StatusesAreKnown
  <2> SUFFICES ASSUME source \in DOMAIN Editions, doc \in Editions[source],
                      NEW ni \in Normalize(source, doc, today)
               PROVE  Recognised(ni) \/ ni.notes
    BY DEF StatusesAreKnown
  <2>1. Readable(source, ni)
    BY ReplayAssumption, ReadingIsReadable
  <2>2. Merged(NoRow, ni).status = ni.status
    <3>1. DOMAIN NoRow = RowFields
      BY DEF NoRow, RowFields
    <3>2. source \in Registered
      BY ReplayAssumption
    <3>3. Read(source, Merged(NoRow, ni), NoRow, ni)
      BY <2>1, <3>1, <3>2, MergedFields
    <3> QED
      BY <3>3 DEF Read
  <2>3. CASE Mapped(source, ni.status)
    BY <2>2, <2>3, MappedIsDerived DEF Recognised, Derived
  <2> QED
    BY <2>3, ReadingsAreMapped
<1> QED
  BY <1>1, EditionsStand, PTL
-------------------------------------------------------------------------------
\* A document of any source but two is known by one key, whatever its edition says.
LEMMA KeyIsOfName ==
  ASSUME NEW s \in Registered \ {"eba", "aiuc"}, NEW d, NEW e, SameDocument(s, d, e),
         NEW day, NEW ni \in Normalize(s, d, day), ni.status # "unknown",
         NEW then, NEW nj \in Normalize(s, e, then)
  PROVE  nj.key = ni.key \/ nj.status = "unknown"
<1>1. CASE s = "federal_register"
  <2>1. ni \in FederalRegister(d) /\ nj \in FederalRegister(e)
    BY <1>1 DEF Normalize
  <2>2. d.number = e.number
    BY <1>1 DEF SameDocument, Name
  <2>3. ASSUME NEW c, NEW nk \in FederalRegister(c) PROVE nk.key = <<"fr_doc_number", c.number>>
    BY DEF FederalRegister, Only, Document
  <2> QED
    BY <2>1, <2>2, <2>3
<1>2. CASE s = "regulations_gov"
  <2>1. ni \in RegulationsGov(d) /\ nj \in RegulationsGov(e)
    BY <1>2 DEF Normalize
  <2>2. d.id = e.id
    BY <1>2 DEF SameDocument, Name
  <2>3. \A c : \A nk \in RegulationsGov(c) : nk.key = <<"regsgov_doc", c.id>>
    BY DEF RegulationsGov, Only, Document
  <2> QED
    BY <2>1, <2>2, <2>3
<1>3. CASE s = "cellar"
  <2>1. ni \in Cellar(d) /\ nj \in Cellar(e)
    BY <1>3 DEF Normalize
  <2>2. d.celex = e.celex
    BY <1>3 DEF SameDocument, Name
  <2>3. \A c : \A nk \in Cellar(c) : nk.key = <<"celex", c.celex>>
    BY DEF Cellar, Only, Document
  <2> QED
    BY <2>1, <2>2, <2>3
<1>4. CASE s = "oeil"
  <2>1. ni \in Oeil(d) /\ nj \in Oeil(e)
    BY <1>4 DEF Normalize
  <2>2. d.reference = e.reference
    BY <1>4 DEF SameDocument, Name
  <2>3. \A c : \A nk \in Oeil(c) : nk.key = <<"oeil_procedure", c.reference>>
    BY DEF Oeil, Only, Document
  <2> QED
    BY <2>1, <2>2, <2>3
<1>5. CASE s = "have_your_say"
  <2>1. ni \in HaveYourSay(d) /\ nj \in HaveYourSay(e)
    BY <1>5 DEF Normalize
  <2>2. d.id = e.id
    BY <1>5 DEF SameDocument, Name
  <2>3. \A c : \A nk \in HaveYourSay(c) : nk.key = <<"hys_initiative", c.id>>
    BY DEF HaveYourSay, Only, Document
  <2> QED
    BY <2>1, <2>2, <2>3
<1>6. CASE s = "legiscan"
  <2>1. ni \in Legiscan(d) /\ nj \in Legiscan(e)
    BY <1>6 DEF Normalize
  <2>2. d.bill = e.bill
    BY <1>6 DEF SameDocument, Name
  <2>3. \A c : \A nk \in Legiscan(c) : nk.key = <<"legiscan_bill", c.bill>>
    BY DEF Legiscan, Only, Document
  <2> QED
    BY <2>1, <2>2, <2>3
<1>7. CASE s = "edpb"
  <2>1. ni \in Edpb(d) /\ nj \in Edpb(e)
    BY <1>7 DEF Normalize
  <2>2. d.link = e.link
    BY <1>7 DEF SameDocument, Name
  <2>3. \A c : \A nk \in Edpb(c) : nk.key = <<"edpb_item", c.link>>
    BY DEF Edpb, Only, Document
  <2> QED
    BY <2>1, <2>2, <2>3
<1>8. CASE s = "esma"
  <2>1. ni \in Esma(d) /\ nj \in Esma(e)
    BY <1>8 DEF Normalize
  <2>2. d.link = e.link
    BY <1>8 DEF SameDocument, Name
  <2>3. \A c : \A nk \in Esma(c) : nk.key = <<"esma_item", c.link>>
    BY DEF Esma, Only, Document
  <2> QED
    BY <2>1, <2>2, <2>3
<1>9. CASE s = "cppa"
  <2>1. ni \in Cppa(d) /\ nj \in Cppa(e)
    BY <1>9 DEF Normalize
  <2>2. d.page = e.page
    BY <1>9 DEF SameDocument, Name
  <2>3. \A c : \A nk \in Cppa(c) :
          nk.key = <<"cppa_page", c.page>> \/ (nk.notes /\ nk.status = "unknown")
    BY DEF Cppa, Only, Document, Sentinel
  <2> QED
    BY <2>1, <2>2, <2>3
<1>10. CASE s = "pci_ssc"
  <2>1. ni \in PciSsc(d) /\ nj \in PciSsc(e)
    BY <1>10 DEF Normalize
  <2>2. d.subject = e.subject /\ ("request for comments" \in d.words <=> "request for comments" \in e.words)
    BY <1>10 DEF SameDocument, Name
  <2>3. ASSUME NEW c, NEW nk \in PciSsc(c)
        PROVE  nk.key = <<IF "request for comments" \in c.words THEN "pci_doc" ELSE "pci_pub", c.subject>>
    <3>1. CASE "request for comments" \in c.words
      BY <2>3, <3>1 DEF PciSsc, Document
    <3>2. CASE "request for comments" \notin c.words
      BY <2>3, <3>2 DEF PciSsc, Only, Document
    <3> QED
      BY <3>1, <3>2
  <2> QED
    BY <2>1, <2>2, <2>3
<1>11. CASE s = "aicpa"
  <2>1. ni \in Aicpa(d) /\ nj \in Aicpa(e)
    BY <1>11 DEF Normalize
  <2>2. d.page = e.page
    BY <1>11 DEF SameDocument, Name
  <2>3. \A c : \A nk \in Aicpa(c) : nk.key = <<"aicpa_page", c.page>>
    BY DEF Aicpa, Only, Document
  <2> QED
    BY <2>1, <2>2, <2>3
<1>12. CASE s = "nist_csrc"
  <2>1. ni \in NistCsrc(d) /\ nj \in NistCsrc(e)
    BY <1>12 DEF Normalize
  <2>2. d.base = e.base /\ d.address = e.address /\ (d.stage \in KnownStages <=> e.stage \in KnownStages)
    BY <1>12 DEF SameDocument, Name
  <2>3. NistKey(d) = NistKey(e)
    BY <2>2 DEF NistKey
  <2>4. \A c : \A nk \in NistCsrc(c) : nk.key = NistKey(c)
    BY DEF NistCsrc, Document
  <2> QED
    BY <2>1, <2>3, <2>4
<1>13. CASE s = "nist_pubs"
  <2>1. ni \in NistPubs(d) /\ nj \in NistPubs(e)
    BY <1>13 DEF Normalize
  <2>2. d.page = e.page
    BY <1>13 DEF SameDocument, Name
  <2>3. \A c : \A nk \in NistPubs(c) : nk.key = <<"nist_pub", c.page>>
    BY DEF NistPubs, Only, Document
  <2> QED
    BY <2>1, <2>2, <2>3
<1>14. CASE s = "iso_catalog"
  <2>1. ni \in IsoCatalog(d) /\ nj \in IsoCatalog(e)
    BY <1>14 DEF Normalize
  <2>2. d.kind = e.kind /\ d.id = e.id /\ d.address = e.address
    BY <1>14 DEF SameDocument, Name
  <2>3. \A c : \A nk \in IsoCatalog(c) :
          nk.key = IF c.kind = "supplement" THEN <<"iec_pub", c.id>> ELSE <<"iso_project", c.address>>
    BY DEF IsoCatalog, Only, Document
  <2> QED
    BY <2>1, <2>2, <2>3
<1>15. CASE s = "ecfr"
  <2>1. ni \in Ecfr(d) /\ nj \in Ecfr(e)
    BY <1>15 DEF Normalize
  <2>2. d.rule = e.rule
    BY <1>15 DEF SameDocument, Name
  <2>3. \A c : \A nk \in Ecfr(c) : nk.key = <<"cfr_target", c.rule>>
    BY DEF Ecfr, Only, Document
  <2> QED
    BY <2>1, <2>2, <2>3
<1>16. CASE s = "uk_legislation"
  <2>1. ni \in UkLegislation(d, day) /\ nj \in UkLegislation(e, then)
    BY <1>16 DEF Normalize
  <2>2. d.instrument = e.instrument
    BY <1>16 DEF SameDocument, Name
  <2>3. \A c, x : \A nk \in UkLegislation(c, x) : nk.key = <<"uk_effect", c.instrument>>
    BY DEF UkLegislation, Only, Document
  <2> QED
    BY <2>1, <2>2, <2>3
<1>17. CASE s = "standard_pages"
  <2>1. ni \in StandardPages(d) /\ nj \in StandardPages(e)
    BY <1>17 DEF Normalize
  <2>2. d.page = e.page
    BY <1>17 DEF SameDocument, Name
  <2>3. \A c : \A nk \in StandardPages(c) : nk.key = <<"watched_page", c.page>>
    BY DEF StandardPages, Only, Document
  <2> QED
    BY <2>1, <2>2, <2>3
<1>18. CASE s = "pci_docs"
  <2>1. ni \in PciDocs(d) /\ nj \in PciDocs(e)
    BY <1>18 DEF Normalize
  <2>2. d.document = e.document
    BY <1>18 DEF SameDocument, Name
  <2>3. \A c : \A nk \in PciDocs(c) : nk.key = <<"pci_document", c.document>>
    BY DEF PciDocs, Only, Document
  <2> QED
    BY <2>1, <2>2, <2>3
<1>19. CASE s = "cis"
  <2>1. ni \in Cis(d) /\ nj \in Cis(e)
    BY <1>19 DEF Normalize
  <2>2. d.names = e.names
    BY <1>19 DEF SameDocument, Name
  <2>3. \A c : \A nk \in Cis(c) : nk.key = <<"cis_release", c.names>>
    BY DEF Cis, Only, Document
  <2> QED
    BY <2>1, <2>2, <2>3
<1>20. CASE s = "hitrust"
  <2>1. ni \in Hitrust(d) /\ nj \in Hitrust(e)
    BY <1>20 DEF Normalize
  <2>2. d.section = e.section /\ d.words = e.words /\ d.names = e.names /\ d.id = e.id
    BY <1>20 DEF SameDocument, Name
  <2>3. \A c : \A nk \in Hitrust(c) :
          nk.key = IF c.section \in {"press-releases", "blog"} \/ "release" \in c.words
                   THEN <<"hitrust_release", c.names>> ELSE <<"hitrust_advisory", c.id>>
    BY DEF Hitrust, Only, Document
  <2> QED
    BY <2>1, <2>2, <2>3
<1>21. CASE s = "fedramp"
  <2>1. ni \in Fedramp(d) /\ nj \in Fedramp(e)
    BY <1>21 DEF Normalize
  <2>2. d.slug = e.slug
    BY <1>21 DEF SameDocument, Name
  <2>3. \A c : \A nk \in Fedramp(c) : nk.key = <<"fedramp_announcement", c.slug>>
    BY DEF Fedramp, Only, Document
  <2> QED
    BY <2>1, <2>2, <2>3
<1>22. CASE s = "curated"
  <2>1. ni \in Timeline(d) /\ nj \in Timeline(e)
    BY <1>22 DEF Normalize
  <2>2. d.name = e.name
    BY <1>22 DEF SameDocument, Name
  <2>3. \A c : \A nk \in Timeline(c) : nk.key = <<"curated_timeline", c.name>>
    BY DEF Timeline, Only, Document
  <2> QED
    BY <2>1, <2>2, <2>3
<1> QED
  BY <1>1, <1>2, <1>3, <1>4, <1>5, <1>6, <1>7, <1>8, <1>9, <1>10, <1>11, <1>12, <1>13, <1>14,
     <1>15, <1>16, <1>17, <1>18, <1>19, <1>20, <1>21, <1>22 DEF Registered

\* A release stays on the changelog, scheduled first and then released.
LEMMA ReleaseIsKept ==
  ASSUME NEW d, NEW e, SameDocument("aiuc", d, e), NEW ni \in Aiuc(d)
  PROVE  \E nj \in Aiuc(e) : nj.key = ni.key
<1> DEFINE listed(c) == {<<"aiuc_release", x>> : x \in Releases(c)}
<1>1. ASSUME NEW c, NEW nj \in Aiuc(c) PROVE nj.key \in listed(c)
  <2> DEFINE released == c.history \cup ({c.current} \ {NoDate})
             item(day, track, status, type) ==
               [Document("aiuc", AiucKey(day, status), track, status)
                  EXCEPT !.obligation = "aiuc-1", !.dates = Dated({On(type, day)})]
             past(x) == [item(x, "final", "release", "effective") EXCEPT !.version = x]
             planned(x) == item(x, "proposed", "scheduled", "projected_final")
  <2>2. \A x : past(x).key = <<"aiuc_release", x>> /\ planned(x).key = <<"aiuc_release", x>>
    BY DEF AiucKey, Document
  <2>3. nj \in {past(x) : x \in released}
              \cup {planned(x) : x \in {c.next} \ (released \cup {NoDate})}
    BY DEF Aiuc
  <2> HIDE DEF past, planned
  <2>4. \E x \in released \cup ({c.next} \ {NoDate}) : nj = past(x) \/ nj = planned(x)
    BY <2>3
  <2>1. PICK x \in Releases(c) : nj.key = <<"aiuc_release", x>>
    BY <2>2, <2>4 DEF Releases
  <2> QED
    BY <2>1
<1>2. ASSUME NEW x \in Releases(e) PROVE \E nj \in Aiuc(e) : nj.key = <<"aiuc_release", x>>
  <2> DEFINE released == e.history \cup ({e.current} \ {NoDate})
             item(day, track, status, type) ==
               [Document("aiuc", AiucKey(day, status), track, status)
                  EXCEPT !.obligation = "aiuc-1", !.dates = Dated({On(type, day)})]
             past == [item(x, "final", "release", "effective") EXCEPT !.version = x]
             planned == item(x, "proposed", "scheduled", "projected_final")
  <2>1. past.key = <<"aiuc_release", x>> /\ planned.key = <<"aiuc_release", x>>
    BY DEF AiucKey, Document
  <2>2. x \in released \/ x \in {e.next} \ (released \cup {NoDate})
    BY DEF Releases
  <2>3. past \in Aiuc(e) \/ planned \in Aiuc(e)
    BY <2>2 DEF Aiuc
  <2> QED
    BY <2>1, <2>3
<1> HIDE DEF listed
<1>3. ni.key \in listed(d)
  BY <1>1
<1>4. PICK x \in Releases(d) : ni.key = <<"aiuc_release", x>>
  BY <1>3 DEF listed
<1>5. x \in Releases(e)
  BY <1>4 DEF SameDocument
<1> QED
  BY <1>2, <1>4, <1>5

\* A consultation is known by its page, and by its paper once that has a reference.
LEMMA PaperKeys ==
  ASSUME NEW d, NEW ni \in Eba(d)
  PROVE  /\ \/ ni.notes /\ ni.status = "unknown"
            \/ /\ <<"eba_page", d.page>> \in {ni.key} \cup ni.keys /\ ni.track = "proposed"
               /\ ni.key \in {<<"eba_page", d.page>>, <<"eba_cp", d.reference>>}
         /\ \A k \in {ni.key} \cup ni.keys : k[1] = "eba_cp" =>
              d.reference # Blank /\ k = <<"eba_cp", d.reference>>
<1> DEFINE page == <<"eba_page", d.page>>
           paper == <<"eba_cp", d.reference>>
           external == IF d.reference = Blank THEN page ELSE paper
<1>1. CASE ~ d.listed
  <2>1. /\ ni.key = <<"eba_page", "listing">> /\ ni.keys = {} /\ ni.track = "default"
        /\ ni.status = "unknown" /\ ni.notes = TRUE
    BY <1>1 DEF Eba, Document, Sentinel
  <2>2. \A k \in {ni.key} \cup ni.keys : k[1] # "eba_cp"
    BY <2>1
  <2>3. ni.notes /\ ni.status = "unknown"
    BY <2>1, Zenon
  <2> QED
    BY <2>2, <2>3
<1>2. CASE d.listed
  <2>1. ni.key = external /\ ni.keys = EbaKeys(d) \ {external} /\ ni.track = "proposed"
    BY <1>2 DEF Eba, Document
  <2>2. {ni.key} \cup ni.keys = EbaKeys(d) /\ page \in EbaKeys(d)
    BY <2>1 DEF EbaKeys
  <2>3. \A k \in EbaKeys(d) : k[1] = "eba_cp" => d.reference # Blank /\ k = paper
    BY DEF EbaKeys
  <2> QED
    BY <2>1, <2>2, <2>3
<1> QED
  BY <1>1, <1>2

\* Editions of one document are one document.
LEMMA SameIsTransitive ==
  ASSUME NEW s, NEW c, NEW d, NEW e, SameDocument(s, c, d), SameDocument(s, d, e)
  PROVE  SameDocument(s, c, e)
BY DEF SameDocument

\* Every edition is one of its own document.
LEMMA SameIsReflexive ==
  ASSUME NEW s, NEW d
  PROVE  SameDocument(s, d, d)
BY DEF SameDocument

\* The row knows its document by the keys of a reading of it, and by no other paper's.
KnowsDocument(r, d, e, day, ni) ==
  /\ ni \in Normalize(source, e, day) /\ SameDocument(source, e, d)
  /\ {ni.key} \cup ni.keys \subseteq r.keys
  /\ r.status = ni.status /\ r.track = ni.track

\* The inductive invariant of an item that is kept.
KeepsInv ==
  /\ source \in DOMAIN Editions /\ doc \in Editions[source] /\ DOMAIN row = RowFields
  /\ row.held /\ row.status # "unknown" =>
       \E e \in Editions[source] : \E day, ni : KnowsDocument(row, doc, e, day, ni)
  /\ source = "eba" => \A k \in row.keys : k[1] = "eba_cp" =>
       doc.reference # Blank /\ k = <<"eba_cp", doc.reference>>

\* What a reading leaves of the names of a row.
LEMMA ReadNames ==
  ASSUME NEW r, DOMAIN r = RowFields, NEW ni, NEW day
  PROVE  LET u == Updated(r, ni, day)
         IN  /\ DOMAIN u = RowFields /\ u.keys = r.keys \cup {ni.key} \cup ni.keys
             /\ u.status = ni.status /\ u.track = ni.track
<1> DEFINE m == Merged(r, ni)
<1>1. /\ DOMAIN m = RowFields /\ m.keys = r.keys \cup {ni.key} \cup ni.keys
      /\ m.status = ni.status /\ m.track = ni.track
  BY DEF Merged, RowFields
<1>2. Updated(r, ni, day) = [m EXCEPT !.state = Settled(@, Derived(m, day))]
  BY DEF Updated
<1> HIDE DEF m
<1> QED
  BY <1>1, <1>2 DEF RowFields

\* The names of the row that a reading creates.
LEMMA CreatedNames ==
  ASSUME NEW ni, DOMAIN ni = DocumentFields, NEW day
  PROVE  LET u == Created(ni, day)
         IN  /\ DOMAIN u = RowFields /\ u.keys = {ni.key} \cup ni.keys
             /\ u.status = ni.status /\ u.track = ni.track
<1> DEFINE nj == [ni EXCEPT !.retract = {}]
           m == Merged(NoRow, nj)
<1>1. nj.key = ni.key /\ nj.keys = ni.keys /\ nj.status = ni.status /\ nj.track = ni.track
  BY DEF DocumentFields
<1> HIDE DEF nj
<1>2. /\ DOMAIN m = RowFields /\ m.keys = {ni.key} \cup ni.keys
      /\ m.status = ni.status /\ m.track = ni.track
  BY <1>1 DEF Merged, RowFields, NoRow
<1>3. Created(ni, day) = [m EXCEPT !.state = IF Derived(m, day) = Unknown THEN "proposed" ELSE Derived(m, day)]
  BY DEF Created, nj
<1> HIDE DEF m
<1> QED
  BY <1>2, <1>3 DEF RowFields

\* A row that a reading wrote knows the document it was read from.
LEMMA ReadKnows ==
  ASSUME KeepsInv, ReadSource
  PROVE  KeepsInv'
<1>0. source' = source /\ doc' = doc /\ today' = today
  BY DEF ReadSource
<1>1. ASSUME NEW ni \in Normalize(source, doc, today), DOMAIN row' = RowFields,
             row'.keys = row.keys \cup {ni.key} \cup ni.keys \/ row'.keys = {ni.key} \cup ni.keys,
             row'.status = ni.status, row'.track = ni.track
      PROVE  KeepsInv'
  <2>1. KnowsDocument(row, doc, doc, today, ni)'
    <3>1. SameDocument(source, doc, doc)
      BY SameIsReflexive
    <3> QED
      BY <1>0, <1>1, <3>1 DEF KnowsDocument
  <2>2. ASSUME source = "eba", NEW k \in row'.keys, k[1] = "eba_cp"
        PROVE  doc.reference # Blank /\ k = <<"eba_cp", doc.reference>>
    <3>1. ni \in Eba(doc)
      BY <1>1, <2>2 DEF Normalize
    <3> QED
      BY <1>1, <2>2, <3>1, PaperKeys DEF KeepsInv
  <2> QED
    BY <1>0, <1>1, <2>1, <2>2 DEF KeepsInv
<1>2. CASE ~ row.held
  <2>1. PICK ni \in Normalize(source, doc, today) : row' = Created(ni, today)
    BY <1>2 DEF ReadSource
  <2>2. DOMAIN ni = DocumentFields
    BY ReplayAssumption, ReadingIsReadable DEF KeepsInv, Readable
  <2> QED
    BY <1>1, <2>1, <2>2, CreatedNames
<1>3. CASE row.held /\ Found(row, doc, today) = {}
  <2>1. row' = row
    BY <1>3 DEF ReadSource, Reread
  <2> QED
    BY <1>0, <2>1 DEF KeepsInv, KnowsDocument
<1>4. CASE row.held /\ Found(row, doc, today) # {}
  <2>1. PICK ni \in Found(row, doc, today) : row' = Updated(row, ni, today)
    BY <1>4 DEF ReadSource, Reread
  <2> QED
    BY <1>1, <2>1, ReadNames DEF Found, KeepsInv
<1> QED
  BY <1>2, <1>3, <1>4

\* Another edition of its document does not estrange a row.
LEMMA PublishKnows ==
  ASSUME NamesAreKept, KeepsInv, NEW e \in Editions[source], Publish(e)
  PROVE  KeepsInv'
<1>1. source' = source /\ row' = row /\ doc' = e /\ SameDocument(source, doc, e)
  BY DEF Publish, NamesAreKept, KeepsInv
<1>2. ASSUME NEW c \in Editions[source], NEW day, NEW ni, KnowsDocument(row, doc, c, day, ni)
      PROVE  KnowsDocument(row, doc, c, day, ni)'
  BY <1>1, <1>2, SameIsTransitive DEF KnowsDocument
<1>3. source = "eba" => doc.reference \in {Blank, e.reference}
  BY <1>1 DEF SameDocument
<1> QED
  BY <1>1, <1>2, <1>3 DEF KeepsInv

\* Nor does anything else.
LEMMA KeepsStep ==
  ASSUME NamesAreKept, KeepsInv, [Next]_vars
  PROVE  KeepsInv'
<1>1. ASSUME source' = source, doc' = doc, DOMAIN row' = RowFields, row'.held = row.held,
             row'.keys = row.keys, row'.status = row.status, row'.track = row.track
      PROVE  KeepsInv'
  BY <1>1 DEF KeepsInv, KnowsDocument
<1>2. CASE Tick
  BY <1>1, <1>2 DEF Tick, Ticked, KeepsInv, RowFields
<1>3. ASSUME NEW slot \in Stated[source], NEW day \in 1..MaxDay, AssertDate(slot, day)
      PROVE  KeepsInv'
  BY <1>1, <1>3 DEF AssertDate, KeepsInv, RowFields
<1>4. CASE NewDay
  BY <1>1, <1>4 DEF NewDay, KeepsInv
<1>5. CASE UNCHANGED vars
  BY <1>1, <1>5 DEF vars, KeepsInv
<1> QED
  BY <1>2, <1>3, <1>4, <1>5, ReadKnows, PublishKnows DEF Next

\* _find_item finds, for any edition of any source's documents, the row an earlier edition
\* made: keys depend on what names a document and on nothing that changes, and where they do
\* change (a paper that gets its reference), the row is found by the key it shares.
THEOREM DocumentStaysFound ==
  ASSUME NamesAreKept
  PROVE  Spec => []DocumentKeepsItsItem
<1>1. Init => KeepsInv
  BY DEF Init, KeepsInv, NoRow, RowFields
<1>2. KeepsInv => DocumentKeepsItsItem
  <2> SUFFICES ASSUME KeepsInv, row.held, row.status # "unknown",
                      NEW nj \in Normalize(source, doc, today)
               PROVE  \E nk \in Normalize(source, doc, today) : Finds(row, nk) \/ nk.status = "unknown"
    BY DEF DocumentKeepsItsItem
  <2>0. PICK e \in Editions[source] : \E day, ni : KnowsDocument(row, doc, e, day, ni)
    BY DEF KeepsInv
  <2>1. PICK day, ni : KnowsDocument(row, doc, e, day, ni)
    BY <2>0
  <2>2. /\ ni \in Normalize(source, e, day) /\ SameDocument(source, e, doc)
        /\ {ni.key} \cup ni.keys \subseteq row.keys /\ ni.status # "unknown"
        /\ row.track = ni.track /\ source \in Registered
    BY <2>1, ReplayAssumption DEF KnowsDocument, KeepsInv
  <2>3. CASE source = "aiuc"
    <3>1. ni \in Aiuc(e) /\ SameDocument("aiuc", e, doc)
      BY <2>2, <2>3 DEF Normalize
    <3>2. PICK nk \in Aiuc(doc) : nk.key = ni.key
      BY <3>1, ReleaseIsKept
    <3>3. nk \in Normalize(source, doc, today)
      BY <2>3, <3>2 DEF Normalize
    <3> QED
      BY <2>2, <3>2, <3>3 DEF Finds
  <2>4. CASE source = "eba"
    <3>1. ni \in Eba(e) /\ nj \in Eba(doc) /\ e.page = doc.page
      BY <2>2, <2>4 DEF Normalize, SameDocument, Name
    <3>2. <<"eba_page", doc.page>> \in row.keys /\ row.track = "proposed"
      BY <2>2, <3>1, PaperKeys
    <3>3. CASE nj.status = "unknown"
      BY <3>3
    <3>4. CASE nj.status # "unknown"
      <4>1. /\ <<"eba_page", doc.page>> \in {nj.key} \cup nj.keys /\ nj.track = "proposed"
            /\ nj.key \in {<<"eba_page", doc.page>>, <<"eba_cp", doc.reference>>}
        BY <3>1, <3>4, PaperKeys
      <4>2. nj.key \notin row.keys => \A k \in row.keys : k[1] # nj.key[1]
        BY <2>4, <3>2, <4>1 DEF KeepsInv
      <4> QED
        BY <3>2, <4>1, <4>2 DEF Finds
    <3> QED
      BY <3>3, <3>4
  <2>5. CASE source \notin {"eba", "aiuc"}
    BY <2>2, <2>5, KeyIsOfName DEF Finds
  <2> QED
    BY <2>3, <2>4, <2>5
<1> QED
  BY <1>1, <1>2, KeepsStep, PTL DEF Spec
-------------------------------------------------------------------------------
\* The slots a statemap looks at to place a document of a status.
Matters(s, status, slot) ==
  \/ (IsConsultation(s, status) \/ IsProposal(s, status)) /\ slot = <<"comment_close", NoLabel>>
  \/ IsFinalAct(s, status) /\ slot = <<InForceDate[s], NoLabel>>
  \/ s = "legiscan" /\ slot = <<"effective", NoLabel>>
  \/ s = "curated" /\ slot[1] \in InForceTypes
  \/ s = "have_your_say" /\ slot[1] = "adopted"

\* Two date maps that a statemap cannot tell apart.
Alike(s, status, dates, others) ==
  \A slot : Matters(s, status, slot) =>
    /\ slot \in DOMAIN dates <=> slot \in DOMAIN others
    /\ slot \in DOMAIN dates => dates[slot] = others[slot]

\* A statemap goes by the slots that matter to it.
LEMMA AlikeDerived ==
  ASSUME NEW s, NEW status, NEW dates, NEW others, Alike(s, status, dates, others),
         NEW a, NEW b, s = "federal_register" => a = b, NEW day
  PROVE  ComputeState(s, status, a, dates, day) = ComputeState(s, status, b, others, day)
<1>1. ASSUME NEW type, Matters(s, status, <<type, NoLabel>>)
      PROVE  Get(dates, type) = Get(others, type)
  BY <1>1 DEF Alike, Get
<1>2. ASSUME NEW types, \A slot : slot[1] \in types => Matters(s, status, slot)
      PROVE  OfTypes(dates, types) = OfTypes(others, types)
  <2>1. OfTypes(dates, types) \subseteq OfTypes(others, types)
    BY <1>2 DEF Alike, OfTypes
  <2>2. OfTypes(others, types) \subseteq OfTypes(dates, types)
    BY <1>2 DEF Alike, OfTypes
  <2> QED
    BY <2>1, <2>2
<1>3. s = "have_your_say" => Adopted(dates, day) = Adopted(others, day)
  <2>1. s = "have_your_say" => OfTypes(dates, {"adopted"}) = OfTypes(others, {"adopted"})
    BY <1>2 DEF Matters
  <2> QED
    BY <2>1 DEF Adopted
<1>4. IsConsultation(s, status) \/ IsProposal(s, status) =>
        \A u : WindowState(dates, u, day) = WindowState(others, u, day)
  <2>1. IsConsultation(s, status) \/ IsProposal(s, status) =>
          Get(dates, "comment_close") = Get(others, "comment_close")
    BY <1>1 DEF Matters
  <2> QED
    BY <2>1 DEF WindowState
<1>5. IsFinalAct(s, status) => Get(dates, InForceDate[s]) = Get(others, InForceDate[s])
  BY <1>1 DEF Matters
<1>6. s = "legiscan" => Get(dates, "effective") = Get(others, "effective")
  BY <1>1 DEF Matters
<1>7. s = "curated" => OfTypes(dates, {"entry_into_force", "effective", "application"})
                         = OfTypes(others, {"entry_into_force", "effective", "application"})
  BY <1>2 DEF Matters, InForceTypes
<1> HIDE DEF InForceDate
<1>8. CASE s = "federal_register"
  BY <1>4, <1>5, <1>8 DEF ComputeState
<1>9. CASE s = "have_your_say"
  BY <1>3, <1>4, <1>9 DEF ComputeState, IsProposal
<1>10. CASE s \notin {"federal_register", "have_your_say"}
  BY <1>4, <1>5, <1>6, <1>7, <1>10 DEF ComputeState
<1> QED
  BY <1>8, <1>9, <1>10

\* Whether a statemap knows a status does not depend on the day.
LEMMA UnknownOnAnyDay ==
  ASSUME NEW s, NEW status, NEW action, NEW dates, NEW day, NEW then,
         ComputeState(s, status, action, dates, day) = Unknown
  PROVE  ComputeState(s, status, action, dates, then) = Unknown
<1>1. ~ Mapped(s, status)
  BY MappedIsDerived
<1>2. ~ (s = "federal_register" /\ action = "withdraw")
  BY DEF ComputeState, Unknown
<1>3. s # "have_your_say"
  BY <1>1 DEF Mapped, IsProposal
<1> QED
  BY <1>1, <1>2, <1>3 DEF ComputeState, Mapped

\* What is in force stays in force, and what is withdrawn stays withdrawn, as days pass.
LEMMA EndsStand ==
  ASSUME NEW s, NEW status, NEW action, NEW dates, NEW day \in Nat, NEW then \in Nat, day <= then,
         \A slot \in DOMAIN dates : dates[slot] \in Nat,
         s = "have_your_say" => NoAdoption(dates),
         ComputeState(s, status, action, dates, day) \in {"effective", "withdrawn"}
  PROVE  ComputeState(s, status, action, dates, then) = ComputeState(s, status, action, dates, day)
<1> DEFINE to(d) == ComputeState(s, status, action, dates, d)
           withdraws == s = "federal_register" /\ action = "withdraw"
<1>1. \A d : ~ (s = "have_your_say" /\ Adopted(dates, d))
  BY DEF NoAdoption, Adopted, OfTypes
<1>2. \A u, d : u \in {"comment_open", "proposed"} => WindowState(dates, u, d) \notin {"effective", "withdrawn"}
  BY DEF WindowState
<1>3. \A type : Get(dates, type) \in Nat
  BY DEF Get, NoDate
<1>4. \A type : ~ (Get(dates, type) > day) => ~ (Get(dates, type) > then)
  BY <1>3
<1>5. \A types : \A d \in OfTypes(dates, types) : d \in Nat
  BY DEF OfTypes
<1>6. \A days : (\A d \in days : d \in Nat) /\ OncePassed(days, day) = "effective" => OncePassed(days, then) = "effective"
  BY DEF OncePassed
<1>7. \A d \in {Get(dates, "effective")} \ {NoDate} : d \in Nat
  BY <1>3
<1>8. CASE withdraws
  BY <1>8 DEF ComputeState
<1> DEFINE window == IsConsultation(s, status) \/ IsProposal(s, status)
<1>9. CASE ~ withdraws /\ window
  <2>1. to(day) \in {WindowState(dates, "comment_open", day), WindowState(dates, "proposed", day)}
    BY <1>1, <1>9 DEF ComputeState
  <2> QED
    BY <1>2, <2>1
<1>10. CASE ~ withdraws /\ ~ window /\ IsFinalAct(s, status)
  <2>1. \A d : to(d) = UnlessAhead(Get(dates, InForceDate[s]), d)
    BY <1>1, <1>10 DEF ComputeState
  <2>2. \A x : UnlessAhead(x, day) \in {"effective", "withdrawn"} /\ x \in Nat =>
                 UnlessAhead(x, then) = UnlessAhead(x, day)
    BY DEF UnlessAhead
  <2> QED
    BY <1>3, <2>1, <2>2
<1> DEFINE rest == ~ withdraws /\ ~ window /\ ~ IsFinalAct(s, status)
<1>11. CASE rest /\ s = "legiscan" /\ status = "passed"
  <2> DEFINE days == {Get(dates, "effective")} \ {NoDate}
  <2>1. \A d : to(d) = OncePassed(days, d)
    BY <1>1, <1>11 DEF ComputeState
  <2>2. OncePassed(days, day) = "effective"
    BY <2>1 DEF OncePassed
  <2> HIDE DEF days
  <2>3. OncePassed(days, then) = "effective"
    BY <1>6, <1>7, <2>2 DEF days
  <2> QED
    BY <2>1, <2>2, <2>3
<1>12. CASE rest /\ s = "curated" /\ status = "timeline"
  <2> DEFINE days == OfTypes(dates, {"entry_into_force", "effective", "application"})
  <2>1. \A d : to(d) = OncePassed(days, d)
    BY <1>1, <1>12 DEF ComputeState
  <2>2. OncePassed(days, day) = "effective"
    BY <2>1 DEF OncePassed
  <2>3. \A d \in days : d \in Nat
    BY <1>5
  <2> HIDE DEF days
  <2>4. OncePassed(days, then) = "effective"
    BY <1>6, <2>2, <2>3
  <2> QED
    BY <2>1, <2>2, <2>4
<1>13. CASE /\ rest /\ ~ (s = "legiscan" /\ status = "passed")
            /\ ~ (s = "curated" /\ status = "timeline")
  BY <1>1, <1>13 DEF ComputeState
<1> QED
  BY <1>8, <1>9, <1>10, <1>11, <1>12, <1>13

\* Apart from UK legislation, what a reading makes of an edition does not depend on the day.
LEMMA ReadingOfAnyDay ==
  ASSUME NEW s \in Registered \ DecidedOnReading, NEW d, NEW day, NEW then
  PROVE  Normalize(s, d, day) = Normalize(s, d, then)
BY DEF Normalize, Registered, DecidedOnReading

\* A date map has the slots of the triples that state a day.
LEMMA DatedSlots ==
  ASSUME NEW triples
  PROVE  \A slot : slot \in DOMAIN Dated(triples) <=>
                     \E t \in triples : t[3] # NoDate /\ slot = <<t[1], t[2]>>
BY DEF Dated

\* The sources that state a day their own statemap goes by.
Dating == {"federal_register", "regulations_gov", "cellar", "have_your_say", "edpb", "eba", "pci_ssc",
           "nist_csrc", "curated"}

\* No other source states a day that its own statemap goes by.
LEMMA OthersDateNothing ==
  ASSUME NEW s \in Registered \ Dating, NEW d, NEW day, NEW ni \in Normalize(s, d, day),
         NEW slot \in DOMAIN ni.dates, NEW status
  PROVE  ~ Matters(s, status, slot)
<1>1. CASE s = "esma"
  <2>1. ni.dates = Dated({On("comment_open", d.published)})
    BY <1>1 DEF Normalize, Only, Document, Esma
  <2>2. slot[1] = "comment_open"
    BY <2>1, DatedSlots DEF On
  <2> QED
    BY <1>1, <2>2 DEF Matters, IsFinalAct
<1>2. CASE s = "cppa"
  <2>1. ni.dates \in {<<>>, Dated({On("adopted", d.month)})}
    BY <1>2 DEF Normalize, Only, Document, Cppa, Sentinel
  <2>2. slot[1] = "adopted"
    BY <2>1, DatedSlots DEF On
  <2> QED
    BY <1>2, <2>2 DEF Matters, IsFinalAct
<1>3. CASE s = "aicpa"
  <2>1. ni.dates = Dated({On("proposal_date", d.lastmod)})
    BY <1>3 DEF Normalize, Only, Document, Aicpa
  <2>2. slot[1] = "proposal_date"
    BY <2>1, DatedSlots DEF On
  <2> QED
    BY <1>3, <2>2 DEF Matters, IsFinalAct
<1>4. CASE s = "legiscan"
  <2>1. ni.dates \in {<<>>, Dated({On("adopted", d.statusDate)})}
    BY <1>4 DEF Normalize, Only, Document, Legiscan
  <2>2. slot[1] = "adopted"
    BY <2>1, DatedSlots DEF On
  <2> QED
    BY <1>4, <2>2 DEF Matters, IsFinalAct, IsConsultation, IsProposal
<1> QED
  BY <1>1, <1>2, <1>3, <1>4 DEF Registered, Dating, Matters, IsFinalAct, IsConsultation, IsProposal

\* A day that an edition stated, and that matters, a later edition states or takes back.
LEMMA DaysStayStated ==
  ASSUME NEW s \in Registered, NEW c, NEW e, SaysAsMuch(s, c, e), NEW day, NEW then,
         NEW ni \in Normalize(s, c, day), NEW slot \in DOMAIN ni.dates,
         NEW nj \in Normalize(s, e, then), Matters(s, nj.status, slot)
  PROVE  slot \in DOMAIN nj.dates \/ slot[1] \in nj.retract
<1> DEFINE close == <<"comment_close", NoLabel>>
<1>1. s \in Dating
  BY OthersDateNothing
<1>2. CASE s = "federal_register"
  <2> DEFINE root(d) == d.words \cap SupplementWords = {}
             stated(d) == {On("comment_close", d.closes), On("effective", d.takes)}
             days(d) == (IF root(d) THEN {On(PublishedAs[NativeType[d.type]], d.published)} ELSE {})
                          \cup (IF "correction" \in d.words THEN {} ELSE stated(d))
  <2>1. ASSUME NEW d, NEW nk \in FederalRegister(d) PROVE nk.dates = Dated(days(d)) /\ d.type \in DOMAIN NativeType
    BY <2>1 DEF FederalRegister, Only, Document
  <2>2. ni.dates = Dated(days(c)) /\ nj.dates = Dated(days(e)) /\ c.type \in DOMAIN NativeType
    BY <1>2, <2>1 DEF Normalize
  <2>3. slot \in {close, <<"effective", NoLabel>>}
    BY <1>2 DEF Matters, IsFinalAct, IsConsultation, IsProposal, InForceDate
  <2>4. PICK t \in days(c) : t[3] # NoDate /\ slot = <<t[1], t[2]>>
    BY <2>2, DatedSlots
  <2>5. PublishedAs[NativeType[c.type]] \in {"proposal_date", "adopted"}
    BY <2>2 DEF PublishedAs, NativeType
  <2>6. t \in stated(c) /\ "correction" \notin c.words
    BY <2>3, <2>4, <2>5 DEF On
  <2>7. /\ e.words = c.words /\ (c.closes # NoDate => e.closes # NoDate)
        /\ (c.takes # NoDate => e.takes # NoDate)
    BY <1>2 DEF SaysAsMuch, Remains
  <2>8. \E u \in stated(e) : u[3] # NoDate /\ slot = <<u[1], u[2]>>
    BY <2>4, <2>6, <2>7 DEF On
  <2>9. \E u \in days(e) : u[3] # NoDate /\ slot = <<u[1], u[2]>>
    BY <2>6, <2>7, <2>8
  <2> QED
    BY <2>2, <2>9, DatedSlots
<1>3. CASE s = "regulations_gov"
  <2>1. \A d : \A nk \in RegulationsGov(d) : nk.dates = Dated({On("comment_close", d.closes)})
    BY DEF RegulationsGov, Only, Document
  <2>2. ni.dates = Dated({On("comment_close", c.closes)}) /\ nj.dates = Dated({On("comment_close", e.closes)})
    BY <1>3, <2>1 DEF Normalize
  <2>3. slot = close /\ c.closes # NoDate
    BY <2>2, DatedSlots DEF On
  <2>4. e.closes # NoDate
    BY <1>3, <2>3 DEF SaysAsMuch, Remains
  <2> QED
    BY <2>2, <2>3, <2>4, DatedSlots DEF On
<1>4. CASE s = "cellar"
  <2> DEFINE force == <<"entry_into_force", NoLabel>>
  <2>0. slot = force /\ nj.status = "act"
    BY <1>4 DEF Matters, IsFinalAct, IsConsultation, IsProposal, InForceDate
  <2>1. ni \in Cellar(c) /\ nj \in Cellar(e)
    BY <1>4 DEF Normalize
  <2>2. ~ c.corrigendum /\ ~ c.proposal /\ ni.dates = Dated(ActDates(c))
    <3>1. ni.dates \in {<<>>, Dated({On("proposal_date", c.date)}), Dated(ActDates(c))}
      BY <2>1 DEF Cellar, Only, Document
    <3>2. force \notin DOMAIN Dated({On("proposal_date", c.date)})
      BY DatedSlots DEF On
    <3>3. CASE c.corrigendum
      <4>1. ni.dates = <<>>
        BY <2>1, <3>3 DEF Cellar, Only, Document
      <4> QED
        BY <4>1
    <3>4. CASE ~ c.corrigendum /\ c.proposal
      <4>1. ni.dates = Dated({On("proposal_date", c.date)})
        BY <2>1, <3>4 DEF Cellar, Only, Document
      <4> QED
        BY <2>0, <3>2, <4>1
    <3>5. CASE ~ c.corrigendum /\ ~ c.proposal
      BY <2>1, <3>5 DEF Cellar, Only, Document
    <3> QED
      BY <3>3, <3>4, <3>5
  <2>3. ~ e.corrigendum /\ (First(c.forces) # NoDate => First(e.forces) # NoDate)
    BY <1>4, <2>2 DEF SaysAsMuch, Remains
  <2>4. nj.dates = Dated(ActDates(e))
    <3>1. CASE e.proposal
      <4>1. nj.status = "proposal"
        BY <2>1, <2>3, <3>1 DEF Cellar, Only, Document
      <4> QED
        BY <2>0, <4>1
    <3>2. CASE ~ e.proposal
      BY <2>1, <2>3, <3>2 DEF Cellar, Only, Document
    <3> QED
      BY <3>1, <3>2
  <2>5. ASSUME NEW t \in ActDates(c), t[1] = "entry_into_force"
        PROVE  t = On("entry_into_force", First(c.forces))
    <3>1. ASSUME NEW type, NEW label, NEW days, NEW u \in Numbered(type, label, days) PROVE u[1] = type
      <4>1. PICK d \in days : u = <<type, label[Cardinality({f \in days : f <= d})], d>>
        BY Zenon DEF Numbered
      <4> QED
        BY <4>1
    <3>2. t \notin Numbered("phased_compliance", Applications, c.forces \ {First(c.forces)})
      BY <2>5, <3>1
    <3>3. t \notin Numbered("transition_deadline", Deadlines, c.deadlines)
      BY <2>5, <3>1
    <3>4. t \in {On("adopted", c.date), On("entry_into_force", First(c.forces))}
      BY <3>2, <3>3 DEF ActDates
    <3> QED
      BY <2>5, <3>4 DEF On
  <2>6. First(c.forces) # NoDate
    BY <2>0, <2>2, <2>5, DatedSlots DEF On
  <2>7. On("entry_into_force", First(e.forces)) \in ActDates(e)
    BY DEF ActDates
  <2> QED
    BY <2>0, <2>3, <2>4, <2>6, <2>7, DatedSlots DEF On
<1>5. CASE s = "have_your_say"
  <2> DEFINE last(d) == Latest({w[1] : w \in d.windows})
             open(d) == Latest({w[2] : w \in {v \in d.windows : v[1] = last(d)}})
  <2>1. \A d : \A nk \in HaveYourSay(d) :
          nk.dates = Dated({On("comment_open", open(d)), On("comment_close", last(d))})
    BY DEF HaveYourSay, Only, Document
  <2> HIDE DEF open, last
  <2>2. /\ ni.dates = Dated({On("comment_open", open(c)), On("comment_close", last(c))})
        /\ nj.dates = Dated({On("comment_open", open(e)), On("comment_close", last(e))})
    BY <1>5, <2>1 DEF Normalize
  <2>3. slot = close
    BY <1>5, <2>2, DatedSlots DEF Matters, IsFinalAct, On
  <2>4. last(c) # NoDate
    BY <2>2, <2>3, DatedSlots DEF On
  <2>5. last(e) # NoDate
    BY <1>5, <2>4 DEF SaysAsMuch, Remains, last
  <2> QED
    BY <2>2, <2>3, <2>5, DatedSlots DEF On
<1>6. CASE s = "edpb"
  <2>1. slot = close /\ nj.status = "consultation"
    BY <1>6 DEF Matters, IsFinalAct, IsConsultation, IsProposal
  <2>2. ni \in Edpb(c) /\ nj \in Edpb(e)
    BY <1>6 DEF Normalize
  <2>3. ASSUME NEW d, NEW nk \in Edpb(d)
        PROVE  \/ nk.dates = Dated({On("comment_open", d.published), On("comment_close", d.deadline)})
               \/ (nk.dates = Dated({On("adopted", d.published)}) /\ nk.status = "adopted")
    BY <2>3 DEF Edpb, Only, Document
  <2>4. c.deadline # NoDate
    <3>1. close \notin DOMAIN Dated({On("adopted", c.published)})
      BY DatedSlots DEF On
    <3>2. close \in DOMAIN Dated({On("comment_open", c.published), On("comment_close", c.deadline)})
      BY <2>1, <2>2, <2>3, <3>1
    <3> QED
      BY <3>2, DatedSlots DEF On
  <2>5. e.deadline # NoDate
    BY <1>6, <2>4 DEF SaysAsMuch, Remains
  <2> QED
    BY <2>1, <2>2, <2>3, <2>5, DatedSlots DEF On
<1>7. CASE s = "eba"
  <2>1. slot = close /\ nj.status # "unknown"
    BY <1>7 DEF Matters, IsFinalAct, IsConsultation, IsProposal
  <2>2. ni \in Eba(c) /\ nj \in Eba(e)
    BY <1>7 DEF Normalize
  <2>3. ASSUME NEW d, NEW nk \in Eba(d)
        PROVE  \/ nk.dates = Dated({On("comment_open", d.opens), On("comment_close", d.closes)})
               \/ (nk.dates = <<>> /\ nk.status = "unknown")
    BY <2>3 DEF Eba, Document, Sentinel
  <2>4. c.closes # NoDate
    <3>1. close \in DOMAIN Dated({On("comment_open", c.opens), On("comment_close", c.closes)})
      BY <2>1, <2>2, <2>3
    <3> QED
      BY <3>1, DatedSlots DEF On
  <2>5. e.closes # NoDate
    BY <1>7, <2>4 DEF SaysAsMuch, Remains
  <2> QED
    BY <2>1, <2>2, <2>3, <2>5, DatedSlots DEF On
<1>8. CASE s = "pci_ssc"
  <2>1. slot = close /\ nj.status = "rfc"
    BY <1>8 DEF Matters, IsFinalAct, IsConsultation, IsProposal
  <2>2. ni \in PciSsc(c) /\ nj \in PciSsc(e)
    BY <1>8 DEF Normalize
  <2>3. ASSUME NEW d, NEW nk \in PciSsc(d)
        PROVE  \/ nk.dates = Dated(RfcWindow(d, RfcMinDays))
               \/ nk.dates = Dated({On("effective", d.published)}) /\ nk.status = "publication"
    BY <2>3 DEF PciSsc, Only, Document
  <2>4. c.published # NoDate
    <3>1. close \notin DOMAIN Dated({On("effective", c.published)})
      BY DatedSlots DEF On
    <3>2. ni.dates = Dated(RfcWindow(c, RfcMinDays))
      BY <2>1, <2>2, <2>3, <3>1
    <3>3. RfcWindow(c, RfcMinDays) # {}
      BY <2>1, <3>2, DatedSlots
    <3> QED
      BY <3>3 DEF RfcWindow
  <2>5. e.published # NoDate /\ e.published \in Nat
    BY <1>8, <2>4 DEF SaysAsMuch, Remains
  <2>6. nj.dates = Dated(RfcWindow(e, RfcMinDays))
    BY <2>1, <2>2, <2>3
  <2>7. PICK last : last # NoDate /\ On("comment_close", last) \in RfcWindow(e, RfcMinDays)
    <3>1. CASE e.closes # NoDate
      BY <2>5, <3>1 DEF RfcWindow
    <3>2. CASE e.closes = NoDate
      BY <2>5, <3>2 DEF RfcWindow, RfcMinDays, NoDate
    <3> QED
      BY <3>1, <3>2
  <2> QED
    BY <2>1, <2>6, <2>7, DatedSlots DEF On
<1>9. CASE s = "nist_csrc"
  <2>1. slot = close
    BY <1>9 DEF Matters, IsFinalAct, IsConsultation, IsProposal
  <2>2. ASSUME NEW d, NEW nk \in NistCsrc(d)
        PROVE  /\ nk.dates = Dated({On("comment_close", d.due), On("proposal_date", d.published)})
               /\ nk.retract = NistRetracts(d)
    BY <2>2 DEF NistCsrc, Document
  <2>3. /\ ni.dates = Dated({On("comment_close", c.due), On("proposal_date", c.published)})
        /\ nj.dates = Dated({On("comment_close", e.due), On("proposal_date", e.published)})
        /\ nj.retract = NistRetracts(e)
    BY <1>9, <2>2 DEF Normalize
  <2>4. c.due # NoDate
    BY <2>1, <2>3, DatedSlots DEF On
  <2>5. CASE e.due # NoDate
    BY <2>1, <2>3, <2>5, DatedSlots DEF On
  <2>6. CASE e.due = NoDate
    <3>1. e.openEnded
      BY <1>9, <2>4, <2>6 DEF SaysAsMuch
    <3> QED
      BY <2>1, <2>3, <2>6, <3>1 DEF NistRetracts
  <2> QED
    BY <2>5, <2>6
<1>10. CASE s = "curated"
  <2>1. \A d : \A nk \in Timeline(d) : nk.dates = Dated(d.days)
    BY DEF Timeline, Document
  <2>2. ni.dates = Dated(c.days) /\ nj.dates = Dated(e.days)
    BY <1>10, <2>1 DEF Normalize
  <2> QED
    BY <1>10, <2>2 DEF SaysAsMuch
<1> QED
  BY <1>1, <1>2, <1>3, <1>4, <1>5, <1>6, <1>7, <1>8, <1>9, <1>10 DEF Dating

\* No reading states a day that it takes back.
LEMMA NotBothWays ==
  ASSUME NEW s \in Registered, NEW d, NEW day, NEW ni \in Normalize(s, d, day),
         NEW slot, slot[1] \in ni.retract
  PROVE  slot \notin DOMAIN ni.dates
<1>1. CASE s = "nist_csrc"
  <2>1. ASSUME NEW nk \in NistCsrc(d)
        PROVE  /\ nk.dates = Dated({On("comment_close", d.due), On("proposal_date", d.published)})
               /\ nk.retract = NistRetracts(d)
    BY <2>1 DEF NistCsrc, Document
  <2>2. /\ ni.dates = Dated({On("comment_close", d.due), On("proposal_date", d.published)})
        /\ slot[1] \in NistRetracts(d)
    BY <1>1, <2>1 DEF Normalize
  <2>3. d.due = NoDate /\ slot[1] = "comment_close"
    BY <2>2 DEF NistRetracts
  <2> QED
    BY <2>2, <2>3, DatedSlots DEF On
<1>2. CASE s \in Keepers
  BY <1>2, KeeperReadings DEF Readable
<1> SUFFICES ASSUME s \notin Keepers \cup {"nist_csrc"} PROVE ni.retract = {}
  BY <1>1, <1>2
<1> USE DEF Only, Document, Normalize
<1>3. CASE s = "cellar"         BY <1>3 DEF Cellar
<1>4. CASE s = "oeil"           BY <1>4 DEF Oeil
<1>5. CASE s = "edpb"           BY <1>5 DEF Edpb
<1>6. CASE s = "esma"           BY <1>6 DEF Esma
<1>7. CASE s = "eba"            BY <1>7 DEF Eba, Sentinel
<1>8. CASE s = "cppa"           BY <1>8 DEF Cppa, Sentinel
<1>9. CASE s = "pci_ssc"        BY <1>9 DEF PciSsc
<1>11. CASE s = "nist_pubs"     BY <1>11 DEF NistPubs
<1>12. CASE s = "iso_catalog"   BY <1>12 DEF IsoCatalog
<1>13. CASE s = "ecfr"          BY <1>13 DEF Ecfr
<1>14. CASE s = "uk_legislation" BY <1>14 DEF UkLegislation
<1>15. CASE s = "standard_pages" BY <1>15 DEF StandardPages
<1>16. CASE s = "pci_docs"      BY <1>16 DEF PciDocs
<1>17. CASE s = "cis"           BY <1>17 DEF Cis
<1>18. CASE s = "hitrust"       BY <1>18 DEF Hitrust
<1>19. CASE s = "fedramp"       BY <1>19 DEF Fedramp
<1>20. CASE s = "aiuc"          BY <1>20 DEF Aiuc
<1> QED
  BY <1>3, <1>4, <1>5, <1>6, <1>7, <1>8, <1>9, <1>11, <1>12, <1>13, <1>14,
     <1>15, <1>16, <1>17, <1>18, <1>19, <1>20 DEF Registered, Keepers, ProposalSources

\* A document has one reading, or one to each of its keys.
LEMMA OneReading ==
  ASSUME NEW s \in Registered, NEW d, NEW day, NEW ni \in Normalize(s, d, day),
         NEW nj \in Normalize(s, d, day), s = "aiuc" => ni.key = nj.key
  PROVE  ni = nj
<1>0. ASSUME NEW admitted, NEW x, NEW y \in Only(admitted, {x}), NEW z \in Only(admitted, {x})
      PROVE  y = z
  BY <1>0 DEF Only
<1> USE DEF Only, Normalize
<1>1. CASE s = "federal_register"
  <2>1. ni \in FederalRegister(d) /\ nj \in FederalRegister(d)
    BY <1>1
  <2> HIDE DEF Only, Normalize
  <2>2. PICK admitted, x : FederalRegister(d) = Only(admitted, {x})
    BY ZenonT(30) DEF FederalRegister
  <2>3. ni \in Only(admitted, {x}) /\ nj \in Only(admitted, {x})
    BY <2>1, <2>2
  <2> QED
    BY <1>0, <2>3, Zenon
<1>2. CASE s = "regulations_gov"   BY <1>2 DEF RegulationsGov
<1>3. CASE s = "cellar"            BY <1>3 DEF Cellar
<1>4. CASE s = "oeil"              BY <1>4 DEF Oeil
<1>5. CASE s = "have_your_say"     BY <1>5 DEF HaveYourSay
<1>6. CASE s = "legiscan"          BY <1>6 DEF Legiscan
<1>7. CASE s = "edpb"              BY <1>7 DEF Edpb
<1>8. CASE s = "esma"              BY <1>8 DEF Esma
<1>9. CASE s = "eba"               BY <1>9 DEF Eba
<1>10. CASE s = "cppa"
  <2>1. ni \in Cppa(d) /\ nj \in Cppa(d)
    BY <1>10
  <2> HIDE DEF Only, Normalize
  <2>2. CASE d.recognised
    BY <1>0, <2>1, <2>2, Zenon DEF Cppa
  <2>3. CASE ~ (d.recognised)
    BY <2>1, <2>3, Zenon DEF Cppa
  <2> QED
    BY <2>2, <2>3
<1>11. CASE s = "pci_ssc"
  <2>1. ni \in PciSsc(d) /\ nj \in PciSsc(d)
    BY <1>11
  <2> HIDE DEF Only, Normalize
  <2>2. CASE "request for comments" \in d.words
    BY <2>1, <2>2, Zenon DEF PciSsc
  <2>3. CASE "request for comments" \notin d.words
    BY <1>0, <2>1, <2>3, Zenon DEF PciSsc
  <2> QED
    BY <2>2, <2>3
<1>12. CASE s = "aicpa"
  <2>1. ni \in Aicpa(d) /\ nj \in Aicpa(d)
    BY <1>12
  <2> HIDE DEF Only, Normalize
  <2> QED
    BY <1>0, <2>1, Zenon DEF Aicpa
<1>13. CASE s = "nist_csrc"        BY <1>13 DEF NistCsrc
<1>14. CASE s = "nist_pubs"        BY <1>14 DEF NistPubs
<1>15. CASE s = "iso_catalog"      BY <1>15 DEF IsoCatalog
<1>16. CASE s = "ecfr"             BY <1>16 DEF Ecfr
<1>17. CASE s = "uk_legislation"   BY <1>17 DEF UkLegislation
<1>18. CASE s = "standard_pages"   BY <1>18 DEF StandardPages
<1>19. CASE s = "pci_docs"         BY <1>19 DEF PciDocs
<1>20. CASE s = "cis"              BY <1>20 DEF Cis
<1>21. CASE s = "hitrust"          BY <1>21 DEF Hitrust
<1>22. CASE s = "fedramp"          BY <1>22 DEF Fedramp
<1>23. CASE s = "curated"          BY <1>23 DEF Timeline
<1>24. CASE s = "aiuc"
  <2> DEFINE released == d.history \cup ({d.current} \ {NoDate})
             item(x, track, status, type) ==
               [Document("aiuc", AiucKey(x, status), track, status)
                  EXCEPT !.obligation = "aiuc-1", !.dates = Dated({On(type, x)})]
             past(x) == [item(x, "final", "release", "effective") EXCEPT !.version = x]
             planned(x) == item(x, "proposed", "scheduled", "projected_final")
             next == {d.next} \ (released \cup {NoDate})
  <2>1. \A x : past(x).key = <<"aiuc_release", x>> /\ planned(x).key = <<"aiuc_release", x>>
    BY DEF AiucKey, Document
  <2>2. Aiuc(d) = {past(x) : x \in released} \cup {planned(x) : x \in next}
    BY DEF Aiuc
  <2>3. released \cap next = {}
    OBVIOUS
  <2> HIDE DEF past, planned, released, next
  <2>4. \E x : (ni = past(x) /\ x \in released) \/ (ni = planned(x) /\ x \in next)
    BY <1>24, <2>2
  <2>5. \E y : (nj = past(y) /\ y \in released) \/ (nj = planned(y) /\ y \in next)
    BY <1>24, <2>2
  <2> QED
    BY <1>24, <2>1, <2>3, <2>4, <2>5
<1> QED
  BY <1>1, <1>2, <1>3, <1>4, <1>5, <1>6, <1>7, <1>8, <1>9, <1>10, <1>11, <1>12, <1>13, <1>14, <1>15,
     <1>16, <1>17, <1>18, <1>19, <1>20, <1>21, <1>22, <1>23, <1>24 DEF Registered

\* A reading leaves of the dates of a row what it states and what it does not take back.
LEMMA MergedDates ==
  ASSUME NEW r, DOMAIN r = RowFields, NEW ni, NEW slot
  PROVE  LET m == Merged(r, ni)
         IN  /\ slot \in DOMAIN m.dates <=>
                  slot \in DOMAIN r.dates \cup DOMAIN ni.dates /\ slot[1] \notin ni.retract
             /\ slot \in DOMAIN m.dates /\ slot \in DOMAIN ni.dates => m.dates[slot] = ni.dates[slot]
<1> DEFINE m == Merged(r, ni)
           kept == {s \in DOMAIN r.dates \cup DOMAIN ni.dates : s[1] \notin ni.retract}
<1>1. m.dates = [s \in kept |-> IF s \in DOMAIN ni.dates THEN ni.dates[s] ELSE r.dates[s]]
  BY DEF Merged, RowFields
<1>2. slot \in kept <=> slot \in DOMAIN r.dates \cup DOMAIN ni.dates /\ slot[1] \notin ni.retract
  OBVIOUS
<1> HIDE DEF m, kept
<1>3. slot \in DOMAIN m.dates <=> slot \in kept
  BY <1>1
<1>4. slot \in DOMAIN m.dates /\ slot \in DOMAIN ni.dates => m.dates[slot] = ni.dates[slot]
  BY <1>1
<1> QED
  BY <1>2, <1>3, <1>4 DEF m

\* The row is as the statemap sees the document of a reading.
AsRead(r, ni) ==
  /\ r.status = ni.status /\ (source = "federal_register" => r.action = ni.action)
  /\ Alike(source, ni.status, r.dates, ni.dates)

\* A row is as it was read where the reading states or takes back what the row knows.
LEMMA MergedAsRead ==
  ASSUME NEW r, DOMAIN r = RowFields, source \in Registered, NEW ni, Readable(source, ni),
         \A slot : slot[1] \in ni.retract => slot \notin DOMAIN ni.dates,
         \A slot \in DOMAIN r.dates :
           Matters(source, ni.status, slot) => slot \in DOMAIN ni.dates \/ slot[1] \in ni.retract
  PROVE  AsRead(Merged(r, ni), ni)
<1> DEFINE m == Merged(r, ni)
<1>1. m.status = ni.status /\ (source = "federal_register" => m.action = ni.action)
  <2>1. Read(source, m, r, ni)
    BY MergedFields
  <2> QED
    BY <2>1 DEF Read
<1>2. ASSUME NEW slot, Matters(source, ni.status, slot)
      PROVE  /\ slot \in DOMAIN m.dates <=> slot \in DOMAIN ni.dates
             /\ slot \in DOMAIN m.dates => m.dates[slot] = ni.dates[slot]
  <2>1. /\ slot \in DOMAIN m.dates <=>
             slot \in DOMAIN r.dates \cup DOMAIN ni.dates /\ slot[1] \notin ni.retract
        /\ slot \in DOMAIN m.dates /\ slot \in DOMAIN ni.dates => m.dates[slot] = ni.dates[slot]
    BY MergedDates
  <2> HIDE DEF m
  <2> QED
    BY <1>2, <2>1
<1> HIDE DEF m
<1>3. Alike(source, ni.status, m.dates, ni.dates)
  BY <1>2 DEF Alike
<1>4. AsRead(m, ni)
  BY <1>1, <1>3 DEF AsRead
<1> QED
  BY <1>4 DEF m

\* Rows that are as the same reading has them derive the same state.
LEMMA SameReadSameState ==
  ASSUME NEW r, NEW q, NEW ni, AsRead(r, ni), AsRead(q, ni), NEW day
  PROVE  Derived(r, day) = Derived(q, day)
<1>1. Alike(source, ni.status, r.dates, q.dates)
  BY DEF AsRead, Alike
<1>2. r.status = ni.status /\ q.status = ni.status /\ (source = "federal_register" => r.action = q.action)
  BY DEF AsRead
<1> QED
  BY <1>1, <1>2, AlikeDerived DEF Derived

\* A row that a reading creates is as it was read, in the state derived from it.
LEMMA CreatedAsRead ==
  ASSUME source \in Registered, NEW d, NEW day, NEW ni \in Normalize(source, d, day), NEW then
  PROVE  /\ AsRead(Created(ni, then), ni) /\ AsRead(Merged(NoRow, ni), ni)
         /\ DOMAIN Created(ni, then).dates = DOMAIN ni.dates
         /\ Derived(Created(ni, then), then) # Unknown =>
              Created(ni, then).state = Derived(Created(ni, then), then)
<1> DEFINE nj == [ni EXCEPT !.retract = {}]
           m == Merged(NoRow, nj)
           c == Created(ni, then)
<1>1. Readable(source, ni)
  BY ReadingIsReadable
<1>2. /\ Readable(source, nj) /\ nj.status = ni.status /\ nj.action = ni.action
      /\ nj.dates = ni.dates /\ nj.retract = {}
  BY <1>1 DEF Readable, DocumentFields
<1>3. DOMAIN NoRow = RowFields /\ DOMAIN NoRow.dates = {}
  BY DEF NoRow, RowFields
<1>4. AsRead(Merged(NoRow, ni), ni)
  BY <1>1, <1>3, NotBothWays, MergedAsRead
<1> HIDE DEF nj
<1>5. AsRead(m, nj)
  BY <1>2, <1>3, MergedAsRead
<1>6. DOMAIN m.dates = DOMAIN nj.dates
  <2>1. \A slot : slot \in DOMAIN m.dates <=> slot \in DOMAIN nj.dates
    BY <1>2, <1>3, MergedDates
  <2> QED
    BY <2>1
<1>7. DOMAIN m = RowFields
  BY <1>3 DEF Merged, RowFields
<1>8. c = [m EXCEPT !.state = IF Derived(m, then) = Unknown THEN "proposed" ELSE Derived(m, then)]
  BY DEF Created, nj
<1> HIDE DEF m, c
<1>9. /\ c.status = m.status /\ c.action = m.action /\ c.dates = m.dates
      /\ c.state = IF Derived(m, then) = Unknown THEN "proposed" ELSE Derived(m, then)
  BY <1>7, <1>8 DEF RowFields
<1>10. Derived(c, then) = Derived(m, then)
  BY <1>9 DEF Derived
<1>11. AsRead(c, ni)
  BY <1>2, <1>5, <1>9 DEF AsRead
<1>12. DOMAIN c.dates = DOMAIN ni.dates
  BY <1>2, <1>6, <1>9
<1> QED
  BY <1>4, <1>9, <1>10, <1>11, <1>12 DEF c
-------------------------------------------------------------------------------
\* Some reading of an edition states a day for a slot.
States(s, c, slot) == \E day : \E ni \in Normalize(s, c, day) : slot \in DOMAIN ni.dates

\* What the row knows was stated by an edition that the one that stands says as much as.
DaysHaveOrigins ==
  \A slot \in DOMAIN row.dates :
    \E c \in Editions[source] : SaysAsMuch(source, c, doc) /\ States(source, c, slot)

\* The row is as it was read from the edition it was last read from.
RowAgrees(c) == \A ni \in Found(row, c, today) : AsRead(row, ni)
ReadsAgree   == \A c \in seen : (source \in DecidedOnReading => fresh) => RowAgrees(c)

\* A row of a changelog is of one release.
OneRelease == source = "aiuc" => \A k, l \in row.keys : k = l

\* The state is the one derived on some day, today's once the tick has run.
StateFollows ==
  \E day \in 1..today :
    /\ ticked => day = today
    /\ Derived(row, day) # Unknown => row.state = Derived(row, day)

\* The inductive invariant of a row in which the past does not show.
HistoryInv(stage) ==
  /\ ReplayInv(stage) /\ seen \subseteq Editions[source] /\ OneRelease
  /\ ~ moved => DaysHaveOrigins /\ (row.held => ReadsAgree)
  /\ row.held /\ Undisturbed(stage) => StateFollows

\* What says as much as an edition that says as much as another says as much as that one.
LEMMA SayingIsTransitive ==
  ASSUME NEW s, NEW c, NEW d, NEW e, SaysAsMuch(s, c, d), SaysAsMuch(s, d, e)
  PROVE  SaysAsMuch(s, c, e)
<1> USE DEF SaysAsMuch, Remains
<1>1. CASE s = "federal_register"                OBVIOUS
<1>2. CASE s \in {"regulations_gov", "eba"}      OBVIOUS
<1>3. CASE s = "cellar"                          OBVIOUS
<1>4. CASE s = "have_your_say"                   OBVIOUS
<1>5. CASE s \in {"edpb", "pci_ssc"}             OBVIOUS
<1>6. CASE s \in {"nist_csrc", "curated"}        OBVIOUS
<1> QED
  BY <1>1, <1>2, <1>3, <1>4, <1>5, <1>6

\* A move that is not objected to is made.
LEMMA UnobjectedMoves ==
  ASSUME NEW state \in Mainline \cup {"withdrawn"}, NEW to, to # Unknown, Verdict(state, to) # "anomaly"
  PROVE  Settled(state, to) = to
BY DEF Settled, Verdict, Echo, Mainline

\* What a reading makes of the fields of a row.
LEMMA UpdatedFields ==
  ASSUME NEW r, DOMAIN r = RowFields, NEW ni, NEW day
  PROVE  LET m == Merged(r, ni)
             u == Updated(r, ni, day)
         IN  /\ u.status = m.status /\ u.action = m.action /\ u.dates = m.dates
             /\ u.keys = r.keys \cup {ni.key} \cup ni.keys
             /\ u.state = Settled(r.state, Derived(u, day))
<1> DEFINE m == Merged(r, ni)
           u == Updated(r, ni, day)
<1>1. DOMAIN m = RowFields /\ m.state = r.state /\ m.keys = r.keys \cup {ni.key} \cup ni.keys
  BY DEF Merged, RowFields
<1>2. u = [m EXCEPT !.state = Settled(@, Derived(m, day))]
  BY DEF Updated
<1> HIDE DEF m, u
<1>3. /\ u.status = m.status /\ u.action = m.action /\ u.dates = m.dates /\ u.keys = m.keys
      /\ u.state = Settled(r.state, Derived(m, day))
  BY <1>1, <1>2 DEF RowFields
<1>4. Derived(u, day) = Derived(m, day)
  BY <1>3 DEF Derived
<1> QED
  BY <1>1, <1>3, <1>4 DEF m, u

\* A release is found by its own key, and a reading of one has no other.
LEMMA ReleaseKeys ==
  ASSUME NEW d, NEW day, NEW ni \in Normalize("aiuc", d, day)
  PROVE  ni.keys = {} /\ \A r : Finds(r, ni) => ni.key \in r.keys
<1>1. ni \in Aiuc(d)
  BY DEF Normalize
<1>2. ni.keys = {}
  BY <1>1 DEF Aiuc, Document
<1> QED
  BY <1>2 DEF Finds

\* A row that agrees with one of its readings agrees with every other that finds it.
LEMMA ReadingsAgree ==
  ASSUME source \in Registered, NEW r, source = "aiuc" => \A k, l \in r.keys : k = l,
         NEW d, NEW day, NEW ni \in Normalize(source, d, day), ni.key \in r.keys, AsRead(r, ni),
         NEW nj \in Found(r, d, day)
  PROVE  AsRead(r, nj)
<1>1. nj \in Normalize(source, d, day) /\ Finds(r, nj)
  BY DEF Found
<1>2. source = "aiuc" => nj.key \in r.keys
  BY <1>1, ReleaseKeys
<1>3. ni = nj
  BY <1>1, <1>2, OneReading
<1> QED
  BY <1>3

\* The past does not show at the start.
LEMMA HistoryStart == ASSUME NEW stage, Init PROVE HistoryInv(stage)
<1>1. DOMAIN NoRow.dates = {} /\ NoRow.keys = {} /\ NoRow.held = FALSE
  BY DEF NoRow
<1> QED
  BY <1>1, ReplayStart DEF Init, HistoryInv, OneRelease, DaysHaveOrigins, ReadsAgree

\* Another edition takes nothing away, and a row is not expected to agree with it.
LEMMA PublishHistory ==
  ASSUME NEW stage, EditionsAdvance(stage), DaysAreKept, HistoryInv(stage),
         NEW e \in Editions[source], Publish(e)
  PROVE  HistoryInv(stage)'
<1>1. /\ source' = source /\ row' = row /\ moved' = moved /\ postponed' = postponed /\ doc' = e
      /\ today' = today /\ ticked' = ticked /\ seen' = seen /\ fresh' = FALSE
      /\ Follows(source, doc, e)
  BY DEF Publish
<1>2. ReplayInv(stage)'
  BY ReplayStep DEF HistoryInv, Next
<1>3. SaysAsMuch(source, doc, e)
  BY <1>1 DEF DaysAreKept, HistoryInv, ReplayInv, ReplayType
<1>4. DaysHaveOrigins => DaysHaveOrigins'
  BY <1>1, <1>3, SayingIsTransitive DEF DaysHaveOrigins
<1>5. ReadsAgree => ReadsAgree'
  BY <1>1 DEF ReadsAgree, RowAgrees, Found, AsRead
<1>6. StateFollows => StateFollows'
  BY <1>1 DEF StateFollows, Derived
<1> QED
  BY <1>1, <1>2, <1>4, <1>5, <1>6 DEF HistoryInv, OneRelease, Undisturbed

\* Nor does another day, on which all but UK legislation reads the same.
LEMMA NewDayHistory ==
  ASSUME NEW stage, EditionsAdvance(stage), HistoryInv(stage), NewDay
  PROVE  HistoryInv(stage)'
<1>1. /\ source' = source /\ row' = row /\ moved' = moved /\ postponed' = postponed /\ doc' = doc
      /\ today' = today + 1 /\ ticked' = FALSE /\ seen' = seen /\ fresh' = FALSE
  BY DEF NewDay
<1>2. ReplayInv(stage)'
  BY ReplayStep DEF HistoryInv, Next
<1>3. DaysHaveOrigins => DaysHaveOrigins'
  BY <1>1 DEF DaysHaveOrigins
<1>4. ASSUME ReadsAgree PROVE ReadsAgree'
  <2>1. SUFFICES ASSUME source \notin DecidedOnReading, NEW c \in seen PROVE RowAgrees(c)'
    BY <1>1 DEF ReadsAgree
  <2>2. Normalize(source, c, today) = Normalize(source, c, today + 1)
    BY <2>1, ReplayAssumption, ReadingOfAnyDay DEF HistoryInv, ReplayInv, ReplayType
  <2>3. RowAgrees(c)
    BY <1>4, <2>1 DEF ReadsAgree
  <2> QED
    BY <1>1, <2>2, <2>3 DEF RowAgrees, Found, AsRead
<1>5. StateFollows => StateFollows'
  <2>1. 1..today \subseteq 1..(today + 1)
    BY ReplayAssumption DEF HistoryInv, ReplayInv, ReplayType
  <2> QED
    BY <1>1, <2>1 DEF StateFollows, Derived
<1> QED
  BY <1>1, <1>2, <1>3, <1>4, <1>5 DEF HistoryInv, OneRelease, Undisturbed

\* A date that a person moves is part of a past that may show.
LEMMA AssertHistory ==
  ASSUME NEW stage, EditionsAdvance(stage), HistoryInv(stage),
         NEW slot \in Stated[source], NEW day \in 1..MaxDay, AssertDate(slot, day)
  PROVE  HistoryInv(stage)'
<1>1. source' = source /\ seen' = seen /\ moved' = TRUE /\ row'.keys = row.keys
  BY DEF AssertDate, HistoryInv, ReplayInv, ReplayType, RowFields
<1>2. ReplayInv(stage)'
  BY ReplayStep DEF HistoryInv, Next
<1> QED
  BY <1>1, <1>2 DEF HistoryInv, OneRelease, Undisturbed

\* The tick brings the state to what is derived today.
LEMMA TickHistory ==
  ASSUME NEW stage, EditionsAdvance(stage), HistoryInv(stage), Tick
  PROVE  HistoryInv(stage)'
<1>1. /\ source' = source /\ moved' = moved /\ postponed' = postponed /\ doc' = doc
      /\ today' = today /\ ticked' = TRUE /\ seen' = seen /\ fresh' = fresh /\ row' = Ticked(row, today)
  BY DEF Tick
<1>2. ReplayInv(stage)'
  BY ReplayStep DEF HistoryInv, Next
<1>3. /\ row'.held = row.held /\ row'.keys = row.keys /\ row'.track = row.track
      /\ row'.status = row.status /\ row'.action = row.action /\ row'.dates = row.dates
      /\ row'.state = IF TicksOn(row) THEN Settled(row.state, Derived(row, today)) ELSE row.state
  BY <1>1 DEF Ticked, HistoryInv, ReplayInv, ReplayType, RowFields
<1>4. DaysHaveOrigins => DaysHaveOrigins'
  BY <1>1, <1>3 DEF DaysHaveOrigins
<1>5. ReadsAgree => ReadsAgree'
  BY <1>1, <1>3 DEF ReadsAgree, RowAgrees, Found, Finds, AsRead
<1>6. ASSUME row.held, Undisturbed(stage), StateFollows PROVE StateFollows'
  <2>1. PICK x \in 0..WithdrawnPhase : RowFits(row, x) /\ RowEnds(row, x, today)
    BY <1>6 DEF HistoryInv, ReplayInv, RowIsInPhase
  <2>2. Derived(row, today)' = Derived(row, today) /\ today \in 1..today
    BY <1>1, <1>3, ReplayAssumption DEF Derived, HistoryInv, ReplayInv, ReplayType
  <2>3. SUFFICES ASSUME Derived(row, today) # Unknown PROVE row'.state = Derived(row, today)
    BY <1>1, <2>2 DEF StateFollows
  <2>4. CASE TicksOn(row)
    <3>1. ~ Objects(row, Derived(row, today))
      BY <2>1, <2>4, SettledFits DEF TicksOn
    <3> QED
      BY <1>3, <2>1, <2>3, <2>4, <3>1, UnobjectedMoves DEF Objects, RowEnds, EndsWithin
  <2>5. CASE ~ TicksOn(row)
    <3>1. row.state \in {"effective", "withdrawn"}
      BY <1>6, <2>1, <2>5 DEF TicksOn, ActiveStates, RowEnds, EndsWithin, RowFits, Mainline
    <3>2. PICK day \in 1..today : Derived(row, day) # Unknown => row.state = Derived(row, day)
      BY <1>6 DEF StateFollows
    <3>3. Derived(row, day) # Unknown
      BY <2>3, UnknownOnAnyDay DEF Derived
    <3>4. day \in Nat /\ today \in Nat /\ day <= today
      BY ReplayAssumption DEF HistoryInv, ReplayInv, ReplayType
    <3>5. Derived(row, today) = Derived(row, day)
      BY <2>1, <3>1, <3>2, <3>3, <3>4, EndsStand DEF Derived, RowEnds
    <3> QED
      BY <1>3, <2>5, <3>2, <3>3, <3>5
  <2> QED
    BY <2>4, <2>5
<1> QED
  BY <1>1, <1>2, <1>3, <1>4, <1>5, <1>6 DEF HistoryInv, OneRelease, Undisturbed, EndsAreFinal

\* A reading leaves the row as the edition has it, whatever the row knew before.
LEMMA ReadHistory ==
  ASSUME NEW stage, EditionsAdvance(stage), DaysAreKept, HistoryInv(stage), ReadSource
  PROVE  HistoryInv(stage)'
<1>1. /\ source' = source /\ moved' = moved /\ doc' = doc /\ today' = today /\ ticked' = ticked
      /\ seen' = {doc} /\ (~ postponed' => ~ postponed)
  BY DEF ReadSource
<1>2. ReplayInv(stage)'
  BY ReplayStep DEF HistoryInv, Next
<1>3. /\ source \in Registered /\ doc \in Editions[source] /\ DOMAIN row = RowFields
      /\ today \in 1..today /\ SaysAsMuch(source, doc, doc)
  BY ReplayAssumption DEF HistoryInv, ReplayInv, ReplayType, DaysAreKept
<1>4. ASSUME NEW ni \in Normalize(source, doc, today), ni.key \in row'.keys, AsRead(row', ni),
             source = "aiuc" => \A k, l \in row'.keys : k = l
      PROVE  ReadsAgree'
  <2>1. \A nj \in Found(row', doc, today) : AsRead(row', nj)
    BY <1>3, <1>4, ReadingsAgree
  <2> QED
    BY <1>1, <2>1 DEF ReadsAgree, RowAgrees, Found, AsRead
<1>5. ASSUME \A slot \in DOMAIN row'.dates : \E c \in Editions[source] :
               SaysAsMuch(source, c, doc) /\ States(source, c, slot)
      PROVE  DaysHaveOrigins'
  BY <1>1, <1>5 DEF DaysHaveOrigins
<1>6. ASSUME Derived(row', today) # Unknown => row'.state = Derived(row', today)
      PROVE  StateFollows'
  <2>1. Derived(row, today)' = Derived(row', today)
    BY <1>1 DEF Derived
  <2> QED
    BY <1>1, <1>3, <1>6, <2>1 DEF StateFollows
<1>7. CASE ~ row.held
  <2>1. PICK ni \in Normalize(source, doc, today) : row' = Created(ni, today)
    BY <1>7 DEF ReadSource
  <2>2. row'.keys = {ni.key} \cup ni.keys
    BY <1>3, <2>1, ReadingIsReadable, CreatedNames DEF Readable
  <2>3. source = "aiuc" => \A k, l \in row'.keys : k = l
    BY <2>2, ReleaseKeys
  <2>4. /\ AsRead(row', ni) /\ DOMAIN row'.dates = DOMAIN ni.dates
        /\ Derived(row', today) # Unknown => row'.state = Derived(row', today)
    BY <1>3, <2>1, CreatedAsRead
  <2>5. ReadsAgree'
    BY <1>4, <2>2, <2>3, <2>4
  <2>6. DaysHaveOrigins'
    BY <1>3, <1>5, <2>4 DEF States
  <2>7. StateFollows'
    BY <1>6, <2>4
  <2> QED
    BY <1>1, <1>2, <1>3, <2>3, <2>5, <2>6, <2>7 DEF HistoryInv, OneRelease
<1>8. CASE row.held /\ Found(row, doc, today) = {}
  <2>1. row' = row
    BY <1>8 DEF ReadSource, Reread
  <2>2. ReadsAgree'
    BY <1>1, <1>8, <2>1 DEF ReadsAgree, RowAgrees, Found
  <2>3. DaysHaveOrigins => DaysHaveOrigins'
    BY <1>1, <2>1 DEF DaysHaveOrigins
  <2>4. StateFollows => StateFollows'
    BY <1>1, <2>1 DEF StateFollows, Derived
  <2> QED
    BY <1>1, <1>2, <1>3, <1>8, <2>1, <2>2, <2>3, <2>4 DEF HistoryInv, OneRelease, Undisturbed, EndsAreFinal
<1>9. CASE row.held /\ Found(row, doc, today) # {}
  <2>1. PICK ni \in Found(row, doc, today) : row' = Updated(row, ni, today)
    BY <1>9 DEF ReadSource, Reread
  <2>2. ni \in Normalize(source, doc, today) /\ Finds(row, ni)
    BY DEF Found
  <2> DEFINE m == Merged(row, ni)
  <2>3. /\ row'.status = m.status /\ row'.action = m.action /\ row'.dates = m.dates
        /\ row'.keys = row.keys \cup {ni.key} \cup ni.keys
        /\ row'.state = Settled(row.state, Derived(row', today))
    BY <1>3, <2>1, UpdatedFields
  <2>4. source = "aiuc" => \A k, l \in row'.keys : k = l
    BY <2>2, <2>3, ReleaseKeys DEF HistoryInv, OneRelease
  <2>5. ASSUME ~ moved PROVE AsRead(m, ni)
    <3>1. ASSUME NEW slot \in DOMAIN row.dates, Matters(source, ni.status, slot)
          PROVE  slot \in DOMAIN ni.dates \/ slot[1] \in ni.retract
      <4>1. PICK c \in Editions[source] : SaysAsMuch(source, c, doc) /\ States(source, c, slot)
        BY <2>5, <3>1 DEF HistoryInv, DaysHaveOrigins
      <4>2. PICK day : \E nc \in Normalize(source, c, day) : slot \in DOMAIN nc.dates
        BY <4>1 DEF States
      <4> QED
        BY <1>3, <2>2, <3>1, <4>1, <4>2, DaysStayStated
    <3> QED
      BY <1>3, <2>2, <3>1, ReadingIsReadable, NotBothWays, MergedAsRead
  <2>6. \A slot \in DOMAIN m.dates : slot \in DOMAIN row.dates \cup DOMAIN ni.dates
    BY <1>3, MergedDates
  <2> HIDE DEF m
  <2>7. ~ moved => ReadsAgree'
    <3>1. ~ moved => AsRead(row', ni)
      BY <2>3, <2>5 DEF AsRead
    <3> QED
      BY <1>4, <2>2, <2>3, <2>4, <3>1
  <2>8. ~ moved => DaysHaveOrigins'
    <3>1. ASSUME ~ moved, NEW slot \in DOMAIN row'.dates
          PROVE  \E c \in Editions[source] : SaysAsMuch(source, c, doc) /\ States(source, c, slot)
      <4>1. CASE slot \in DOMAIN row.dates
        BY <3>1, <4>1 DEF HistoryInv, DaysHaveOrigins
      <4>2. CASE slot \in DOMAIN ni.dates
        BY <1>3, <2>2, <4>2 DEF States
      <4> QED
        BY <2>3, <2>6, <4>1, <4>2
    <3> QED
      BY <1>5, <3>1
  <2>9. Undisturbed(stage)' => StateFollows'
    <3>1. SUFFICES ASSUME Undisturbed(stage)', Derived(row', today) # Unknown
                   PROVE  row'.state = Derived(row', today)
      BY <1>6
    <3>2. Undisturbed(stage)
      BY <1>1, <3>1 DEF Undisturbed, EndsAreFinal
    <3>3. PICK x \in 0..WithdrawnPhase : RowEnds(row, x, today)
      BY <1>9, <3>2 DEF HistoryInv, ReplayInv, RowIsInPhase
    <3>4. "read" \notin objected'
      BY <1>2, <3>1 DEF ReplayInv, NoObjection
    <3>5. ~ Objects(row, Derived(row', today))
      BY <1>9, <3>4 DEF ReadSource
    <3> QED
      BY <2>3, <3>1, <3>3, <3>5, UnobjectedMoves DEF Objects, RowEnds, EndsWithin
  <2> QED
    BY <1>1, <1>2, <1>3, <2>4, <2>7, <2>8, <2>9 DEF HistoryInv, OneRelease
<1> QED
  BY <1>7, <1>8, <1>9

\* Nothing makes the past show.
LEMMA HistoryStep ==
  ASSUME NEW stage, EditionsAdvance(stage), DaysAreKept, HistoryInv(stage), [Next]_vars
  PROVE  HistoryInv(stage)'
<1>1. CASE UNCHANGED vars
  <2>1. ReplayInv(stage)'
    BY ReplayStep DEF HistoryInv
  <2> QED
    BY <1>1, <2>1 DEF vars, HistoryInv, OneRelease, DaysHaveOrigins, ReadsAgree, RowAgrees, Found,
                      AsRead, StateFollows, Derived, Undisturbed, EndsAreFinal
<1> QED
  BY <1>1, PublishHistory, ReadHistory, TickHistory, NewDayHistory, AssertHistory DEF Next

\* However many readings and ticks were missed, a row that has read the edition that stands and
\* has been ticked is in the state of a row created today: reduce_item and tick leave no trace
\* of what a document said before, for any editions that advance, end and keep their days.
THEOREM HistoryLeavesNoTrace ==
  ASSUME NEW stage, EditionsAdvance(stage), EndsAreFinal(stage), DaysAreKept
  PROVE  Spec => []HistoryDoesNotShow
<1>1. HistoryInv(stage) => HistoryDoesNotShow
  <2> SUFFICES ASSUME HistoryInv(stage), UpToDate, ticked, ~ moved, ~ postponed,
                      NEW ni \in Found(row, doc, today), Recognised(ni)
               PROVE  row.state = Created(ni, today).state
    BY DEF HistoryDoesNotShow
  <2>1. source \in Registered /\ ni \in Normalize(source, doc, today)
    BY ReplayAssumption DEF HistoryInv, ReplayInv, ReplayType, Found
  <2>2. AsRead(row, ni)
    BY DEF HistoryInv, UpToDate, ReadsAgree, RowAgrees
  <2>3. /\ AsRead(Created(ni, today), ni) /\ AsRead(Merged(NoRow, ni), ni)
        /\ Derived(Created(ni, today), today) # Unknown =>
             Created(ni, today).state = Derived(Created(ni, today), today)
    BY <2>1, CreatedAsRead
  <2>4. /\ Derived(row, today) = Derived(Merged(NoRow, ni), today)
        /\ Derived(Created(ni, today), today) = Derived(Merged(NoRow, ni), today)
    BY <2>2, <2>3, SameReadSameState
  <2>5. Derived(row, today) # Unknown => row.state = Derived(row, today)
    BY DEF HistoryInv, Undisturbed, UpToDate, StateFollows
  <2> QED
    BY <2>3, <2>4, <2>5 DEF Recognised
<1> QED
  BY <1>1, HistoryStart, HistoryStep, PTL DEF Spec
===============================================================================

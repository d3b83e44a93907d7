------------------------------- MODULE StateMap -------------------------------
(***************************************************************************)
(* core/statemap.py: the per-source functions from a document's native     *)
(* status, its dates and today's date to a canonical state.                *)
(*                                                                         *)
(* A date map is a function from slots <<date type, label>> to days; days  *)
(* are positive and NoDate stands for a slot without a current value. A    *)
(* native status is one representative of each class of strings a map      *)
(* tells apart ("act" for REG, DIR, DEC, *_IMPL and *_DEL; "stage_40_20"   *)
(* for the ISO stage codes; "awaiting" for the OEIL stages that are        *)
(* mapped to `proposed`).                                                  *)
(***************************************************************************)
EXTENDS Naturals

NoDate  == 0
NoLabel == "none"
Unknown == "unknown"

\* _get: the current unlabelled date of a type.
Get(dates, type) ==
  IF <<type, NoLabel>> \in DOMAIN dates THEN dates[<<type, NoLabel>>] ELSE NoDate

\* Current dates of the given types, whatever their label.
OfTypes(dates, types) ==
  { dates[s] : s \in {t \in DOMAIN dates : t[1] \in types /\ dates[t] # NoDate} }

\* What the native status alone decides, of the sources of which it decides a part or that
\* have many.
CellarFixes   == [ proposal |-> "proposed" ]
OeilFixes     == [ awaiting            |-> "proposed",
                   awaiting_signature  |-> "final_pending_effective",
                   procedure_completed |-> "effective",
                   lapsed_or_withdrawn |-> "withdrawn",
                   rejected            |-> "withdrawn" ]
EdpbFixes     == [ adopted |-> "effective" ]
CppaFixes     == [ completed |-> "effective" ]
LegiscanFixes == [ vetoed |-> "withdrawn" ]
PciSscFixes   == [ publication |-> "effective" ]
NistCsrcFixes == [ final |-> "effective" ]
IsoFixes      == [ published   |-> "effective",
                   withdrawn   |-> "withdrawn",
                   stage_30    |-> "proposed",
                   stage_40_20 |-> "comment_open",
                   stage_40_60 |-> "comment_closed",
                   stage_50    |-> "final_pending_effective",
                   stage_60    |-> "effective",
                   stage_90    |-> "effective",
                   stage_95    |-> "withdrawn" ]

\* Of each source, and in full of those whose native status alone decides.
FixedState ==
  [ hitrust        |-> [ release |-> "effective", advisory |-> "effective" ],
    cis            |-> [ release |-> "effective" ],
    fedramp        |-> [ announcement |-> "effective" ],
    ecfr           |-> [ in_force |-> "effective" ],
    uk_legislation |-> [ in_force |-> "effective",
                         pending  |-> "final_pending_effective" ],
    standard_pages |-> [ current |-> "effective" ],
    pci_docs       |-> [ standard |-> "effective" ],
    nist_pubs      |-> [ final |-> "effective", withdrawn |-> "withdrawn",
                         draft |-> "proposed" ],
    aiuc           |-> [ release |-> "effective", scheduled |-> "proposed" ],
    cellar |-> CellarFixes, oeil |-> OeilFixes, edpb |-> EdpbFixes, cppa |-> CppaFixes,
    legiscan |-> LegiscanFixes, pci_ssc |-> PciSscFixes, iso_catalog |-> IsoFixes,
    nist_csrc |-> NistCsrcFixes ]

\* Documents that open a consultation: without a close date they still mean open.
\* nist_csrc reads every status but "final" this way.
IsConsultation(source, status) ==
  \/ <<source, status>> \in { <<"edpb", "consultation">>, <<"esma", "consultation">>,
                              <<"eba", "consultation">>, <<"cppa", "proposed">>,
                              <<"pci_ssc", "rfc">> }
  \/ source = "nist_csrc" /\ status # "final"

\* Proposals that are not known to be open until a close date is known.
\* have_your_say reads every status this way.
IsProposal(source, status) ==
  \/ <<source, status>> \in { <<"federal_register", "PRORULE">>,
                              <<"regulations_gov", "PRORULE">>,
                              <<"aicpa", "exposure_draft">> }
  \/ source = "have_your_say"

\* Final acts, with the type of the date that puts them in force.
InForceDate == [ federal_register |-> "effective", regulations_gov |-> "effective",
                 cellar |-> "entry_into_force" ]
IsFinalAct(source, status) ==
  <<source, status>> \in { <<"federal_register", "RULE">>, <<"regulations_gov", "RULE">>,
                          <<"cellar", "act">> }

\* Mutant of WindowState: once the window has closed it is forgotten.
WindowStateForgets(dates, unannounced, today) ==
  LET cc == Get(dates, "comment_close")
  IN  IF cc >= today THEN "comment_open" ELSE unannounced

\* _comment_window_state, and the same test where an absent date means `proposed`.
WindowState(dates, unannounced, today) ==
  LET cc == Get(dates, "comment_close")
  IN  IF cc = NoDate THEN unannounced
      ELSE IF cc >= today THEN "comment_open" ELSE "comment_closed"

\* A date that, unless known to be ahead, is taken to have passed.
UnlessAhead(day, today) ==
  IF day > today THEN "final_pending_effective" ELSE "effective"

\* A date that, unless known to have passed, is taken to be ahead.
OncePassed(days, today) ==
  IF \E d \in days : d <= today THEN "effective" ELSE "final_pending_effective"

\* have_your_say_statemap: a recorded adoption ends the consultation.
Adopted(dates, today) ==
  LET adopted == OfTypes(dates, {"adopted"})
  IN  adopted # {} /\ (CHOOSE d \in adopted : TRUE) <= today

\* compute_state: the state a document stands for today, or Unknown.
ComputeState(source, status, action, dates, today) ==
  IF source = "federal_register" /\ action = "withdraw" THEN "withdrawn"
  ELSE IF source = "have_your_say" /\ Adopted(dates, today) THEN "effective"
  ELSE IF IsConsultation(source, status) THEN WindowState(dates, "comment_open", today)
  ELSE IF IsProposal(source, status) THEN WindowState(dates, "proposed", today)
  ELSE IF IsFinalAct(source, status) THEN
    UnlessAhead(Get(dates, InForceDate[source]), today)
  ELSE IF source = "legiscan" /\ status = "passed" THEN
    OncePassed({Get(dates, "effective")} \ {NoDate}, today)
  ELSE IF source = "curated" /\ status = "timeline" THEN
    OncePassed(OfTypes(dates, {"entry_into_force", "effective", "application"}), today)
  ELSE IF source \in DOMAIN FixedState /\ status \in DOMAIN FixedState[source] THEN
    FixedState[source][status]
  ELSE Unknown
===============================================================================
